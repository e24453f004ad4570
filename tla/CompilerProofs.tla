--------------------------- MODULE CompilerProofs ---------------------------
(***************************************************************************)
(* What holds of the compiler for every source.                            *)
(***************************************************************************)
EXTENDS Compiler, SequenceFacts, TLAPS

-----------------------------------------------------------------------------
(***************************************************************************)
(* The source, which no step changes.                                      *)
(***************************************************************************)
(* What the checks say of an expression depends on the source only.        *)
LEMMA SameSource ==
    ASSUME source' = source
    PROVE  /\ \A e : Operands(e)' = Operands(e)
           /\ \A e : ArgCount(e)' = ArgCount(e)
           /\ \A e : Accepted(e)' <=> Accepted(e)
           /\ \A e : Questionable(e)' <=> Questionable(e)
<1>1. /\ \A e : List(e)' = List(e)
      /\ \A e : Symbol(e)' = Symbol(e)
      /\ \A e : IsList(e)' <=> IsList(e)
      /\ \A e : IsSymbol(e)' <=> IsSymbol(e)
      /\ \A e : IsInteger(e)' <=> IsInteger(e)
  BY DEF List, Symbol, IsList, IsSymbol, IsInteger
<1>2. /\ \A e : IsForm(e)' <=> IsForm(e)
      /\ \A e : Op(e)' = Op(e)
      /\ \A e : Argc(e)' = Argc(e)
      /\ \A e, i : Arg(e, i)' = Arg(e, i)
  BY <1>1 DEF IsForm, Op, Argc, Arg, List, Symbol, IsList, IsSymbol
<1>3. \A e : DefinesFunction(e)' <=> DefinesFunction(e)
  BY DEF DefinesFunction, Op, Arg, List, Symbol, IsList
<1>4. Tops' = Tops
  BY DEF Tops, SingleDo, IsForm, Op, Symbol, List, IsList, IsSymbol
<1>5. Signatures' = Signatures
  BY <1>4 DEF Signatures, IsSignature, IsForm, Argc, DefinesFunction, Arg, Op, Symbol, List, IsList, IsSymbol
<1>6. \A e : FunctionName(e)' = FunctionName(e)
  BY DEF FunctionName, Op, Arg, List, Symbol
<1>7. \A n : Known(n)' <=> Known(n)
  BY <1>4, <1>5 DEF Known, FunctionName, Op, Arg, List, Symbol
<1>8. \A n : First(n)' = First(n)
  BY <1>4, <1>5 DEF First, FunctionName, Op, Arg, List, Symbol
<1>9. \A n : Arity(n)' = Arity(n)
  BY <1>4, <1>8 DEF Arity, Argc, Arg, List
<1>10. \A e : WrongCount(e)' <=> WrongCount(e)
  BY <1>2, <1>3, <1>7, <1>9 DEF WrongCount
<1>11. \A e : Unknown(e)' <=> Unknown(e)
  BY <1>2, <1>7 DEF Unknown
<1>12. \A e : BadTarget(e)' <=> BadTarget(e)
  BY <1>4 DEF BadTarget, TopLevel, DefinesFunction, IsForm, FunctionName, Op, Arg, List, Symbol, IsList, IsSymbol
<1>13. \A e : Accepted(e)' <=> Accepted(e)
  BY <1>2, <1>10, <1>11, <1>12 DEF Accepted
<1>14. \A e : Questionable(e)' <=> Questionable(e)
  BY DEF Questionable, DefinesFunction, Argc, Op, Arg, List, Symbol, IsInteger, IsList, IsSymbol
<1>15. \A e : Operands(e)' = Operands(e)
  BY <1>4 DEF Operands, Op, List, Symbol
<1>16. \A e : ArgCount(e)' = ArgCount(e)
  BY <1>4 DEF ArgCount, Operands, DefinesFunction, Op, Arg, List, Symbol, IsList
<1> QED
  BY <1>13, <1>14, <1>15, <1>16

(* An expression is an integer, a symbol or a list of expressions.         *)
LEMMA RawFacts ==
    ASSUME SourceOK(source), NEW e \in DOMAIN source.nodes
    PROVE  /\ List(e) \in Seq(DOMAIN source.nodes)
           /\ Symbol(e) \in STRING
           /\ source.nodes[e].integer \in -MaxInt .. MaxInt
           /\ IsSymbol(e) => Symbol(e) \in Names \cup Reserved
           /\ ~IsList(e) /\ ~IsInteger(e) => IsSymbol(e)
           /\ e # source.whole
  BY DEF SourceOK, List, Symbol, IsList, IsSymbol, IsInteger

LEMMA FormFacts ==
    ASSUME SourceOK(source), NEW e \in DOMAIN source.nodes, IsForm(e)
    PROVE  /\ List(e) \in Seq(DOMAIN source.nodes)
           /\ Op(e) \in STRING
           /\ Argc(e) \in Nat /\ Len(List(e)) = Argc(e) + 1
           /\ \A i \in 1 .. Argc(e) : Arg(e, i) \in DOMAIN source.nodes
           /\ Tail(List(e)) \in Seq(DOMAIN source.nodes)
           /\ Len(Tail(List(e))) = Argc(e)
<1> DEFINE ids == DOMAIN source.nodes
<1>1. List(e) \in Seq(ids) /\ List(e) # <<>>
  BY RawFacts DEF IsForm
<1>2. Len(List(e)) \in Nat \ {0}
  BY <1>1, EmptySeq
<1>3. \A i \in 1 .. Len(List(e)) : List(e)[i] \in ids
  BY <1>1, ElementOfSeq
<1>4. List(e)[1] \in ids
  BY <1>2, <1>3
<1>5. Op(e) \in STRING
  BY <1>4, RawFacts DEF Op
<1>6. Tail(List(e)) \in Seq(ids) /\ Len(Tail(List(e))) = Len(List(e)) - 1
  BY <1>1, HeadTailProperties
<1>7. \A i \in 1 .. Argc(e) : Arg(e, i) \in ids
  BY <1>2, <1>3 DEF Argc, Arg
<1> QED
  BY <1>1, <1>2, <1>5, <1>6, <1>7 DEF Argc

LEMMA TopsFacts ==
    ASSUME SourceOK(source)
    PROVE  Tops \in Seq(DOMAIN source.nodes)
<1>1. source.exprs \in Seq(DOMAIN source.nodes)
  BY DEF SourceOK
<1>2. CASE SingleDo
  <2>1. source.exprs[1] \in DOMAIN source.nodes /\ IsForm(source.exprs[1])
    BY <1>1, <1>2, ElementOfSeq DEF SingleDo
  <2> QED
    BY <1>2, <2>1, FormFacts DEF Tops
<1>3. CASE ~SingleDo
  BY <1>1, <1>3 DEF Tops
<1> QED
  BY <1>2, <1>3

(* What is compiled below a form that was accepted, or at the outermost    *)
(* level, are expressions.                                                 *)
LEMMA OperandsFacts ==
    ASSUME SourceOK(source), NEW e,
           e = source.whole \/ (e \in DOMAIN source.nodes /\ Accepted(e))
    PROVE  /\ Operands(e) \in Seq(DOMAIN source.nodes)
           /\ ArgCount(e) \in Nat
           /\ e # source.whole =>
                 Len(Operands(e)) = IF Op(e) \in {"define", "set!"} THEN Argc(e) - 1 ELSE Argc(e)
<1> DEFINE ids == DOMAIN source.nodes
<1>1. CASE e = source.whole
  BY <1>1, TopsFacts DEF Operands, ArgCount
<1>2. CASE e # source.whole
  <2>1. e \in ids /\ Accepted(e) /\ IsForm(e) /\ ~WrongCount(e)
    BY <1>2 DEF Accepted
  <2>2. /\ Tail(List(e)) \in Seq(ids) /\ Len(Tail(List(e))) = Argc(e)
        /\ Argc(e) \in Nat
    BY <2>1, FormFacts
  <2>3. CASE Op(e) \in {"define", "set!"}
    <3>1. Argc(e) >= 1
      BY <2>1, <2>2, <2>3 DEF WrongCount
    <3>2. Tail(List(e)) # <<>>
      BY <2>2, <3>1, EmptySeq
    <3>3. /\ Tail(Tail(List(e))) \in Seq(ids)
          /\ Len(Tail(Tail(List(e)))) = Argc(e) - 1
      BY <2>2, <3>2, HeadTailProperties
    <3> QED
      BY <1>2, <2>2, <2>3, <3>1, <3>3 DEF Operands, ArgCount
  <2>4. CASE Op(e) \notin {"define", "set!"}
    BY <1>2, <2>2, <2>4 DEF Operands, ArgCount
  <2> QED
    BY <2>3, <2>4
<1> QED
  BY <1>1, <1>2

-----------------------------------------------------------------------------
(***************************************************************************)
(* The nodes that are made.                                                *)
(***************************************************************************)
(* A node over the nodes S that the tree may take up.                      *)
Sound(node, S) ==
    /\ node \in [kind : NodeKinds, op : STRING, args : Seq(S), children : Seq(S),
                 params : {node.params}, num : -MaxInt .. MaxInt]
    /\ ArityOK(node)
    /\ node.kind \in {"DefineVar", "SetVar", "VarRef"} => node.op \in Names
    /\ node.kind = "ColorLiteral" => node.num \in Colors
    /\ blamed = {} => node.params \in Seq(Names)

LEMMA ColorFacts ==
    ASSUME NEW name \in ToSet(ColorNames)
    PROVE  ColorNamed(name) \in Colors
<1>1. PICK i \in DOMAIN ColorNames : ColorNames[i] = name
  BY DEF ToSet
<1>2. i \in 1 .. 6
  BY DEF ColorNames
<1>3. i - 1 \in Colors /\ ColorNames[(i - 1) + 1] = name
  BY <1>1, <1>2 DEF Colors
<1> QED
  BY <1>3 DEF ColorNamed

LEMMA AtomFacts ==
    ASSUME SourceOK(source), NEW e \in DOMAIN source.nodes, ~IsList(e), NEW S
    PROVE  Sound(Atom(e), S)
<1>1. MaxInt \in Nat /\ MaxInt >= 5
  BY BoundsAssumption
<1>2. <<>> \in Seq(S) /\ <<>> \in Seq(Names) /\ Len(<<>>) = 0
  BY EmptySeq
<1>3. ASSUME NEW k \in {"IntegerLiteral", "BooleanLiteral", "ColorLiteral", "VarRef"},
             NEW o \in STRING, NEW n \in -MaxInt .. MaxInt,
             k = "VarRef" => o \in Names, k = "ColorLiteral" => n \in Colors
      PROVE  Sound(NewNode(k, o, n), S)
  <2> DEFINE none == <<>>
             node == [kind |-> k, op |-> o, args |-> none, children |-> none,
                      params |-> none, num |-> n]
  <2>1. none \in Seq(S) /\ none \in Seq(Names) /\ Len(none) = 0
    BY <1>2
  <2>2. k \in NodeKinds
    BY DEF NodeKinds, Literals
  <2>3. NewNode(k, o, n) = node
    BY DEF NewNode
  <2> HIDE DEF none
  <2>4. /\ node.kind = k /\ node.op = o /\ node.args = none /\ node.params = none
        /\ node.num = n
    OBVIOUS
  <2>5. node \in [kind : NodeKinds, op : STRING, args : Seq(S), children : Seq(S),
                  params : {node.params}, num : -MaxInt .. MaxInt]
    BY <2>1, <2>2
  <2> HIDE DEF node
  <2>6. ArityOK(node)
    BY <2>1, <2>4 DEF ArityOK, OneOperand, Turns, Moves, Childless, Sensors, Literals
  <2>7. node.kind \in {"DefineVar", "SetVar", "VarRef"} => node.op \in Names
    BY <1>3, <2>4
  <2>8. node.kind = "ColorLiteral" => node.num \in Colors
    BY <1>3, <2>4
  <2>9. Sound(node, S)
    BY <2>1, <2>4, <2>5, <2>6, <2>7, <2>8 DEF Sound
  <2> QED
    BY <2>3, <2>9
<1>4. CASE IsInteger(e)
  <2> DEFINE amount == source.nodes[e].integer
  <2>1. amount \in -MaxInt .. MaxInt
    BY RawFacts
  <2>2. Atom(e) = NewNode("IntegerLiteral", "", amount)
    BY <1>4 DEF Atom
  <2> HIDE DEF amount
  <2>3. ASSUME NEW o \in STRING PROVE Sound(NewNode("IntegerLiteral", o, amount), S)
    BY <1>3, <2>1
  <2>4. "" \in STRING
    BY CompilerAssumption
  <2> QED
    BY <2>2, <2>3, <2>4
<1>5. CASE ~IsInteger(e)
  <2> DEFINE name == Symbol(e)
  <2>1. name \in STRING /\ name \in Names \cup Reserved
    BY <1>5, RawFacts
  <2>2. 0 \in -MaxInt .. MaxInt /\ 1 \in -MaxInt .. MaxInt /\ Colors \subseteq -MaxInt .. MaxInt
    BY <1>1 DEF Colors
  <2> SUFFICES Sound(NamedAtom(name), S)
    BY <1>5 DEF Atom
  <2> HIDE DEF name
  <2>3. CASE name \in {"true", "false"}
    <3>1. (IF name = "true" THEN 1 ELSE 0) \in -MaxInt .. MaxInt
      BY <2>2
    <3> QED
      BY <1>3, <2>1, <2>3, <3>1 DEF NamedAtom
  <2>4. CASE name \notin {"true", "false"} /\ name \in ToSet(ColorNames)
    <3>1. NamedAtom(name) = NewNode("ColorLiteral", name, ColorNamed(name))
      BY <2>4 DEF NamedAtom
    <3> QED
      BY <1>3, <2>1, <2>2, <2>4, <3>1, ColorFacts
  <2>5. CASE name \notin {"true", "false"} /\ name \notin ToSet(ColorNames)
    <3>1. NamedAtom(name) = NewNode("VarRef", name, 0)
      BY <2>5 DEF NamedAtom
    <3>2. name \in Names
      BY <2>1, <2>5 DEF Reserved
    <3> QED
      BY <1>3, <2>1, <2>2, <3>1, <3>2
  <2> QED
    BY <2>3, <2>4, <2>5
<1> QED
  BY <1>4, <1>5

(* What an accepted form has been checked for.                             *)
LEMMA AcceptedFacts ==
    ASSUME SourceOK(source), NEW e \in DOMAIN source.nodes, Accepted(e)
    PROVE  /\ IsForm(e) /\ Op(e) \in STRING /\ Argc(e) \in Nat
           /\ Op(e) \in SensorForms \cup {"stop", "beep"} => Argc(e) = 0
           /\ Op(e) \in {"turn-left", "turn-right", "wait", "light", "not"} => Argc(e) = 1
           /\ Op(e) \in {"drive", "backward", "-", "/", "set!"} \cup Comparisons => Argc(e) = 2
           /\ Op(e) = "if" => Argc(e) = 3
           /\ Op(e) \in {"repeat", "when", "while", "define"} => Argc(e) >= 1
           /\ Op(e) \in {"+", "*", "and", "or"} => Argc(e) >= 2
           /\ Op(e) = "define" => DefinesFunction(e) \/ Argc(e) = 2
           /\ Op(e) \in {"define", "set!"} => ~BadTarget(e)
<1>1. /\ IsForm(e) /\ ~WrongCount(e)
      /\ Op(e) \in {"define", "set!"} => ~BadTarget(e)
  BY DEF Accepted
<1>2. Op(e) \in STRING /\ Argc(e) \in Nat
  BY <1>1, FormFacts
<1> DEFINE o == Op(e)
           n == Argc(e)
<1>3. /\ ~(o \in SensorForms \cup {"stop", "beep"} /\ n # 0)
      /\ ~(o \in {"turn-left", "turn-right", "wait", "light", "not"} /\ n # 1)
      /\ ~(o \in {"drive", "backward", "-", "/", "set!"} \cup Comparisons /\ n # 2)
      /\ ~(o = "if" /\ n # 3)
      /\ ~(o \in {"repeat", "when", "while", "define"} /\ n < 1)
      /\ ~(o \in {"+", "*", "and", "or"} /\ n < 2)
      /\ ~(o = "define" /\ n > 0 /\ n # 2 /\ ~DefinesFunction(e))
  BY <1>1 DEF WrongCount
<1> HIDE DEF o, n
<1>4. /\ o = "define" => DefinesFunction(e) \/ n = 2
      /\ o \in {"repeat", "when", "while", "define"} => n >= 1
      /\ o \in {"+", "*", "and", "or"} => n >= 2
  BY <1>2, <1>3 DEF o, n
<1> QED
  BY <1>1, <1>2, <1>3, <1>4 DEF o, n

(* A definition or an assignment that was accepted names a variable.       *)
LEMMA TargetFacts ==
    ASSUME SourceOK(source), NEW e \in DOMAIN source.nodes, Accepted(e),
           Op(e) \in {"define", "set!"}
    PROVE  /\ Arg(e, 1) \in DOMAIN source.nodes
           /\ ~DefinesFunction(e) => Symbol(Arg(e, 1)) \in Names
           /\ DefinesFunction(e) => IsForm(Arg(e, 1)) /\ FunctionName(e) \in STRING
<1>1. IsForm(e) /\ Argc(e) \in Nat /\ Argc(e) >= 1 /\ ~BadTarget(e)
  BY AcceptedFacts
<1>2. Arg(e, 1) \in DOMAIN source.nodes
  BY <1>1, FormFacts
<1>3. ~DefinesFunction(e) => Symbol(Arg(e, 1)) \in Names
  BY <1>1, <1>2, RawFacts DEF BadTarget
<1>4. DefinesFunction(e) => IsForm(Arg(e, 1)) /\ FunctionName(e) \in STRING
  BY <1>1, <1>2, FormFacts DEF BadTarget, FunctionName
<1> QED
  BY <1>2, <1>3, <1>4

(* The parameters of a function no error was reported about are names.     *)
LEMMA ParamFacts ==
    ASSUME SourceOK(source), NEW e \in DOMAIN source.nodes, DefinesFunction(e),
           Arg(e, 1) \in DOMAIN source.nodes, IsForm(Arg(e, 1)), ~Questionable(e)
    PROVE  Params(e) \in Seq(Names) /\ Len(Params(e)) = Argc(Arg(e, 1))
<1> DEFINE target == Arg(e, 1)
           given == Tail(List(target))
           IsName(p) == IsSymbol(p) /\ Symbol(p) \notin Reserved
<1>1. /\ List(target) \in Seq(DOMAIN source.nodes) /\ List(target) # <<>>
      /\ Argc(target) \in Nat
      /\ \A i \in 1 .. Argc(target) : Arg(target, i) \in DOMAIN source.nodes
  BY FormFacts, EmptySeq DEF IsForm
<1>2. /\ given \in Seq(DOMAIN source.nodes) /\ Len(given) = Argc(target)
      /\ \A i \in 1 .. Argc(target) : given[i] = Arg(target, i)
  BY <1>1, HeadTailProperties DEF Arg, Argc
<1>3. \A i \in 1 .. Argc(target) : IsName(Arg(target, i))
  BY DEF Questionable
<1>4. \A i \in 1 .. Argc(target) : Symbol(Arg(target, i)) \in Names
  BY <1>1, <1>3, RawFacts
<1>5. DOMAIN given = 1 .. Argc(target)
  BY <1>2, LenProperties
<1>6. \A i \in DOMAIN given : IsName(given[i])
  BY <1>2, <1>3, <1>5
<1>7. Params(e) = [i \in 1 .. Len(given) |-> Symbol(given[i])]
  BY <1>6 DEF Params
<1>8. \A i \in 1 .. Len(given) : Symbol(given[i]) \in Names
  BY <1>2, <1>4
<1> HIDE DEF given
<1>9. [i \in 1 .. Len(given) |-> Symbol(given[i])] \in Seq(Names)
  BY <1>1, <1>2, <1>8
<1> QED
  BY <1>1, <1>2, <1>7, <1>9

(* The kind a form gets has the operands it was checked for.               *)
LEMMA KindFacts ==
    ASSUME SourceOK(source), NEW e \in DOMAIN source.nodes, Accepted(e),
           NEW node, Len(node.args) = ArgCount(e), node.kind = FormKind(e),
           node.op = Op(e) \/ Op(e) \in {"define", "set!"}
    PROVE  ArityOK(node)
<1> DEFINE o == Op(e)
           n == Argc(e)
<1>1. /\ n \in Nat
      /\ o \in SensorForms \cup {"stop", "beep"} => n = 0
      /\ o \in {"turn-left", "turn-right", "wait", "light", "not"} => n = 1
      /\ o \in {"drive", "backward", "-", "/", "set!"} \cup Comparisons => n = 2
      /\ o = "if" => n = 3
      /\ o \in {"+", "*", "and", "or"} => n >= 2
      /\ o = "define" => DefinesFunction(e) \/ n = 2
  BY AcceptedFacts
<1>2. DefinesFunction(e) => o = "define"
  BY DEF DefinesFunction
<1>3. Len(node.args) =
        IF o = "do" \/ DefinesFunction(e) THEN 0
        ELSE IF o \in {"repeat", "when", "while"} THEN 1
        ELSE IF o \in {"define", "set!"} THEN n - 1 ELSE n
  BY RawFacts, OperandsFacts DEF ArgCount
<1> DEFINE k == node.kind
<1>4. /\ k = "DefineVar" => o = "define" /\ ~DefinesFunction(e)
      /\ k = "DefineFunc" => DefinesFunction(e)
      /\ k = "SetVar" => o = "set!"
      /\ k \in {"Repeat", "When", "While"} => o \in {"repeat", "when", "while"}
      /\ k = "If" => o = "if"
  BY DEF FormKind, Comparisons, BooleanOps, ArithmeticOps
<1>5. /\ k \in Turns \cup {"Wait", "Light"} => o \in {"turn-left", "turn-right", "wait", "light"}
      /\ k \in Moves => o \in {"drive", "backward"}
      /\ k \in {"Stop", "Beep"} => o \in {"stop", "beep"}
      /\ k \in Sensors => o \in SensorForms
  BY DEF FormKind, Comparisons, BooleanOps, ArithmeticOps, Turns, Moves, Sensors, SensorForms
<1>6. /\ k = "Compare" => o \in Comparisons
      /\ k = "BooleanOp" => o \in BooleanOps
      /\ k = "Arithmetic" => o \in ArithmeticOps
      /\ k \notin Literals \cup {"VarRef"}
  BY DEF FormKind, Literals
<1>7. /\ o \in Comparisons => o \notin {"do", "repeat", "when", "while", "define", "set!"}
      /\ o \in BooleanOps => o \notin {"do", "repeat", "when", "while", "define", "set!"}
      /\ o \in ArithmeticOps => o \notin {"do", "repeat", "when", "while", "define", "set!"}
      /\ o \in SensorForms => o \notin {"do", "repeat", "when", "while", "define", "set!"}
  BY DEF Comparisons, BooleanOps, ArithmeticOps, SensorForms
<1>8. k \in {"BooleanOp", "Arithmetic"} => node.op = o
  BY <1>6, <1>7
<1> HIDE DEF o, n, k
<1>9. /\ k \in OneOperand => Len(node.args) = 1
      /\ k \in Moves \cup {"Compare"} => Len(node.args) = 2
      /\ k = "If" => Len(node.args) = 3
      /\ k \in Childless => Len(node.args) = 0
  BY <1>1, <1>2, <1>3, <1>4, <1>5, <1>6, <1>7 DEF OneOperand, Childless
<1>10. k = "Arithmetic" => Len(node.args) >= 2 /\ node.op \in {"+", "-", "*", "/"}
  BY <1>1, <1>2, <1>3, <1>6, <1>7, <1>8 DEF ArithmeticOps
<1>11. k = "BooleanOp" => IF node.op = "not" THEN Len(node.args) = 1 ELSE Len(node.args) >= 2
  BY <1>1, <1>2, <1>3, <1>6, <1>7, <1>8 DEF BooleanOps
<1> QED
  BY <1>9, <1>10, <1>11 DEF ArityOK, k

(* The node of a form whose args are all there.                            *)
LEMMA FormNodeFacts ==
    ASSUME SourceOK(source), NEW e \in DOMAIN source.nodes, Accepted(e), NEW S, NEW f,
           f.expr = e, f.args \in Seq(S), f.children \in Seq(S), Len(f.args) = ArgCount(e),
           blamed = {} => ~Questionable(e)
    PROVE  Sound(FormNode(f), S)
<1> DEFINE none == <<>>
           o == NodeOp(e)
           params == IF DefinesFunction(e) THEN Params(e) ELSE none
           node == [kind |-> FormKind(e), op |-> o, args |-> f.args, children |-> f.children,
                    params |-> params, num |-> 0]
<1>1. none \in Seq(Names)
  BY EmptySeq
<1>2. FormNode(f) = node
  BY DEF FormNode
<1>3. DefinesFunction(e) => Op(e) = "define"
  BY DEF DefinesFunction
<1>4. /\ FormKind(e) \in NodeKinds
      /\ FormKind(e) \in {"DefineVar", "SetVar", "VarRef"} =>
            Op(e) \in {"define", "set!"} /\ ~DefinesFunction(e)
      /\ FormKind(e) # "ColorLiteral"
  BY <1>3 DEF FormKind, NodeKinds, Commands, Moves, Turns, Sensors, Literals, Operators, Control
<1>5. /\ Op(e) \in {"define", "set!"} /\ ~DefinesFunction(e) => o \in Names
      /\ o = Op(e) \/ Op(e) \in {"define", "set!"}
  BY <1>3, TargetFacts DEF NodeOp
<1>6. o \in STRING
  <2>1. CASE DefinesFunction(e)
    BY <1>3, <2>1, TargetFacts DEF NodeOp
  <2>2. CASE ~DefinesFunction(e)
    BY <1>5, <2>2, AcceptedFacts, CompilerAssumption
  <2> QED
    BY <2>1, <2>2
<1>7. blamed = {} => params \in Seq(Names)
  BY <1>1, <1>3, TargetFacts, ParamFacts
<1> HIDE DEF o, params, none
<1>8. /\ node.kind = FormKind(e) /\ node.op = o /\ node.args = f.args /\ node.params = params
      /\ node.num = 0
  OBVIOUS
<1>9. 0 \in -MaxInt .. MaxInt
  BY BoundsAssumption
<1>10. node \in [kind : NodeKinds, op : STRING, args : Seq(S), children : Seq(S),
                 params : {node.params}, num : -MaxInt .. MaxInt]
  BY <1>4, <1>6, <1>9
<1> HIDE DEF node
<1>11. ArityOK(node)
  BY <1>5, <1>8, KindFacts
<1>12. /\ node.kind \in {"DefineVar", "SetVar", "VarRef"} => node.op \in Names
       /\ node.kind # "ColorLiteral"
       /\ blamed = {} => node.params \in Seq(Names)
  BY <1>4, <1>5, <1>7, <1>8
<1>13. Sound(node, S)
  BY <1>10, <1>11, <1>12 DEF Sound
<1> QED
  BY <1>2, <1>13

(* The do around the outermost statements.                                 *)
LEMMA RootFacts ==
    ASSUME NEW S, NEW statements \in Seq(S)
    PROVE  Sound([NewNode("Do", "do", 0) EXCEPT !.children = statements], S)
<1> DEFINE none == <<>>
           node == [kind |-> "Do", op |-> "do", args |-> none, children |-> statements,
                    params |-> none, num |-> 0]
           new == [kind |-> "Do", op |-> "do", args |-> none, children |-> none,
                   params |-> none, num |-> 0]
<1>1. none \in Seq(S) /\ none \in Seq(Names)
  BY EmptySeq
<1>2. [NewNode("Do", "do", 0) EXCEPT !.children = statements] = node
  <2>1. NewNode("Do", "do", 0) = new
    BY DEF NewNode
  <2> HIDE DEF none
  <2>2. [new EXCEPT !.children = statements] = node
    OBVIOUS
  <2> QED
    BY <2>1, <2>2
<1>3. "do" \in STRING /\ 0 \in -MaxInt .. MaxInt /\ "Do" \in NodeKinds
  <2>1. "do" \in STRING
    BY CompilerAssumption
  <2>2. 0 \in -MaxInt .. MaxInt
    BY BoundsAssumption
  <2> QED
    BY <2>1, <2>2 DEF NodeKinds, Control
<1> HIDE DEF none
<1>4. node.kind = "Do" /\ node.params = none
  OBVIOUS
<1>5. node \in [kind : NodeKinds, op : STRING, args : Seq(S), children : Seq(S),
                params : {node.params}, num : -MaxInt .. MaxInt]
  BY <1>1, <1>3
<1> HIDE DEF node
<1>6. ArityOK(node)
  BY <1>4 DEF ArityOK, OneOperand, Turns, Moves, Childless, Sensors, Literals
<1>7. Sound(node, S)
  BY <1>1, <1>4, <1>5, <1>6 DEF Sound
<1> QED
  BY <1>2, <1>7

-----------------------------------------------------------------------------
(***************************************************************************)
(* What a step does to the tree and to the forms being compiled.           *)
(***************************************************************************)
TreeOK ==
    /\ program = [root |-> program.root, ast |-> program.ast]
    /\ Nodes \subseteq DOMAIN source.nodes \cup {source.whole}
    /\ Ast = [n \in Nodes |-> Ast[n]]
    /\ \A n \in Nodes : Ast[n] \in Shapes(Ast[n]) /\ NodeOK(n)

FramesOK ==
    /\ frames \in Seq(FrameShapes)
    /\ \A i \in 1 .. Len(frames) : FrameOK(i)

LEMMA Parts ==
    IInv <=> /\ SourceOK(source)
             /\ stage \in Stages
             /\ blamed \subseteq DOMAIN source.nodes \cup {source.whole}
             /\ TreeOK
             /\ FramesOK
             /\ stage = "forms" => frames # <<>>
             /\ stage = "signatures" => Nodes = {} /\ frames = <<>>
BY DEF IInv, TypeOK, TreeOK, FramesOK

LEMMA TreeSound ==
    ASSUME TreeOK, NEW n \in Nodes
    PROVE  Sound(Ast[n], Nodes)
BY DEF TreeOK, NodeOK, Shapes, Sound

(* A sound node may join the tree, also with new nodes around.             *)
LEMMA SoundWider ==
    ASSUME NEW S, NEW T, S \subseteq T, NEW node, Sound(node, S)
    PROVE  Sound(node, T)
<1>1. node.args \in Seq(S) /\ node.children \in Seq(S)
  BY DEF Sound
<1>2. node.args \in Seq(T) /\ node.children \in Seq(T)
  BY <1>1, SeqMonotonic
<1>3. node \in [kind : NodeKinds, op : STRING, args : Seq(T), children : Seq(T),
                params : {node.params}, num : -MaxInt .. MaxInt]
  BY <1>2 DEF Sound
<1> QED
  BY <1>3 DEF Sound

LEMMA TreeAdds ==
    ASSUME TreeOK, source' = source, blamed' = blamed,
           NEW e \in DOMAIN source.nodes \cup {source.whole}, NEW node,
           Sound(node, Nodes \cup {e}), program' = WithNode(e, node)
    PROVE  /\ TreeOK' /\ Nodes' = Nodes \cup {e}
           /\ \A n \in Nodes' : Ast'[n] = IF n = e THEN node ELSE Ast[n]
<1> DEFINE ids == Nodes \cup {e}
<1>1. /\ program' = [root |-> program.root, ast |-> [x \in ids |-> IF x = e THEN node ELSE Ast[x]]]
      /\ program = [root |-> program.root, ast |-> program.ast]
  BY DEF WithNode, TreeOK, Nodes, Ast
<1>2. /\ program'.ast = [x \in ids |-> IF x = e THEN node ELSE Ast[x]]
      /\ program' = [root |-> program'.root, ast |-> program'.ast]
  BY <1>1
<1>3. Nodes' = ids /\ Ast' = [x \in ids |-> IF x = e THEN node ELSE Ast[x]]
  BY <1>2 DEF Nodes, Ast
<1>4. Nodes' \subseteq DOMAIN source'.nodes \cup {source'.whole}
  BY <1>3 DEF TreeOK
<1>5. ASSUME NEW n \in Nodes' PROVE Sound(Ast'[n], Nodes')
  <2>1. CASE n = e
    BY <1>3, <2>1
  <2>2. CASE n # e
    <3>1. n \in Nodes /\ Ast'[n] = Ast[n]
      BY <1>3, <2>2
    <3>2. Sound(Ast[n], Nodes)
      BY <3>1, TreeSound
    <3> QED
      BY <1>3, <3>1, <3>2, SoundWider
  <2> QED
    BY <2>1, <2>2
<1>6. ASSUME NEW n \in Nodes' PROVE Ast'[n] \in Shapes(Ast[n])' /\ NodeOK(n)'
  BY <1>5 DEF Sound, Shapes, NodeOK
<1>7. Ast' = [n \in Nodes' |-> Ast'[n]]
  BY <1>3
<1> QED
  BY <1>2, <1>3, <1>4, <1>6, <1>7 DEF TreeOK

LEMMA TreeKept ==
    ASSUME TreeOK, source' = source, blamed \subseteq blamed', program' = program
    PROVE  TreeOK' /\ Nodes' = Nodes
<1>1. Nodes' = Nodes /\ Ast' = Ast
  BY DEF Nodes, Ast
<1>2. ASSUME NEW n \in Nodes PROVE Ast'[n] \in Shapes(Ast[n])' /\ NodeOK(n)'
  BY <1>1 DEF TreeOK, Shapes, NodeOK, ArityOK
<1> QED
  BY <1>1, <1>2 DEF TreeOK

LEMMA TreeRooted ==
    ASSUME TreeOK, source' = source, blamed' = blamed,
           NEW r, program' = [program EXCEPT !.root = r]
    PROVE  TreeOK' /\ Nodes' = Nodes
<1>0. program = [root |-> program.root, ast |-> program.ast]
  BY DEF TreeOK
<1>1. program'.ast = program.ast /\ program' = [root |-> program'.root, ast |-> program'.ast]
  BY <1>0
<1>2. Nodes' = Nodes /\ Ast' = Ast
  BY <1>1 DEF Nodes, Ast
<1>3. ASSUME NEW n \in Nodes PROVE Ast'[n] \in Shapes(Ast[n])' /\ NodeOK(n)'
  BY <1>2 DEF TreeOK, Shapes, NodeOK, ArityOK
<1> QED
  BY <1>1, <1>2, <1>3 DEF TreeOK

(* The form being compiled, and what is compiled next.                     *)
LEMMA ActiveFacts ==
    ASSUME SourceOK(source), FramesOK, frames # <<>>
    PROVE  /\ Len(frames) \in Nat \ {0}
           /\ active \in FrameShapes
           /\ IF Len(frames) = 1 THEN active.expr = source.whole
              ELSE /\ active.expr \in DOMAIN source.nodes /\ Accepted(active.expr)
                   /\ blamed = {} => ~Questionable(active.expr)
           /\ More => upcoming \in DOMAIN source.nodes
<1>1. Len(frames) \in Nat \ {0}
  BY EmptySeq DEF FramesOK
<1>2. active \in FrameShapes
  BY <1>1, ElementOfSeq DEF FramesOK, active
<1>3. FrameOK(Len(frames))
  BY <1>1 DEF FramesOK
<1>4. IF Len(frames) = 1 THEN active.expr = source.whole
      ELSE /\ active.expr \in DOMAIN source.nodes /\ Accepted(active.expr)
           /\ blamed = {} => ~Questionable(active.expr)
  BY <1>3 DEF FrameOK, active
<1>5. Operands(active.expr) \in Seq(DOMAIN source.nodes)
  BY <1>4, OperandsFacts
<1>6. active.pos \in Nat
  BY <1>2 DEF FrameShapes
<1>7. ASSUME More PROVE upcoming \in DOMAIN source.nodes
  <2>1. active.pos < Len(Operands(active.expr))
    BY <1>7 DEF More
  <2>2. active.pos + 1 \in 1 .. Len(Operands(active.expr))
    BY <1>5, <1>6, <2>1, LenProperties
  <2> QED
    BY <1>5, <2>2, ElementOfSeq DEF upcoming
<1> QED
  BY <1>1, <1>2, <1>4, <1>7

(* A frame that goes on to its next operand, over more nodes.              *)
LEMMA MovesOn ==
    ASSUME NEW f \in FrameShapes, Nodes \subseteq Nodes', source' = source
    PROVE  /\ Passed(f) \in FrameShapes' /\ Passed(f).expr = f.expr
           /\ \A e \in Nodes' :
                 Received(f, e) \in FrameShapes' /\ Received(f, e).expr = f.expr
<1>1. /\ f = [expr |-> f.expr, pos |-> f.pos, args |-> f.args, children |-> f.children]
      /\ f.expr \in DOMAIN source.nodes \cup {source.whole}
      /\ f.pos \in Nat /\ f.args \in Seq(Nodes) /\ f.children \in Seq(Nodes)
  BY DEF FrameShapes
<1>2. f.args \in Seq(Nodes') /\ f.children \in Seq(Nodes')
  BY <1>1, SeqMonotonic
<1>3. ASSUME NEW a \in Seq(Nodes'), NEW c \in Seq(Nodes')
      PROVE  [expr |-> f.expr, pos |-> f.pos + 1, args |-> a, children |-> c] \in FrameShapes'
  BY <1>1, <1>3 DEF FrameShapes
<1>4. Passed(f) = [expr |-> f.expr, pos |-> f.pos + 1, args |-> f.args, children |-> f.children]
  BY <1>1 DEF Passed
<1>5. ASSUME NEW e \in Nodes'
      PROVE  Received(f, e) \in FrameShapes' /\ Received(f, e).expr = f.expr
  <2>1. Append(f.args, e) \in Seq(Nodes') /\ Append(f.children, e) \in Seq(Nodes')
    BY <1>2, AppendProperties
  <2>2. CASE f.pos < ArgCount(f.expr)
    <3> DEFINE a == Append(f.args, e)
               next == [expr |-> f.expr, pos |-> f.pos + 1, args |-> a, children |-> f.children]
    <3>1. Received(f, e) = next
      BY <1>1, <2>2 DEF Received
    <3> HIDE DEF a
    <3>2. next \in FrameShapes'
      BY <1>2, <1>3, <2>1 DEF a
    <3>3. next.expr = f.expr
      OBVIOUS
    <3> QED
      BY <3>1, <3>2, <3>3
  <2>3. CASE ~(f.pos < ArgCount(f.expr))
    <3> DEFINE c == Append(f.children, e)
               next == [expr |-> f.expr, pos |-> f.pos + 1, args |-> f.args, children |-> c]
    <3>1. Received(f, e) = next
      BY <1>1, <2>3 DEF Received
    <3> HIDE DEF c
    <3>2. next \in FrameShapes'
      BY <1>2, <1>3, <2>1 DEF c
    <3>3. next.expr = f.expr
      OBVIOUS
    <3> QED
      BY <3>1, <3>2, <3>3
  <2> QED
    BY <2>2, <2>3
<1> QED
  BY <1>2, <1>3, <1>4, <1>5

(* The forms below a point of the recursion stay as they are.              *)
LEMMA FramesBelow ==
    ASSUME FramesOK, source' = source, blamed \subseteq blamed', Nodes \subseteq Nodes',
           NEW i \in 1 .. Len(frames), frames'[i].expr = frames[i].expr
    PROVE  FrameOK(i)'
BY SameSource DEF FramesOK, FrameOK

LEMMA ShapesWider ==
    ASSUME source' = source, Nodes \subseteq Nodes'
    PROVE  FrameShapes \subseteq FrameShapes'
<1> SUFFICES ASSUME NEW f \in FrameShapes PROVE f \in FrameShapes'
  OBVIOUS
<1>1. f.args \in Seq(Nodes') /\ f.children \in Seq(Nodes')
  BY SeqMonotonic DEF FrameShapes
<1> QED
  BY <1>1 DEF FrameShapes

(* The innermost form, or the one around it, moves on.                     *)
LEMMA FramesMove ==
    ASSUME FramesOK, source' = source, blamed \subseteq blamed', Nodes \subseteq Nodes',
           NEW s \in Seq(FrameShapes), s # <<>>, Len(s) <= Len(frames),
           \A i \in 1 .. Len(s) : s[i] = frames[i],
           NEW f \in FrameShapes', f.expr = s[Len(s)].expr,
           frames' = [s EXCEPT ![Len(s)] = f]
    PROVE  FramesOK' /\ frames' # <<>>
<1>1. Len(s) \in Nat \ {0} /\ Len(frames) \in Nat
  BY EmptySeq, LenProperties DEF FramesOK
<1>2. s \in Seq(FrameShapes')
  BY ShapesWider, SeqMonotonic
<1>3. /\ frames' \in Seq(FrameShapes')
      /\ Len(frames') = Len(s)
      /\ \A j \in 1 .. Len(s) : frames'[j] = IF j = Len(s) THEN f ELSE s[j]
  BY <1>1, <1>2, ExceptSeq
<1>4. ASSUME NEW i \in 1 .. Len(s) PROVE FrameOK(i)'
  <2>1. i \in 1 .. Len(frames)
    BY <1>1
  <2>2. frames'[i].expr = frames[i].expr
    BY <1>3
  <2> QED
    BY <2>1, <2>2, FramesBelow
<1>5. frames' # <<>>
  BY <1>1, <1>3, EmptySeq
<1> QED
  BY <1>3, <1>4, <1>5 DEF FramesOK

LEMMA ActiveMoves ==
    ASSUME FramesOK, frames # <<>>, source' = source, blamed \subseteq blamed',
           Nodes \subseteq Nodes',
           NEW f \in FrameShapes', f.expr = active.expr,
           frames' = [frames EXCEPT ![Len(frames)] = f]
    PROVE  FramesOK' /\ frames' # <<>>
<1>1. frames \in Seq(FrameShapes) /\ Len(frames) \in Nat
  BY LenProperties DEF FramesOK
<1>2. Len(frames) <= Len(frames) /\ \A i \in 1 .. Len(frames) : frames[i] = frames[i]
  BY <1>1
<1>3. f.expr = frames[Len(frames)].expr
  BY DEF active
<1> QED
  BY <1>1, <1>2, <1>3, FramesMove

-----------------------------------------------------------------------------
(***************************************************************************)
(* Every step preserves the invariant.                                     *)
(***************************************************************************)
(* compile() has been called and has done nothing yet.                     *)
Fresh ==
    /\ SourceOK(source)
    /\ program = [root |-> source.whole, ast |-> <<>>]
    /\ stage = "signatures" /\ frames = <<>> /\ blamed = {}

LEMMA FreshInv == Fresh => IInv
<1> SUFFICES ASSUME Fresh PROVE IInv
  OBVIOUS
<1> DEFINE none == <<>>
<1>1. program = [root |-> source.whole, ast |-> none]
      /\ stage = "signatures" /\ frames = none /\ blamed = {}
  BY DEF Fresh
<1>2. SourceOK(source)
  BY DEF Fresh
<1>3. DOMAIN none = {} /\ none = [n \in {} |-> none[n]] /\ none \in Seq(FrameShapes) /\ Len(none) = 0
  BY EmptySeq
<1> HIDE DEF none
<1>4. Nodes = {} /\ Ast = none
  BY <1>1, <1>3 DEF Nodes, Ast
<1>5. program = [root |-> program.root, ast |-> program.ast]
  BY <1>1
<1>6. TreeOK
  BY <1>3, <1>4, <1>5 DEF TreeOK
<1>7. FramesOK
  BY <1>1, <1>3 DEF FramesOK
<1>8. stage \in Stages
  BY <1>1 DEF Stages
<1>9. frames = <<>>
  BY <1>1 DEF none
<1> QED
  BY <1>1, <1>2, <1>4, <1>6, <1>7, <1>8, <1>9, Parts

LEMMA CompilerInit == Init => IInv
BY FreshInv, CompilerAssumption DEF Init, Fresh

LEMMA DuplicatesFacts ==
    ASSUME SourceOK(source)
    PROVE  Duplicates \subseteq DOMAIN source.nodes
<1>1. \A i \in 1 .. Len(Tops) : Tops[i] \in DOMAIN source.nodes
  BY TopsFacts, ElementOfSeq
<1> QED
  BY <1>1 DEF Duplicates, Signatures

(* The parts of the invariant that only some steps change.                 *)
LEMMA PartsKept ==
    ASSUME IInv, source' = source, stage' \in Stages \ {"signatures"},
           blamed' \subseteq DOMAIN source.nodes \cup {source.whole},
           TreeOK', FramesOK', stage' = "forms" => frames' # <<>>
    PROVE  IInv'
<1>1. SourceOK(source')
  BY Parts
<1> QED
  BY <1>1 DEF IInv, TypeOK, TreeOK, FramesOK, Stages

LEMMA CollectKeeps == ASSUME IInv, CollectSignatures PROVE IInv'
<1>1. /\ SourceOK(source) /\ TreeOK /\ FramesOK
      /\ Nodes = {} /\ frames = <<>> /\ stage = "signatures"
      /\ source' = source /\ program' = program
  BY Parts DEF CollectSignatures
<1>2. TreeOK'
  BY <1>1 DEF TreeOK, Nodes, Ast
<1>3. CASE source.exprs = <<>>
  <2>1. stage' = "over" /\ frames' = frames /\ blamed' \subseteq {source.whole}
    BY <1>3 DEF CollectSignatures
  <2>2. FramesOK'
    <3> DEFINE none == <<>>
    <3>1. none \in Seq(FrameShapes') /\ Len(none) = 0
      BY EmptySeq
    <3>2. frames' = none
      BY <1>1, <2>1
    <3> HIDE DEF none
    <3> QED
      BY <3>1, <3>2 DEF FramesOK
  <2> QED
    BY <1>1, <1>2, <2>1, <2>2, PartsKept DEF Stages
<1>4. CASE source.exprs # <<>>
  <2> DEFINE f == Frame(source.whole)
  <2>1. stage' = "forms" /\ frames' = <<f>> /\ blamed' = Duplicates
    BY <1>4 DEF CollectSignatures
  <2>2. f \in FrameShapes' /\ f.expr = source.whole
    <3> DEFINE none == <<>>
    <3>1. f = [expr |-> source.whole, pos |-> 0, args |-> none, children |-> none]
      BY DEF Frame
    <3>2. none \in Seq(Nodes')
      BY EmptySeq
    <3> HIDE DEF none
    <3> QED
      BY <1>1, <3>1, <3>2 DEF FrameShapes
  <2> HIDE DEF f
  <2>3. frames' \in Seq(FrameShapes') /\ Len(frames') = 1 /\ frames'[1] = f
    BY <2>1, <2>2
  <2>4. \A i \in 1 .. Len(frames') : FrameOK(i)'
    BY <1>1, <2>2, <2>3 DEF FrameOK
  <2>5. frames' # <<>>
    BY <2>3, EmptySeq
  <2> QED
    BY <1>1, <1>2, <2>1, <2>3, <2>4, <2>5, DuplicatesFacts, PartsKept DEF FramesOK, Stages
<1> QED
  BY <1>3, <1>4

(* What the steps inside the recursion start from.                         *)
LEMMA FormsFacts ==
    ASSUME IInv, stage = "forms"
    PROVE  /\ SourceOK(source) /\ TreeOK /\ FramesOK /\ frames # <<>>
           /\ Len(frames) \in Nat \ {0}
           /\ active \in FrameShapes /\ active = frames[Len(frames)]
           /\ frames \in Seq(FrameShapes)
           /\ More => upcoming \in DOMAIN source.nodes
           /\ blamed \subseteq DOMAIN source.nodes \cup {source.whole}
           /\ stage \in Stages \ {"signatures"}
<1>1. SourceOK(source) /\ TreeOK /\ FramesOK /\ frames # <<>> /\ stage \in Stages
      /\ blamed \subseteq DOMAIN source.nodes \cup {source.whole}
  BY Parts
<1> QED
  BY <1>1, ActiveFacts DEF FramesOK, active

LEMMA AtomKeeps == ASSUME IInv, CompileAtom PROVE IInv'
<1>1. /\ stage = "forms" /\ More /\ ~IsList(upcoming)
      /\ program' = WithNode(upcoming, Atom(upcoming))
      /\ frames' = [frames EXCEPT ![Len(frames)] = Received(active, upcoming)]
      /\ source' = source /\ stage' = stage /\ blamed' = blamed
  BY DEF CompileAtom, More, active
<1>2. /\ SourceOK(source) /\ TreeOK /\ FramesOK /\ frames # <<>>
      /\ active \in FrameShapes /\ active = frames[Len(frames)]
      /\ frames \in Seq(FrameShapes) /\ Len(frames) \in Nat
      /\ upcoming \in DOMAIN source.nodes
      /\ blamed \subseteq DOMAIN source.nodes \cup {source.whole}
      /\ stage \in Stages \ {"signatures"}
  BY <1>1, FormsFacts
<1>3. Sound(Atom(upcoming), Nodes \cup {upcoming})
  BY <1>1, <1>2, AtomFacts
<1>4. TreeOK' /\ Nodes' = Nodes \cup {upcoming}
  BY <1>1, <1>2, <1>3, TreeAdds
<1>5. /\ Received(active, upcoming) \in FrameShapes'
      /\ Received(active, upcoming).expr = active.expr
  BY <1>1, <1>2, <1>4, MovesOn
<1>6. FramesOK' /\ frames' # <<>>
  <2> DEFINE f == Received(active, upcoming)
  <2>1. f \in FrameShapes' /\ f.expr = active.expr /\ frames' = [frames EXCEPT ![Len(frames)] = f]
    BY <1>1, <1>5
  <2>2. Nodes \subseteq Nodes' /\ blamed \subseteq blamed'
    BY <1>1, <1>4
  <2> HIDE DEF f
  <2> QED
    BY <1>1, <1>2, <2>1, <2>2, ActiveMoves
<1> QED
  BY <1>1, <1>2, <1>4, <1>6, PartsKept

LEMMA RefuseKeeps == ASSUME IInv, RefuseForm PROVE IInv'
<1>1. /\ stage = "forms" /\ More
      /\ blamed' = blamed \cup {upcoming}
      /\ frames' = [frames EXCEPT ![Len(frames)] = Passed(active)]
      /\ source' = source /\ stage' = stage /\ program' = program
  BY DEF RefuseForm, More, active
<1>2. /\ SourceOK(source) /\ TreeOK /\ FramesOK /\ frames # <<>>
      /\ active \in FrameShapes /\ active = frames[Len(frames)]
      /\ frames \in Seq(FrameShapes) /\ Len(frames) \in Nat
      /\ upcoming \in DOMAIN source.nodes
      /\ blamed \subseteq DOMAIN source.nodes \cup {source.whole}
      /\ stage \in Stages \ {"signatures"}
  BY <1>1, FormsFacts
<1>3. TreeOK' /\ Nodes' = Nodes
  BY <1>1, <1>2, TreeKept
<1>4. Passed(active) \in FrameShapes' /\ Passed(active).expr = active.expr
  BY <1>1, <1>2, <1>3, MovesOn
<1>5. FramesOK' /\ frames' # <<>>
  <2> DEFINE f == Passed(active)
  <2>1. f \in FrameShapes' /\ f.expr = active.expr /\ frames' = [frames EXCEPT ![Len(frames)] = f]
    BY <1>1, <1>4
  <2>2. Nodes \subseteq Nodes' /\ blamed \subseteq blamed'
    BY <1>1, <1>3
  <2> HIDE DEF f
  <2> QED
    BY <1>1, <1>2, <2>1, <2>2, ActiveMoves
<1> QED
  BY <1>1, <1>2, <1>3, <1>5, PartsKept

LEMMA OpenKeeps == ASSUME IInv, OpenForm PROVE IInv'
<1> DEFINE f == Frame(upcoming)
<1>1. /\ stage = "forms" /\ More /\ Accepted(upcoming)
      /\ blamed' = blamed \cup (IF Questionable(upcoming) THEN {upcoming} ELSE {})
      /\ frames' = Append(frames, f)
      /\ source' = source /\ stage' = stage /\ program' = program
  BY DEF OpenForm, More
<1>2. /\ SourceOK(source) /\ TreeOK /\ FramesOK /\ frames # <<>>
      /\ frames \in Seq(FrameShapes) /\ Len(frames) \in Nat \ {0}
      /\ upcoming \in DOMAIN source.nodes
      /\ blamed \subseteq DOMAIN source.nodes \cup {source.whole}
      /\ stage \in Stages \ {"signatures"}
  BY <1>1, FormsFacts
<1>3. TreeOK' /\ Nodes' = Nodes
  BY <1>1, <1>2, TreeKept
<1>4. f \in FrameShapes' /\ f.expr = upcoming
  <2> DEFINE none == <<>>
  <2>1. f = [expr |-> upcoming, pos |-> 0, args |-> none, children |-> none]
    BY DEF Frame
  <2>2. none \in Seq(Nodes')
    BY EmptySeq
  <2> HIDE DEF none
  <2> QED
    BY <1>1, <1>2, <2>1, <2>2 DEF FrameShapes
<1> HIDE DEF f
<1>5. frames \in Seq(FrameShapes')
  BY <1>1, <1>2, <1>3, ShapesWider, SeqMonotonic
<1>6. /\ frames' \in Seq(FrameShapes') /\ frames' # <<>>
      /\ Len(frames') = Len(frames) + 1
      /\ \A i \in 1 .. Len(frames) : frames'[i] = frames[i]
      /\ frames'[Len(frames) + 1] = f
  BY <1>1, <1>4, <1>5, AppendProperties
<1>7. ASSUME NEW i \in 1 .. Len(frames') PROVE FrameOK(i)'
  <2>1. CASE i \in 1 .. Len(frames)
    <3>1. frames'[i].expr = frames[i].expr
      BY <1>6, <2>1
    <3> QED
      BY <1>1, <1>2, <1>3, <2>1, <3>1, FramesBelow
  <2>2. CASE i = Len(frames) + 1
    <3>1. i # 1 /\ frames'[i].expr = upcoming
      BY <1>2, <1>4, <1>6, <2>2
    <3>2. blamed' = {} => ~Questionable(upcoming)
      BY <1>1
    <3> QED
      BY <1>1, <1>2, <3>1, <3>2, SameSource DEF FrameOK
  <2> QED
    BY <1>2, <1>6, <2>1, <2>2
<1>8. FramesOK'
  BY <1>6, <1>7 DEF FramesOK
<1>9. blamed' \subseteq DOMAIN source.nodes \cup {source.whole}
  BY <1>1, <1>2
<1> QED
  BY <1>1, <1>2, <1>3, <1>6, <1>8, <1>9, PartsKept

LEMMA CloseKeeps == ASSUME IInv, CloseForm PROVE IInv'
<1> DEFINE e == active.expr
           callers == Front(frames)
           caller == callers[Len(callers)]
           complete == Len(active.args) = ArgCount(e)
           f == IF complete THEN Received(caller, e) ELSE Passed(caller)
<1>1. /\ stage = "forms" /\ Len(frames) > 1
      /\ program' = IF complete THEN WithNode(e, FormNode(active)) ELSE program
      /\ frames' = [callers EXCEPT ![Len(callers)] = f]
      /\ source' = source /\ stage' = stage /\ blamed' = blamed
  BY DEF CloseForm
<1>2. /\ SourceOK(source) /\ TreeOK /\ FramesOK /\ frames # <<>>
      /\ active \in FrameShapes
      /\ frames \in Seq(FrameShapes) /\ Len(frames) \in Nat
      /\ blamed \subseteq DOMAIN source.nodes \cup {source.whole}
      /\ stage \in Stages \ {"signatures"}
  BY <1>1, FormsFacts
<1>3. e \in DOMAIN source.nodes /\ Accepted(e) /\ (blamed = {} => ~Questionable(e))
  <2>1. FrameOK(Len(frames))
    BY <1>1, <1>2 DEF FramesOK
  <2> QED
    BY <1>1, <1>2, <2>1 DEF FrameOK, active
<1>4. TreeOK' /\ Nodes \subseteq Nodes' /\ (complete => e \in Nodes')
  <2>1. CASE complete
    <3>1. active.args \in Seq(Nodes \cup {e}) /\ active.children \in Seq(Nodes \cup {e})
      BY <1>2, SeqMonotonic DEF FrameShapes
    <3>2. Sound(FormNode(active), Nodes \cup {e})
      BY <1>2, <1>3, <2>1, <3>1, FormNodeFacts
    <3>3. TreeOK' /\ Nodes' = Nodes \cup {e}
      BY <1>1, <1>2, <1>3, <2>1, <3>2, TreeAdds
    <3> QED
      BY <3>3
  <2>2. CASE ~complete
    <3>1. program' = program
      BY <1>1, <2>2
    <3> QED
      BY <1>1, <1>2, <2>2, <3>1, TreeKept
  <2> QED
    BY <2>1, <2>2
<1>5. /\ callers \in Seq(FrameShapes) /\ callers # <<>>
      /\ Len(callers) = Len(frames) - 1
      /\ \A i \in 1 .. Len(callers) : callers[i] = frames[i]
  BY <1>1, <1>2, FrontProperties
<1>6. caller \in FrameShapes
  BY <1>2, <1>5, ElementOfSeq, EmptySeq
<1>7. f \in FrameShapes' /\ f.expr = caller.expr
  <2>1. Passed(caller) \in FrameShapes' /\ Passed(caller).expr = caller.expr
    BY <1>1, <1>4, <1>6, MovesOn
  <2>2. complete => /\ Received(caller, e) \in FrameShapes'
                    /\ Received(caller, e).expr = caller.expr
    BY <1>1, <1>4, <1>6, MovesOn
  <2> HIDE DEF complete, caller, e
  <2> QED
    BY <2>1, <2>2
<1> HIDE DEF f
<1>8. FramesOK' /\ frames' # <<>>
  <2>1. Len(callers) <= Len(frames) /\ blamed \subseteq blamed' /\ Nodes \subseteq Nodes'
    BY <1>1, <1>2, <1>4, <1>5
  <2> HIDE DEF callers
  <2> QED
    BY <1>1, <1>2, <1>5, <1>7, <2>1, FramesMove
<1> QED
  BY <1>1, <1>2, <1>4, <1>8, PartsKept

LEMMA FinishKeeps == ASSUME IInv, Finish PROVE IInv'
<1>1. /\ stage = "forms" /\ stage' = "over"
      /\ source' = source /\ frames' = frames /\ blamed' = blamed
  BY DEF Finish
<1>2. /\ SourceOK(source) /\ TreeOK /\ FramesOK /\ frames # <<>>
      /\ active \in FrameShapes /\ Len(frames) \in Nat
      /\ frames \in Seq(FrameShapes)
      /\ blamed \subseteq DOMAIN source.nodes \cup {source.whole}
  BY <1>1, FormsFacts
<1>3. TreeOK' /\ Nodes \subseteq Nodes'
  <2>1. CASE Len(source.exprs) = 1 /\ ~SingleDo
    <3>1. program' = [program EXCEPT !.root = source.exprs[1]]
      BY <2>1 DEF Finish
    <3> QED
      BY <1>1, <1>2, <3>1, TreeRooted
  <2>2. CASE ~(Len(source.exprs) = 1 /\ ~SingleDo)
    <3> DEFINE S == Nodes \cup {source.whole}
               node == [NewNode("Do", "do", 0) EXCEPT !.children = active.children]
    <3>1. program' = WithNode(source.whole, node)
      BY <2>2 DEF Finish
    <3>2. active.children \in Seq(S)
      BY <1>2, SeqMonotonic DEF FrameShapes
    <3>3. Sound(node, S)
      BY <3>2, RootFacts
    <3> HIDE DEF node
    <3>4. TreeOK' /\ Nodes' = Nodes \cup {source.whole}
      BY <1>1, <1>2, <3>1, <3>3, TreeAdds
    <3> QED
      BY <3>4
  <2> QED
    BY <2>1, <2>2
<1>4. ASSUME NEW i \in 1 .. Len(frames) PROVE FrameOK(i)'
  BY <1>1, <1>2, <1>3, FramesBelow
<1>5. frames' \in Seq(FrameShapes')
  BY <1>1, <1>2, <1>3, ShapesWider, SeqMonotonic
<1>6. FramesOK'
  BY <1>1, <1>4, <1>5 DEF FramesOK
<1> QED
  BY <1>1, <1>2, <1>3, <1>6, PartsKept DEF Stages

LEMMA StutterKeeps == ASSUME IInv, UNCHANGED compilerVars PROVE IInv'
<1>1. /\ source' = source /\ stage' = stage /\ frames' = frames
      /\ blamed' = blamed /\ program' = program
  BY DEF compilerVars
<1>2. Nodes' = Nodes /\ Ast' = Ast
  BY <1>1 DEF Nodes, Ast
<1>3. SourceOK(source) /\ TreeOK /\ FramesOK
  BY Parts
<1>4. TreeOK'
  BY <1>1, <1>3, TreeKept
<1>5. FrameShapes' = FrameShapes
  BY <1>1, <1>2 DEF FrameShapes
<1>6. FramesOK'
  BY <1>1, <1>2, <1>3, <1>5, FramesBelow DEF FramesOK
<1>7. SourceOK(source')
  BY <1>1, <1>3
<1> QED
  BY <1>1, <1>2, <1>4, <1>6, <1>7 DEF IInv, TypeOK, TreeOK, FramesOK

LEMMA CompilerStep == IInv /\ [Next \/ Returned]_compilerVars => IInv'
BY CollectKeeps, AtomKeeps, RefuseKeeps, OpenKeeps, CloseKeeps, FinishKeeps, StutterKeeps
   DEF Next, Returned

-----------------------------------------------------------------------------
(***************************************************************************)
(* Nothing is lost.  As long as no error is reported, a frame has received *)
(* a node for each operand it is past, the args first, and is waiting for  *)
(* the form above it; so a form that is closed has all of them.            *)
(***************************************************************************)
(* The frame f has the nodes of the operands ops up to where it is; the    *)
(* first n of them are its args.                                           *)
Gathered(f, ops, n) ==
    /\ f.pos <= Len(ops)
    /\ Len(f.args) = IF f.pos < n THEN f.pos ELSE n
    /\ Len(f.children) = f.pos - Len(f.args)
    /\ \A k \in 1 .. Len(f.args) : ops[k] = f.args[k]
    /\ \A k \in 1 .. Len(f.children) : ops[Len(f.args) + k] = f.children[k]

Awaits(f, ops, e) == f.pos < Len(ops) /\ ops[f.pos + 1] = e

FramesGather ==
    /\ \A i \in 1 .. Len(frames) :
          Gathered(frames[i], Operands(frames[i].expr), ArgCount(frames[i].expr))
    /\ \A i \in 1 .. Len(frames) - 1 :
          Awaits(frames[i], Operands(frames[i].expr), frames[i + 1].expr)

NodesGather == \A n \in Nodes : n = source.whole \/ IsList(n) => Below(n) = Operands(n)

(* The root is the do around all statements; or, once compile() returns,   *)
(* the single one there is.                                                *)
RootPending ==
    \/ program.root = source.whole
    \/ stage = "over" /\ Len(source.exprs) = 1 /\ ~SingleDo /\ program.root = source.exprs[1]

AllThere ==
    blamed = {} => /\ FramesGather /\ NodesGather
                   /\ stage = "over" => Rooted \/ source.faulty

LEMMA GatherOne ==
    ASSUME NEW f \in FrameShapes, NEW ops, NEW e, Len(ops) \in Nat, ArgCount(f.expr) \in Nat,
           Gathered(f, ops, ArgCount(f.expr)), Awaits(f, ops, e)
    PROVE  Gathered(Received(f, e), ops, ArgCount(f.expr))
<1> DEFINE n == ArgCount(f.expr)
<1> HIDE DEF n
<1>1. /\ f = [expr |-> f.expr, pos |-> f.pos, args |-> f.args, children |-> f.children]
      /\ f.pos \in Nat /\ f.args \in Seq(Nodes) /\ f.children \in Seq(Nodes)
  BY DEF FrameShapes
<1>2. /\ Len(f.args) \in Nat /\ Len(f.children) \in Nat
      /\ Len(Append(f.args, e)) = Len(f.args) + 1
      /\ \A i \in 1 .. Len(f.args) : Append(f.args, e)[i] = f.args[i]
      /\ Append(f.args, e)[Len(f.args) + 1] = e
  BY <1>1, AnySeq, LenProperties
<1>3. /\ Len(Append(f.children, e)) = Len(f.children) + 1
      /\ \A i \in 1 .. Len(f.children) : Append(f.children, e)[i] = f.children[i]
      /\ Append(f.children, e)[Len(f.children) + 1] = e
  BY <1>1, AnySeq, LenProperties
<1>4. /\ f.pos < Len(ops) /\ ops[f.pos + 1] = e
      /\ Len(f.args) = IF f.pos < n THEN f.pos ELSE n
      /\ Len(f.children) = f.pos - Len(f.args)
      /\ \A k \in 1 .. Len(f.args) : ops[k] = f.args[k]
      /\ \A k \in 1 .. Len(f.children) : ops[Len(f.args) + k] = f.children[k]
      /\ n \in Nat
  BY DEF Gathered, Awaits, n
<1>5. CASE f.pos < n
  <2> DEFINE a == Append(f.args, e)
             g == [expr |-> f.expr, pos |-> f.pos + 1, args |-> a, children |-> f.children]
  <2>1. Received(f, e) = g
    BY <1>1, <1>5 DEF Received, n
  <2>2. /\ Len(a) = f.pos + 1 /\ Len(f.args) = f.pos /\ Len(f.children) = 0
        /\ \A k \in 1 .. f.pos : a[k] = f.args[k]
        /\ a[f.pos + 1] = e
    BY <1>1, <1>2, <1>4, <1>5
  <2> HIDE DEF a
  <2>3. g.pos = f.pos + 1 /\ g.args = a /\ g.children = f.children
    OBVIOUS
  <2> HIDE DEF g
  <2>4. \A k \in 1 .. Len(g.args) : ops[k] = g.args[k]
    BY <1>1, <1>4, <2>2, <2>3
  <2>5. g.pos <= Len(ops)
    BY <1>1, <1>4, <2>3
  <2>6. Len(g.args) = IF g.pos < n THEN g.pos ELSE n
    BY <1>1, <1>4, <1>5, <2>2, <2>3
  <2>7. Len(g.children) = g.pos - Len(g.args)
    BY <1>1, <2>2, <2>3
  <2>8. \A k \in 1 .. Len(g.children) : ops[Len(g.args) + k] = g.children[k]
    BY <2>2, <2>3
  <2>9. Gathered(g, ops, n)
    BY <2>4, <2>5, <2>6, <2>7, <2>8 DEF Gathered
  <2> QED
    BY <2>1, <2>9 DEF n
<1>6. CASE ~(f.pos < n)
  <2> DEFINE c == Append(f.children, e)
             g == [expr |-> f.expr, pos |-> f.pos + 1, args |-> f.args, children |-> c]
  <2>1. Received(f, e) = g
    BY <1>1, <1>6 DEF Received, n
  <2>2. /\ Len(c) = f.pos + 1 - n /\ Len(f.args) = n /\ Len(f.children) = f.pos - n
        /\ \A k \in 1 .. Len(f.children) : c[k] = f.children[k]
        /\ c[f.pos - n + 1] = e
    BY <1>1, <1>3, <1>4, <1>6
  <2> HIDE DEF c
  <2>3. g.pos = f.pos + 1 /\ g.args = f.args /\ g.children = c
    OBVIOUS
  <2> HIDE DEF g
  <2>4. ASSUME NEW k \in 1 .. Len(c) PROVE ops[Len(f.args) + k] = c[k]
    <3>1. CASE k = f.pos - n + 1
      <4>1. Len(f.args) + k = f.pos + 1
        BY <1>1, <1>4, <2>2, <3>1
      <4> QED
        BY <1>4, <2>2, <3>1, <4>1
    <3>2. CASE k # f.pos - n + 1
      <4>1. k \in 1 .. Len(f.children)
        BY <1>1, <1>4, <1>6, <2>2, <3>2
      <4> QED
        BY <1>4, <2>2, <4>1
    <3> QED
      BY <3>1, <3>2
  <2>5. g.pos <= Len(ops)
    BY <1>1, <1>4, <2>3
  <2>6. Len(g.args) = IF g.pos < n THEN g.pos ELSE n
    BY <1>1, <1>4, <1>6, <2>2, <2>3
  <2>7. Len(g.children) = g.pos - Len(g.args)
    BY <1>1, <1>4, <2>2, <2>3
  <2>8. /\ \A k \in 1 .. Len(g.args) : ops[k] = g.args[k]
        /\ \A k \in 1 .. Len(g.children) : ops[Len(g.args) + k] = g.children[k]
    BY <1>4, <2>3, <2>4
  <2>9. Gathered(g, ops, n)
    BY <2>5, <2>6, <2>7, <2>8 DEF Gathered
  <2> QED
    BY <2>1, <2>9 DEF n
<1> QED
  BY <1>5, <1>6

(* A frame that is past all of its operands has received them all.         *)
LEMMA GatheredAll ==
    ASSUME NEW f \in FrameShapes, NEW T, NEW ops \in Seq(T), NEW n \in 0 .. Len(ops),
           Gathered(f, ops, n), ~(f.pos < Len(ops))
    PROVE  Len(f.args) = n /\ f.args \o f.children = ops
<1>1. f.pos \in Nat /\ f.args \in Seq(Nodes) /\ f.children \in Seq(Nodes)
  BY DEF FrameShapes
<1>2. Len(ops) \in Nat /\ Len(f.args) \in Nat /\ Len(f.children) \in Nat
  BY <1>1, LenProperties
<1>3. f.pos = Len(ops) /\ Len(f.args) = n /\ Len(f.children) = Len(ops) - n
  BY <1>1, <1>2 DEF Gathered
<1> DEFINE both == f.args \o f.children
<1>4. /\ both \in Seq(Nodes)
      /\ Len(both) = Len(ops)
      /\ \A i \in 1 .. Len(ops) :
            both[i] = IF i <= Len(f.args) THEN f.args[i] ELSE f.children[i - Len(f.args)]
  <2>1. /\ both \in Seq(Nodes)
        /\ Len(both) = Len(f.args) + Len(f.children)
        /\ \A i \in 1 .. Len(f.args) + Len(f.children) :
              both[i] = IF i <= Len(f.args) THEN f.args[i] ELSE f.children[i - Len(f.args)]
    BY <1>1, ConcatProperties
  <2>2. Len(f.args) + Len(f.children) = Len(ops)
    BY <1>2, <1>3
  <2> QED
    BY <2>1, <2>2
<1> HIDE DEF both
<1>5. ASSUME NEW i \in 1 .. Len(ops) PROVE both[i] = ops[i]
  <2>1. CASE i <= Len(f.args)
    <3>1. i \in 1 .. Len(f.args)
      BY <1>2, <2>1
    <3> QED
      BY <1>4, <2>1, <3>1 DEF Gathered
  <2>2. CASE ~(i <= Len(f.args))
    <3>1. i - Len(f.args) \in 1 .. Len(f.children) /\ Len(f.args) + (i - Len(f.args)) = i
      BY <1>2, <1>3, <2>2
    <3> QED
      BY <1>4, <2>2, <3>1 DEF Gathered
  <2> QED
    BY <2>1, <2>2
<1>6. ops \in Seq(T \cup Nodes) /\ both \in Seq(T \cup Nodes)
  BY <1>4, WiderSeq
<1>7. both = ops
  BY <1>4, <1>5, <1>6, SeqEqual
<1> QED
  BY <1>3, <1>7 DEF both

LEMMA ArgsFit ==
    ASSUME SourceOK(source), NEW e,
           e = source.whole \/ (e \in DOMAIN source.nodes /\ Accepted(e))
    PROVE  /\ Operands(e) \in Seq(DOMAIN source.nodes)
           /\ Len(Operands(e)) \in Nat
           /\ ArgCount(e) \in 0 .. Len(Operands(e))
<1>1. /\ Operands(e) \in Seq(DOMAIN source.nodes) /\ ArgCount(e) \in Nat
      /\ e # source.whole =>
            Len(Operands(e)) = IF Op(e) \in {"define", "set!"} THEN Argc(e) - 1 ELSE Argc(e)
  BY OperandsFacts
<1>2. Len(Operands(e)) \in Nat
  BY <1>1, LenProperties
<1>3. CASE e = source.whole
  BY <1>1, <1>2, <1>3 DEF ArgCount
<1>4. CASE e # source.whole
  <2>1. Argc(e) \in Nat /\ (Op(e) \in {"repeat", "when", "while"} => Argc(e) >= 1)
    BY <1>4, AcceptedFacts
  <2>2. ArgCount(e) = IF Op(e) = "do" \/ DefinesFunction(e) THEN 0
                      ELSE IF Op(e) \in {"repeat", "when", "while"} THEN 1 ELSE Len(Operands(e))
    BY <1>4 DEF ArgCount
  <2>3. Op(e) \in {"repeat", "when", "while"} => Op(e) \notin {"define", "set!"}
    OBVIOUS
  <2> DEFINE o == Op(e)
  <2> HIDE DEF o
  <2> QED
    BY <1>1, <1>2, <1>4, <2>1, <2>2, <2>3
<1> QED
  BY <1>1, <1>2, <1>3, <1>4

LEMMA FramesFit ==
    ASSUME SourceOK(source), FramesOK, NEW i \in 1 .. Len(frames)
    PROVE  /\ frames[i] \in FrameShapes
           /\ Operands(frames[i].expr) \in Seq(DOMAIN source.nodes)
           /\ Len(Operands(frames[i].expr)) \in Nat
           /\ ArgCount(frames[i].expr) \in 0 .. Len(Operands(frames[i].expr))
<1>1. frames[i] \in FrameShapes /\ FrameOK(i)
  BY ElementOfSeq DEF FramesOK
<1>2. \/ frames[i].expr = source.whole
      \/ frames[i].expr \in DOMAIN source.nodes /\ Accepted(frames[i].expr)
  BY <1>1 DEF FrameOK
<1> QED
  BY <1>1, <1>2, ArgsFit

LEMMA Shorter ==
    ASSUME NEW m \in Nat, NEW n \in Nat, m <= n
    PROVE  /\ \A i \in 1 .. m : i \in 1 .. n
           /\ \A i \in 1 .. m - 1 :
                 i \in 1 .. m /\ i + 1 \in 1 .. m /\ i # m /\ i \in 1 .. n - 1
OBVIOUS

(* The innermost form, or the one around it, moves on.                     *)
LEMMA GatherMoves ==
    ASSUME FramesOK, FramesGather, source' = source,
           NEW s \in Seq(FrameShapes), s # <<>>, Len(s) <= Len(frames),
           \A i \in 1 .. Len(s) : s[i] = frames[i],
           NEW f, f.expr = s[Len(s)].expr,
           Gathered(f, Operands(f.expr), ArgCount(f.expr)),
           frames' = [s EXCEPT ![Len(s)] = f]
    PROVE  FramesGather'
<1>1. Len(s) \in Nat \ {0} /\ Len(frames) \in Nat /\ DOMAIN s = 1 .. Len(s)
  BY EmptySeq, LenProperties DEF FramesOK
<1>2. s \in Seq(FrameShapes \cup {f})
  BY WiderSeq
<1>3. /\ Len(frames') = Len(s)
      /\ \A j \in 1 .. Len(s) : frames'[j] = IF j = Len(s) THEN f ELSE s[j]
  <2>1. f \in FrameShapes \cup {f} /\ Len(s) \in 1 .. Len(s)
    BY <1>1
  <2> QED
    BY <1>2, <2>1, ExceptSeq
<1>4. \A e : Operands(e)' = Operands(e) /\ ArgCount(e)' = ArgCount(e)
  BY SameSource
<1>5. ASSUME NEW i \in 1 .. Len(s) PROVE i \in 1 .. Len(frames) /\ frames'[i].expr = frames[i].expr
  <2>1. i \in 1 .. Len(frames)
    BY <1>1, Shorter
  <2>2. frames'[i] = IF i = Len(s) THEN f ELSE frames[i]
    BY <1>3
  <2>3. i = Len(s) => f.expr = frames[i].expr
    BY <1>1
  <2> QED
    BY <2>1, <2>2, <2>3
<1>6. ASSUME NEW i \in 1 .. Len(frames')
      PROVE  Gathered(frames'[i], Operands(frames'[i].expr), ArgCount(frames'[i].expr))
  BY <1>1, <1>3, <1>5 DEF FramesGather
<1>7. ASSUME NEW i \in 1 .. Len(frames') - 1
      PROVE  Awaits(frames'[i], Operands(frames'[i].expr), frames'[i + 1].expr)
  <2>1. i \in 1 .. Len(s) /\ i + 1 \in 1 .. Len(s) /\ i # Len(s) /\ i \in 1 .. Len(frames) - 1
    BY <1>1, <1>3, Shorter
  <2>2. frames'[i] = frames[i] /\ frames'[i + 1].expr = frames[i + 1].expr
    BY <1>3, <1>5, <2>1
  <2> QED
    BY <2>1, <2>2 DEF FramesGather
<1> QED
  BY <1>4, <1>6, <1>7 DEF FramesGather

LEMMA GatherNode ==
    ASSUME NodesGather, source' = source, NEW e, NEW node, Nodes' = Nodes \cup {e},
           \A n \in Nodes' : Ast'[n] = IF n = e THEN node ELSE Ast[n],
           e = source.whole \/ IsList(e) => node.args \o node.children = Operands(e)
    PROVE  NodesGather'
<1>1. \A n : (Operands(n)' = Operands(n)) /\ (IsList(n)' <=> IsList(n))
  BY SameSource DEF IsList
<1>2. ASSUME NEW n \in Nodes', n = source.whole \/ IsList(n)
      PROVE  Ast'[n].args \o Ast'[n].children = Operands(n)
  BY <1>2 DEF NodesGather, Below
<1> QED
  BY <1>1, <1>2 DEF NodesGather, Below

LEMMA GatherTree ==
    ASSUME NodesGather, source' = source, Nodes' = Nodes, Ast' = Ast
    PROVE  NodesGather'
<1>1. \A n : (Operands(n)' = Operands(n)) /\ (IsList(n)' <=> IsList(n))
  BY SameSource DEF IsList
<1> QED
  BY <1>1 DEF NodesGather, Below

LEMMA GatherFrames ==
    ASSUME FramesGather, source' = source, frames' = frames
    PROVE  FramesGather'
<1>1. \A e : Operands(e)' = Operands(e) /\ ArgCount(e)' = ArgCount(e)
  BY SameSource
<1> QED
  BY <1>1 DEF FramesGather

(* The active frame, while no error is reported.                           *)
LEMMA ActiveGathers ==
    ASSUME IInv, AllThere, stage = "forms", blamed = {}
    PROVE  /\ Gathered(active, Operands(active.expr), ArgCount(active.expr))
           /\ Operands(active.expr) \in Seq(DOMAIN source.nodes)
           /\ Len(Operands(active.expr)) \in Nat
           /\ ArgCount(active.expr) \in 0 .. Len(Operands(active.expr))
           /\ More => Awaits(active, Operands(active.expr), upcoming)
           /\ ~More => ~(active.pos < Len(Operands(active.expr)))
<1>1. SourceOK(source) /\ FramesOK /\ Len(frames) \in 1 .. Len(frames) /\ active = frames[Len(frames)]
  BY FormsFacts
<1>2. FramesGather
  BY DEF AllThere
<1> QED
  BY <1>1, <1>2, FramesFit DEF FramesGather, Awaits, More, upcoming

LEMMA RootKept ==
    ASSUME TreeOK, NEW e, NEW node, program' = WithNode(e, node)
    PROVE  program'.root = program.root
BY DEF WithNode, TreeOK

LEMMA RootStep == IInv /\ RootPending /\ [Next \/ Returned]_compilerVars => RootPending'
<1> SUFFICES ASSUME IInv, RootPending, [Next \/ Returned]_compilerVars PROVE RootPending'
  OBVIOUS
<1>1. TreeOK
  BY Parts
<1> DEFINE Same == /\ program'.root = program.root /\ source' = source
                   /\ stage = "over" => stage' = "over"
<1>2. ASSUME Same PROVE RootPending'
  BY <1>2 DEF RootPending, SingleDo, IsForm, Op, Symbol, List, IsList, IsSymbol
<1> HIDE DEF Same
<1>3. CASE UNCHANGED compilerVars \/ CollectSignatures \/ RefuseForm \/ OpenForm
  BY <1>2, <1>3 DEF Same, compilerVars, CollectSignatures, RefuseForm, OpenForm, More
<1>4. CASE CompileAtom
  <2>1. program' = WithNode(upcoming, Atom(upcoming)) /\ stage' = stage /\ source' = source
    BY <1>4 DEF CompileAtom
  <2> QED
    BY <1>1, <1>2, <2>1, RootKept DEF Same
<1>5. CASE CloseForm
  <2>1. /\ program' = WithNode(active.expr, FormNode(active)) \/ program' = program
        /\ stage' = stage /\ source' = source
    BY <1>5 DEF CloseForm
  <2> QED
    BY <1>1, <1>2, <2>1, RootKept DEF Same
<1>6. CASE Finish
  <2>1. stage = "forms" /\ stage' = "over" /\ source' = source /\ program.root = source.whole
    BY <1>6 DEF Finish, RootPending
  <2>2. CASE Len(source.exprs) = 1 /\ ~SingleDo
    <3>1. program' = [program EXCEPT !.root = source.exprs[1]]
      BY <1>6, <2>2 DEF Finish
    <3>2. program'.root = source.exprs[1]
      BY <1>1, <3>1 DEF TreeOK
    <3> QED
      BY <2>1, <2>2, <3>2 DEF RootPending, SingleDo, IsForm, Op, Symbol, List, IsList, IsSymbol
  <2>3. CASE ~(Len(source.exprs) = 1 /\ ~SingleDo)
    <3> DEFINE node == [NewNode("Do", "do", 0) EXCEPT !.children = active.children]
    <3>1. program' = WithNode(source.whole, node)
      BY <1>6, <2>3 DEF Finish
    <3> HIDE DEF node
    <3> QED
      BY <1>1, <2>1, <3>1, RootKept DEF RootPending
  <2> QED
    BY <2>2, <2>3
<1>7. CASE Returned
  BY <1>2, <1>7 DEF Same, Returned, compilerVars
<1> QED
  BY <1>3, <1>4, <1>5, <1>6, <1>7 DEF Next

LEMMA FreshAllThere == Fresh => AllThere
<1> SUFFICES ASSUME Fresh PROVE AllThere
  OBVIOUS
<1>1. Nodes = {} /\ stage = "signatures" /\ frames = <<>>
  BY DEF Fresh, Nodes
<1>2. Len(frames) = 0
  BY <1>1
<1> QED
  BY <1>1, <1>2 DEF AllThere, FramesGather, NodesGather

LEMMA InitAllThere == Init => AllThere
BY FreshAllThere, CompilerAssumption DEF Init, Fresh

LEMMA CollectAllThere == ASSUME IInv, AllThere, CollectSignatures PROVE AllThere'
<1>1. /\ SourceOK(source) /\ Nodes = {} /\ frames = <<>> /\ stage = "signatures"
      /\ source' = source /\ program' = program
  BY Parts DEF CollectSignatures
<1>2. NodesGather'
  BY <1>1 DEF NodesGather, Nodes
<1>3. CASE source.exprs = <<>>
  <2>1. frames' = frames /\ (blamed' = {} => source.faulty)
    BY <1>3 DEF CollectSignatures
  <2>2. Len(frames') = 0
    BY <1>1, <2>1
  <2> QED
    BY <1>1, <1>2, <2>1, <2>2 DEF AllThere, FramesGather
<1>4. CASE source.exprs # <<>>
  <2> DEFINE f == Frame(source.whole)
             none == <<>>
  <2>1. stage' = "forms" /\ frames' = <<f>>
    BY <1>4 DEF CollectSignatures
  <2>2. f = [expr |-> source.whole, pos |-> 0, args |-> none, children |-> none]
    BY DEF Frame
  <2>3. Len(none) = 0
    OBVIOUS
  <2> HIDE DEF none
  <2>4. f.expr = source.whole /\ f.pos = 0 /\ f.args = none /\ f.children = none
    BY <2>2
  <2> HIDE DEF f
  <2>5. Len(frames') = 1 /\ frames'[1] = f
    BY <2>1
  <2>6. /\ Len(Operands(source.whole)) \in Nat
        /\ ArgCount(source.whole) \in 0 .. Len(Operands(source.whole))
    BY <1>1, ArgsFit
  <2>7. Gathered(f, Operands(source.whole), ArgCount(source.whole))
    BY <2>3, <2>4, <2>6 DEF Gathered
  <2>8. \A e : Operands(e)' = Operands(e) /\ ArgCount(e)' = ArgCount(e)
    BY <1>1, SameSource
  <2>9. FramesGather'
    BY <2>4, <2>5, <2>7, <2>8 DEF FramesGather
  <2> QED
    BY <1>2, <2>1, <2>9 DEF AllThere
<1> QED
  BY <1>3, <1>4

LEMMA AtomAllThere == ASSUME IInv, AllThere, CompileAtom PROVE AllThere'
<1>1. /\ stage = "forms" /\ More /\ ~IsList(upcoming)
      /\ program' = WithNode(upcoming, Atom(upcoming))
      /\ frames' = [frames EXCEPT ![Len(frames)] = Received(active, upcoming)]
      /\ source' = source /\ stage' = stage /\ blamed' = blamed
  BY DEF CompileAtom, More, active
<1>2. /\ SourceOK(source) /\ TreeOK /\ FramesOK /\ frames # <<>>
      /\ active \in FrameShapes /\ active = frames[Len(frames)]
      /\ frames \in Seq(FrameShapes) /\ Len(frames) \in Nat
      /\ upcoming \in DOMAIN source.nodes
  BY <1>1, FormsFacts
<1> SUFFICES ASSUME blamed = {} PROVE FramesGather' /\ NodesGather'
  BY <1>1 DEF AllThere
<1>3. FramesGather /\ NodesGather
  BY DEF AllThere
<1>4. Sound(Atom(upcoming), Nodes \cup {upcoming}) /\ upcoming # source.whole
  BY <1>1, <1>2, AtomFacts, RawFacts
<1>5. /\ Nodes' = Nodes \cup {upcoming}
      /\ \A n \in Nodes' : Ast'[n] = IF n = upcoming THEN Atom(upcoming) ELSE Ast[n]
  BY <1>1, <1>2, <1>4, TreeAdds
<1>6. NodesGather'
  BY <1>1, <1>3, <1>4, <1>5, GatherNode
<1> DEFINE f == Received(active, upcoming)
<1>7. Gathered(f, Operands(active.expr), ArgCount(active.expr))
  <2>1. ArgCount(active.expr) \in Nat
    BY <1>1, ActiveGathers
  <2> QED
    BY <1>1, <1>2, <2>1, ActiveGathers, GatherOne
<1>8. f.expr = active.expr
  BY <1>1, <1>2, <1>5, MovesOn
<1>9. frames' = [frames EXCEPT ![Len(frames)] = f] /\ f.expr = frames[Len(frames)].expr
  BY <1>1, <1>2, <1>8
<1>10. Gathered(f, Operands(f.expr), ArgCount(f.expr))
  BY <1>7, <1>8
<1> HIDE DEF f
<1>11. Len(frames) <= Len(frames) /\ \A i \in 1 .. Len(frames) : frames[i] = frames[i]
  BY <1>2
<1>12. FramesGather'
  BY <1>1, <1>2, <1>3, <1>9, <1>10, <1>11, GatherMoves
<1> QED
  BY <1>6, <1>12

LEMMA RefuseAllThere == ASSUME IInv, AllThere, RefuseForm PROVE AllThere'
BY DEF RefuseForm, AllThere

LEMMA OpenAllThere == ASSUME IInv, AllThere, OpenForm PROVE AllThere'
<1> DEFINE f == Frame(upcoming)
           none == <<>>
<1>1. /\ stage = "forms" /\ More /\ Accepted(upcoming)
      /\ blamed \subseteq blamed'
      /\ frames' = Append(frames, f)
      /\ source' = source /\ stage' = stage /\ program' = program
  BY DEF OpenForm, More
<1>2. /\ SourceOK(source) /\ FramesOK /\ frames # <<>> /\ active = frames[Len(frames)]
      /\ frames \in Seq(FrameShapes) /\ Len(frames) \in Nat \ {0}
      /\ upcoming \in DOMAIN source.nodes
  BY <1>1, FormsFacts
<1> SUFFICES ASSUME blamed = {} PROVE FramesGather' /\ NodesGather'
  BY <1>1 DEF AllThere
<1>3. FramesGather /\ NodesGather
  BY DEF AllThere
<1>4. NodesGather'
  BY <1>1, <1>3, GatherTree DEF Nodes, Ast
<1>5. f = [expr |-> upcoming, pos |-> 0, args |-> none, children |-> none]
  BY DEF Frame
<1>6. Len(none) = 0
  OBVIOUS
<1> HIDE DEF none
<1>7. f.expr = upcoming /\ f.pos = 0 /\ f.args = none /\ f.children = none
  BY <1>5
<1> HIDE DEF f
<1>8. /\ Len(Operands(upcoming)) \in Nat
      /\ ArgCount(upcoming) \in 0 .. Len(Operands(upcoming))
  BY <1>1, <1>2, ArgsFit
<1>9. Gathered(f, Operands(f.expr), ArgCount(f.expr))
  BY <1>6, <1>7, <1>8 DEF Gathered
<1>10. /\ Len(frames') = Len(frames) + 1
       /\ \A i \in 1 .. Len(frames) : frames'[i] = frames[i]
       /\ frames'[Len(frames) + 1] = f
  BY <1>1, <1>2, AnySeq, AppendProperties
<1>11. ASSUME NEW i \in 1 .. Len(frames')
       PROVE  Gathered(frames'[i], Operands(frames'[i].expr), ArgCount(frames'[i].expr))
  <2>1. CASE i = Len(frames) + 1
    BY <1>9, <1>10, <2>1
  <2>2. CASE i # Len(frames) + 1
    <3>1. i \in 1 .. Len(frames)
      BY <1>2, <1>10, <2>2
    <3> QED
      BY <1>3, <1>10, <3>1 DEF FramesGather
  <2> QED
    BY <2>1, <2>2
<1>12. ASSUME NEW i \in 1 .. Len(frames') - 1
       PROVE  Awaits(frames'[i], Operands(frames'[i].expr), frames'[i + 1].expr)
  <2>1. CASE i = Len(frames)
    <3>1. Awaits(active, Operands(active.expr), upcoming)
      BY <1>1, ActiveGathers
    <3> QED
      BY <1>2, <1>7, <1>10, <2>1, <3>1
  <2>2. CASE i # Len(frames)
    <3>1. i \in 1 .. Len(frames) /\ i + 1 \in 1 .. Len(frames) /\ i \in 1 .. Len(frames) - 1
      BY <1>2, <1>10, <2>2
    <3> QED
      BY <1>3, <1>10, <3>1 DEF FramesGather
  <2> QED
    BY <2>1, <2>2
<1>13. \A e : Operands(e)' = Operands(e) /\ ArgCount(e)' = ArgCount(e)
  BY <1>1, SameSource
<1>14. FramesGather'
  BY <1>11, <1>12, <1>13 DEF FramesGather
<1> QED
  BY <1>4, <1>14

LEMMA CloseAllThere == ASSUME IInv, AllThere, CloseForm PROVE AllThere'
<1> DEFINE e == active.expr
           callers == Front(frames)
           caller == callers[Len(callers)]
           f == Received(caller, e)
<1>1. /\ stage = "forms" /\ ~More /\ Len(frames) > 1
      /\ Len(active.args) = ArgCount(e) =>
            /\ program' = WithNode(e, FormNode(active))
            /\ frames' = [callers EXCEPT ![Len(callers)] = f]
      /\ source' = source /\ stage' = stage /\ blamed' = blamed
  BY DEF CloseForm
<1>2. /\ SourceOK(source) /\ TreeOK /\ FramesOK /\ frames # <<>>
      /\ active \in FrameShapes /\ active = frames[Len(frames)]
      /\ frames \in Seq(FrameShapes) /\ Len(frames) \in Nat
  BY <1>1, FormsFacts
<1> SUFFICES ASSUME blamed = {} PROVE FramesGather' /\ NodesGather'
  BY <1>1 DEF AllThere
<1>3. FramesGather /\ NodesGather
  BY DEF AllThere
<1>4. e \in DOMAIN source.nodes /\ Accepted(e) /\ ~Questionable(e)
  <2>1. FrameOK(Len(frames))
    BY <1>1, <1>2 DEF FramesOK
  <2> QED
    BY <1>1, <1>2, <2>1 DEF FrameOK
<1>5. Len(active.args) = ArgCount(e) /\ active.args \o active.children = Operands(e)
  <2>1. /\ Gathered(active, Operands(e), ArgCount(e)) /\ ~(active.pos < Len(Operands(e)))
        /\ Operands(e) \in Seq(DOMAIN source.nodes) /\ ArgCount(e) \in 0 .. Len(Operands(e))
    BY <1>1, ActiveGathers
  <2> QED
    BY <1>2, <2>1, GatheredAll
<1>6. FormNode(active).args = active.args /\ FormNode(active).children = active.children
  BY DEF FormNode
<1>7. /\ Nodes' = Nodes \cup {e}
      /\ \A n \in Nodes' : Ast'[n] = IF n = e THEN FormNode(active) ELSE Ast[n]
  <2>1. active.args \in Seq(Nodes \cup {e}) /\ active.children \in Seq(Nodes \cup {e})
    BY <1>2, SeqMonotonic DEF FrameShapes
  <2>2. Sound(FormNode(active), Nodes \cup {e})
    BY <1>2, <1>4, <1>5, <2>1, FormNodeFacts
  <2> QED
    BY <1>1, <1>2, <1>4, <1>5, <2>2, TreeAdds
<1>8. NodesGather'
  <2> DEFINE node == FormNode(active)
  <2>1. node.args \o node.children = Operands(e)
    BY <1>5, <1>6
  <2> HIDE DEF node, e
  <2>2. /\ Nodes' = Nodes \cup {e}
        /\ \A n \in Nodes' : Ast'[n] = IF n = e THEN node ELSE Ast[n]
    BY <1>7 DEF node
  <2> QED
    BY <1>1, <1>3, <2>1, <2>2, GatherNode
<1>9. /\ callers \in Seq(FrameShapes) /\ callers # <<>>
      /\ Len(callers) = Len(frames) - 1
      /\ \A i \in 1 .. Len(callers) : callers[i] = frames[i]
  BY <1>1, <1>2, FrontProperties
<1>10. /\ Len(callers) \in 1 .. Len(callers) /\ Len(callers) \in 1 .. Len(frames)
       /\ Len(callers) \in 1 .. Len(frames) - 1 /\ Len(callers) + 1 = Len(frames)
       /\ Len(callers) <= Len(frames)
  BY <1>1, <1>2, <1>9
<1>11. caller = frames[Len(callers)] /\ caller \in FrameShapes
  BY <1>9, <1>10, ElementOfSeq
<1>12. Gathered(f, Operands(caller.expr), ArgCount(caller.expr))
  <2>1. /\ Gathered(caller, Operands(caller.expr), ArgCount(caller.expr))
        /\ Awaits(caller, Operands(caller.expr), e)
    BY <1>2, <1>3, <1>10, <1>11 DEF FramesGather
  <2>2. /\ Len(Operands(caller.expr)) \in Nat
        /\ ArgCount(caller.expr) \in 0 .. Len(Operands(caller.expr))
    BY <1>2, <1>10, <1>11, FramesFit
  <2>3. ArgCount(caller.expr) \in Nat
    BY <2>2
  <2> QED
    BY <1>11, <2>1, <2>2, <2>3, GatherOne
<1>13. f.expr = caller.expr
  BY <1>1, <1>7, <1>11, MovesOn
<1>14. /\ frames' = [callers EXCEPT ![Len(callers)] = f]
       /\ Gathered(f, Operands(f.expr), ArgCount(f.expr))
  BY <1>1, <1>5, <1>12, <1>13
<1> HIDE DEF f, callers
<1>15. FramesGather'
  BY <1>1, <1>2, <1>3, <1>9, <1>10, <1>13, <1>14, GatherMoves
<1> QED
  BY <1>8, <1>15

LEMMA FinishAllThere == ASSUME IInv, AllThere, RootPending, Finish PROVE AllThere'
<1>1. /\ stage = "forms" /\ ~More /\ Len(frames) = 1
      /\ source' = source /\ frames' = frames /\ blamed' = blamed
  BY DEF Finish
<1>2. /\ SourceOK(source) /\ TreeOK /\ FramesOK
      /\ active \in FrameShapes /\ active = frames[1]
  BY <1>1, FormsFacts
<1> SUFFICES ASSUME blamed = {} PROVE FramesGather' /\ NodesGather' /\ Rooted'
  BY <1>1 DEF AllThere
<1>3. FramesGather /\ NodesGather /\ FramesGather'
  BY <1>1, GatherFrames DEF AllThere
<1>4. active.expr = source.whole
  BY <1>1, <1>2 DEF FramesOK, FrameOK
<1>5. ArgCount(source.whole) = 0 /\ Operands(source.whole) = Tops
  BY DEF ArgCount, Operands
<1>6. /\ active.args \in Seq(Nodes) /\ active.children \in Seq(Nodes)
      /\ Len(active.args) = 0 /\ active.args \o active.children = Tops
  <2>1. /\ Gathered(active, Operands(active.expr), ArgCount(active.expr))
        /\ ~(active.pos < Len(Operands(active.expr)))
        /\ Operands(active.expr) \in Seq(DOMAIN source.nodes)
        /\ ArgCount(active.expr) \in 0 .. Len(Operands(active.expr))
    BY <1>1, ActiveGathers
  <2> QED
    BY <1>2, <1>4, <1>5, <2>1, GatheredAll DEF FrameShapes
<1>7. active.children = Tops
  <2>1. active.args = <<>>
    BY <1>6, EmptySeq
  <2> QED
    BY <1>6, <2>1, ConcatEmptySeq
<1>8. CASE Len(source.exprs) = 1 /\ ~SingleDo
  <2>1. program' = [program EXCEPT !.root = source.exprs[1]]
    BY <1>8 DEF Finish
  <2>2. program' = [root |-> source.exprs[1], ast |-> program.ast]
    BY <1>2, <2>1 DEF TreeOK
  <2>3. program'.root = source.exprs[1] /\ Nodes' = Nodes /\ Ast' = Ast
    BY <2>2 DEF Nodes, Ast
  <2>4. source.exprs[1] \in Nodes
    <3>1. active.children = source.exprs
      BY <1>7, <1>8 DEF Tops
    <3> QED
      BY <1>6, <1>8, <3>1, ElementOfSeq
  <2> QED
    BY <1>1, <1>3, <2>3, <2>4, GatherTree DEF Rooted, Nodes
<1>9. CASE ~(Len(source.exprs) = 1 /\ ~SingleDo)
  <2> DEFINE none == <<>>
             S == Nodes \cup {source.whole}
             node == [NewNode("Do", "do", 0) EXCEPT !.children = active.children]
  <2>1. program' = WithNode(source.whole, node)
    BY <1>9 DEF Finish
  <2>2. active.children \in Seq(S)
    BY <1>6, SeqMonotonic
  <2>3. Sound(node, S)
    BY <2>2, RootFacts
  <2>4. node.args = none /\ node.children = active.children
    <3>1. NewNode("Do", "do", 0) = [kind |-> "Do", op |-> "do", args |-> none, children |-> none,
                                    params |-> none, num |-> 0]
      BY DEF NewNode
    <3> HIDE DEF none
    <3> QED
      BY <3>1
  <2>5. none \o active.children = active.children
    BY <1>6, ConcatEmptySeq
  <2> HIDE DEF none, node
  <2>6. node.args \o node.children = Operands(source.whole)
    BY <1>5, <1>7, <2>4, <2>5
  <2>7. /\ Nodes' = Nodes \cup {source.whole}
        /\ \A n \in Nodes' : Ast'[n] = IF n = source.whole THEN node ELSE Ast[n]
    BY <1>1, <1>2, <2>1, <2>3, TreeAdds
  <2>8. NodesGather'
    BY <1>1, <1>3, <2>6, <2>7, GatherNode
  <2>9. Rooted'
    <3>1. program'.root = source.whole
      BY <1>1, <1>2, <2>1, RootKept DEF RootPending
    <3>2. source.whole \in Nodes'
      BY <2>7
    <3> QED
      BY <3>1, <3>2 DEF Rooted, Nodes
  <2> QED
    BY <1>3, <2>8, <2>9
<1> QED
  BY <1>8, <1>9

LEMMA StutterAllThere == ASSUME AllThere, UNCHANGED compilerVars PROVE AllThere'
<1>1. /\ source' = source /\ stage' = stage /\ frames' = frames
      /\ blamed' = blamed /\ program' = program
  BY DEF compilerVars
<1>2. Nodes' = Nodes /\ Ast' = Ast /\ (Rooted' <=> Rooted)
  BY <1>1 DEF Nodes, Ast, Rooted
<1> QED
  BY <1>1, <1>2, GatherFrames, GatherTree DEF AllThere

LEMMA AllThereStep == IInv /\ AllThere /\ RootPending /\ [Next \/ Returned]_compilerVars => AllThere'
BY CollectAllThere, AtomAllThere, RefuseAllThere, OpenAllThere, CloseAllThere, FinishAllThere,
   StutterAllThere DEF Next, Returned

-----------------------------------------------------------------------------
(***************************************************************************)
(* No node is left over.  As long as no error is reported, every node is   *)
(* an operand of another one or of a form being compiled; in the end the   *)
(* root is the only one that is not.                                       *)
(***************************************************************************)
OperandOf(n, p) == (p = source.whole \/ IsList(p)) /\ \E k \in 1 .. Len(Operands(p)) : Operands(p)[k] = n

Waiting(n) ==
    \E i \in 1 .. Len(frames) : \E k \in 1 .. frames[i].pos : Operands(frames[i].expr)[k] = n

Adopted ==
    blamed = {} => \A n \in Nodes :
        \/ \E p \in Nodes : OperandOf(n, p)
        \/ IF stage = "over" THEN n = program.root ELSE Waiting(n)

(* A source without expressions has no tree, one with a single statement   *)
(* has that for a root.                                                    *)
Settled ==
    /\ source.exprs = <<>> => stage # "forms" /\ Nodes = {}
    /\ stage = "over" /\ Len(source.exprs) = 1 /\ ~SingleDo => program.root = source.exprs[1]

LEMMA FreshAdopted == Fresh => Adopted /\ Settled
BY DEF Fresh, Adopted, Settled, Nodes

LEMMA SameOperands ==
    ASSUME source' = source
    PROVE  /\ \A n, p : OperandOf(n, p)' <=> OperandOf(n, p)
           /\ SingleDo' <=> SingleDo
<1>1. \A e : Operands(e)' = Operands(e) /\ (IsList(e)' <=> IsList(e))
  BY SameSource DEF IsList
<1>2. SingleDo' <=> SingleDo
  BY DEF SingleDo, IsForm, Op, Symbol, List, IsList, IsSymbol
<1> QED
  BY <1>1, <1>2 DEF OperandOf

(* The innermost form, or the one around it, has taken e.                  *)
LEMMA WaitingMoves ==
    ASSUME FramesOK, source' = source,
           NEW s \in Seq(FrameShapes), s # <<>>, Len(s) <= Len(frames),
           \A i \in 1 .. Len(s) : s[i] = frames[i],
           NEW f, f.expr = s[Len(s)].expr, f.pos = s[Len(s)].pos + 1,
           NEW e, Operands(f.expr)[f.pos] = e,
           frames' = [s EXCEPT ![Len(s)] = f]
    PROVE  /\ Waiting(e)'
           /\ \A n : Waiting(n) => \/ Waiting(n)'
                                   \/ \E i \in Len(s) + 1 .. Len(frames) : \E k \in 1 .. frames[i].pos :
                                         Operands(frames[i].expr)[k] = n
<1>1. Len(s) \in Nat \ {0} /\ Len(frames) \in Nat
  BY EmptySeq, LenProperties DEF FramesOK
<1>2. s \in Seq(FrameShapes \cup {f}) /\ \A i \in 1 .. Len(s) : s[i] \in FrameShapes
  BY WiderSeq, ElementOfSeq
<1>3. /\ Len(frames') = Len(s)
      /\ \A j \in 1 .. Len(s) : frames'[j] = IF j = Len(s) THEN f ELSE s[j]
  <2>1. f \in FrameShapes \cup {f} /\ Len(s) \in 1 .. Len(s)
    BY <1>1
  <2> QED
    BY <1>2, <2>1, ExceptSeq
<1>4. \A x : Operands(x)' = Operands(x)
  BY SameSource
<1>5. \A i \in 1 .. Len(s) : s[i].pos \in Nat
  BY <1>2 DEF FrameShapes
<1>6. Waiting(e)'
  <2>1. Len(s) \in 1 .. Len(frames') /\ frames'[Len(s)] = f /\ f.pos \in 1 .. f.pos
    BY <1>1, <1>3, <1>5
  <2> QED
    BY <1>4, <2>1 DEF Waiting
<1>7. ASSUME NEW n, NEW i \in 1 .. Len(s), NEW k \in 1 .. frames[i].pos, Operands(frames[i].expr)[k] = n
      PROVE  Waiting(n)'
  <2>1. i \in 1 .. Len(frames') /\ s[i] = frames[i] /\ frames'[i] = IF i = Len(s) THEN f ELSE s[i]
    BY <1>3
  <2>2. frames'[i].expr = frames[i].expr
    BY <2>1
  <2>3. frames'[i].pos = frames[i].pos \/ frames'[i].pos = frames[i].pos + 1
    BY <2>1
  <2>4. frames[i].pos \in Nat
    BY <1>5, <2>1
  <2>5. k \in 1 .. frames'[i].pos
    BY <2>3, <2>4
  <2> QED
    BY <1>4, <1>7, <2>1, <2>2, <2>5 DEF Waiting
<1>8. \A i \in 1 .. Len(frames) : i \in 1 .. Len(s) \/ i \in Len(s) + 1 .. Len(frames)
  BY <1>1
<1>9. ASSUME NEW n, Waiting(n), ~Waiting(n)'
      PROVE  \E i \in Len(s) + 1 .. Len(frames) : \E k \in 1 .. frames[i].pos :
                 Operands(frames[i].expr)[k] = n
  <2>1. PICK i \in 1 .. Len(frames) : \E k \in 1 .. frames[i].pos : Operands(frames[i].expr)[k] = n
    BY <1>9 DEF Waiting
  <2>2. i \notin 1 .. Len(s)
    BY <1>7, <1>9, <2>1
  <2> QED
    BY <1>8, <2>1, <2>2
<1> QED
  BY <1>6, <1>9

LEMMA AtomAdopted == ASSUME IInv, Adopted, AllThere, CompileAtom PROVE Adopted'
<1> DEFINE f == Received(active, upcoming)
<1>1. /\ stage = "forms" /\ More /\ ~IsList(upcoming)
      /\ program' = WithNode(upcoming, Atom(upcoming))
      /\ frames' = [frames EXCEPT ![Len(frames)] = f]
      /\ source' = source /\ stage' = stage /\ blamed' = blamed
  BY DEF CompileAtom, More, active
<1>2. /\ SourceOK(source) /\ TreeOK /\ FramesOK /\ frames # <<>>
      /\ active \in FrameShapes /\ active = frames[Len(frames)]
      /\ frames \in Seq(FrameShapes) /\ Len(frames) \in Nat
      /\ upcoming \in DOMAIN source.nodes
  BY <1>1, FormsFacts
<1>3. Nodes' = Nodes \cup {upcoming}
  <2>1. Sound(Atom(upcoming), Nodes \cup {upcoming})
    BY <1>1, <1>2, AtomFacts
  <2> QED
    BY <1>1, <1>2, <2>1, TreeAdds
<1>4. f.expr = active.expr /\ f.pos = active.pos + 1
  BY <1>2 DEF Received, FrameShapes
<1>5. Operands(f.expr)[f.pos] = upcoming
  BY <1>4 DEF upcoming
<1> HIDE DEF f
<1> PICK u : u = upcoming
  OBVIOUS
<1>6. Waiting(u)' /\ \A n : Waiting(n) => Waiting(n)'
  <2>1. \A i \in Len(frames) + 1 .. Len(frames) : FALSE
    BY <1>2
  <2>2. Len(frames) <= Len(frames) /\ \A i \in 1 .. Len(frames) : frames[i] = frames[i]
    BY <1>2
  <2> QED
    BY <1>1, <1>2, <1>4, <1>5, <2>1, <2>2, WaitingMoves
<1>7. stage' # "over"
  BY <1>1
<1> QED
  BY <1>1, <1>3, <1>6, <1>7, SameOperands DEF Adopted

LEMMA OpenAdopted == ASSUME IInv, Adopted, OpenForm PROVE Adopted'
<1>1. /\ stage = "forms" /\ More
      /\ blamed' = blamed \cup (IF Questionable(upcoming) THEN {upcoming} ELSE {})
      /\ frames' = Append(frames, Frame(upcoming))
      /\ source' = source /\ stage' = stage /\ program' = program
  BY DEF OpenForm, More
<1>2. frames \in Seq(FrameShapes)
  BY <1>1, FormsFacts
<1>3. /\ Len(frames) \in Nat /\ Len(frames') = Len(frames) + 1
      /\ \A i \in 1 .. Len(frames) : frames'[i] = frames[i]
  BY <1>1, <1>2, Appended
<1>4. \A e : Operands(e)' = Operands(e)
  BY <1>1, SameSource
<1>5. \A i \in 1 .. Len(frames) : i \in 1 .. Len(frames')
  BY <1>3
<1>6. \A n : Waiting(n) => Waiting(n)'
  BY <1>3, <1>4, <1>5 DEF Waiting
<1>7. Nodes' = Nodes /\ stage # "over"
  BY <1>1 DEF Nodes
<1> QED
  BY <1>1, <1>6, <1>7, SameOperands DEF Adopted

LEMMA CloseAdopted == ASSUME IInv, Adopted, AllThere, CloseForm PROVE Adopted'
<1> DEFINE e == active.expr
           callers == Front(frames)
           caller == callers[Len(callers)]
           f == Received(caller, e)
<1>1. /\ stage = "forms" /\ ~More /\ Len(frames) > 1
      /\ Len(active.args) = ArgCount(e) =>
            /\ program' = WithNode(e, FormNode(active))
            /\ frames' = [callers EXCEPT ![Len(callers)] = f]
      /\ source' = source /\ stage' = stage /\ blamed' = blamed
  BY DEF CloseForm
<1>2. /\ SourceOK(source) /\ TreeOK /\ FramesOK /\ frames # <<>>
      /\ active \in FrameShapes /\ active = frames[Len(frames)]
      /\ frames \in Seq(FrameShapes) /\ Len(frames) \in Nat
  BY <1>1, FormsFacts
<1> SUFFICES ASSUME blamed = {} PROVE Adopted'
  BY <1>1 DEF Adopted
<1>3. FramesGather
  BY DEF AllThere
<1>4. e \in DOMAIN source.nodes /\ Accepted(e) /\ IsList(e) /\ ~Questionable(e)
  <2>1. FrameOK(Len(frames))
    BY <1>1, <1>2 DEF FramesOK
  <2> QED
    BY <1>1, <1>2, <2>1 DEF FrameOK, Accepted, IsForm
<1>5. /\ Gathered(active, Operands(e), ArgCount(e)) /\ ~(active.pos < Len(Operands(e)))
      /\ Operands(e) \in Seq(DOMAIN source.nodes) /\ ArgCount(e) \in 0 .. Len(Operands(e))
  BY <1>1, ActiveGathers
<1>6. Len(active.args) = ArgCount(e)
  BY <1>2, <1>5, GatheredAll
<1>7. Nodes' = Nodes \cup {e}
  <2>1. active.args \in Seq(Nodes \cup {e}) /\ active.children \in Seq(Nodes \cup {e})
    BY <1>2, SeqMonotonic DEF FrameShapes
  <2>2. Sound(FormNode(active), Nodes \cup {e})
    BY <1>2, <1>4, <1>6, <2>1, FormNodeFacts
  <2> QED
    BY <1>1, <1>2, <1>4, <1>6, <2>2, TreeAdds
<1>8. /\ callers \in Seq(FrameShapes) /\ callers # <<>>
      /\ Len(callers) = Len(frames) - 1
      /\ \A i \in 1 .. Len(callers) : callers[i] = frames[i]
  BY <1>1, <1>2, FrontProperties
<1>9. /\ Len(callers) \in 1 .. Len(callers)
      /\ Len(callers) \in 1 .. Len(frames) - 1 /\ Len(callers) + 1 = Len(frames)
      /\ Len(callers) <= Len(frames)
  BY <1>1, <1>2, <1>8
<1>10. caller = frames[Len(callers)] /\ caller \in FrameShapes
  BY <1>8, <1>9, ElementOfSeq
<1>11. f.expr = caller.expr /\ f.pos = caller.pos + 1
  BY <1>10 DEF Received, FrameShapes
<1>12. Operands(f.expr)[f.pos] = e
  BY <1>2, <1>3, <1>9, <1>10, <1>11 DEF FramesGather, Awaits
<1>13. frames' = [callers EXCEPT ![Len(callers)] = f] /\ f.expr = callers[Len(callers)].expr
       /\ f.pos = callers[Len(callers)].pos + 1
  BY <1>1, <1>6, <1>11
<1> HIDE DEF f, callers, caller
<1> PICK u : u = e
  OBVIOUS
<1> HIDE DEF e
<1>14. /\ Waiting(u)'
       /\ \A n : Waiting(n) => \/ Waiting(n)'
                               \/ \E i \in Len(callers) + 1 .. Len(frames) : \E k \in 1 .. frames[i].pos :
                                     Operands(frames[i].expr)[k] = n
  BY <1>1, <1>2, <1>8, <1>9, <1>12, <1>13, WaitingMoves
<1>15. ASSUME NEW n, Waiting(n), ~Waiting(n)' PROVE OperandOf(n, u)
  <2>1. PICK i \in Len(callers) + 1 .. Len(frames) : \E k \in 1 .. frames[i].pos :
            Operands(frames[i].expr)[k] = n
    BY <1>14, <1>15
  <2>2. i = Len(frames)
    BY <1>2, <1>9, <2>1
  <2>3. PICK k \in 1 .. active.pos : Operands(e)[k] = n
    BY <1>2, <2>1, <2>2 DEF e
  <2>4. active.pos \in Nat /\ active.pos <= Len(Operands(e)) /\ Len(Operands(e)) \in Nat
    BY <1>2, <1>5, LenProperties DEF Gathered, FrameShapes
  <2>5. k \in 1 .. Len(Operands(e))
    BY <2>3, <2>4
  <2> QED
    BY <1>4, <2>3, <2>5 DEF OperandOf
<1>16. stage' # "over"
  BY <1>1
<1>17. ASSUME NEW n \in Nodes' PROVE (\E p \in Nodes' : OperandOf(n, p)) \/ Waiting(n)'
  <2>1. CASE n = u
    BY <1>14, <2>1
  <2>2. CASE n # u
    <3>1. (\E p \in Nodes : OperandOf(n, p)) \/ Waiting(n)
      BY <1>1, <1>7, <2>2 DEF Adopted
    <3> QED
      BY <1>7, <1>15, <3>1
  <2> QED
    BY <2>1, <2>2
<1> QED
  BY <1>1, <1>16, <1>17, SameOperands DEF Adopted

LEMMA FinishAdopted == ASSUME IInv, Adopted, AllThere, RootPending, Settled, Finish PROVE Adopted' /\ Settled'
<1>1. /\ stage = "forms" /\ stage' = "over" /\ ~More /\ Len(frames) = 1
      /\ source' = source /\ frames' = frames /\ blamed' = blamed
  BY DEF Finish
<1>2. /\ SourceOK(source) /\ TreeOK /\ FramesOK
      /\ active \in FrameShapes /\ active = frames[1]
  BY <1>1, FormsFacts
<1>3. active.expr = source.whole /\ Operands(source.whole) = Tops
  BY <1>1, <1>2 DEF FramesOK, FrameOK, Operands
<1>4. source.exprs # <<>>
  BY <1>1 DEF Settled
<1>5. ASSUME NEW n, Waiting(n), blamed = {} PROVE OperandOf(n, source.whole)
  <2>1. PICK k \in 1 .. active.pos : Operands(source.whole)[k] = n
    BY <1>1, <1>2, <1>3, <1>5 DEF Waiting
  <2>2. Gathered(active, Operands(source.whole), ArgCount(source.whole)) /\ Len(Operands(source.whole)) \in Nat
    BY <1>1, <1>3, <1>5, ActiveGathers
  <2>3. active.pos \in Nat /\ active.pos <= Len(Operands(source.whole))
    BY <1>2, <2>2 DEF Gathered, FrameShapes
  <2>4. k \in 1 .. Len(Operands(source.whole))
    BY <2>1, <2>2, <2>3
  <2> QED
    BY <2>1, <2>4 DEF OperandOf
<1>6. CASE Len(source.exprs) = 1 /\ ~SingleDo
  <2>1. program' = [root |-> source.exprs[1], ast |-> program.ast]
    BY <1>2, <1>6 DEF Finish, TreeOK
  <2>2. program'.root = source.exprs[1] /\ Nodes' = Nodes
    BY <2>1 DEF Nodes
  <2>3. \A n : OperandOf(n, source.whole) => n = source.exprs[1]
    <3>1. Operands(source.whole) = source.exprs
      BY <1>3, <1>6 DEF Tops
    <3> QED
      BY <1>6, <3>1 DEF OperandOf
  <2>4. Adopted'
    BY <1>1, <1>5, <2>2, <2>3, SameOperands DEF Adopted
  <2> QED
    BY <1>1, <1>4, <2>2, <2>4 DEF Settled
<1>7. CASE ~(Len(source.exprs) = 1 /\ ~SingleDo)
  <2> DEFINE S == Nodes \cup {source.whole}
             node == [NewNode("Do", "do", 0) EXCEPT !.children = active.children]
  <2>1. program' = WithNode(source.whole, node)
    BY <1>7 DEF Finish
  <2>2. active.children \in Seq(S)
    BY <1>2, SeqMonotonic DEF FrameShapes
  <2>3. Sound(node, S)
    BY <2>2, RootFacts
  <2> HIDE DEF node
  <2>4. Nodes' = Nodes \cup {source.whole}
    BY <1>1, <1>2, <2>1, <2>3, TreeAdds
  <2>5. program'.root = source.whole
    BY <1>1, <1>2, <2>1, RootKept DEF RootPending
  <2>6. Adopted'
    BY <1>1, <1>5, <2>4, <2>5, SameOperands DEF Adopted
  <2> QED
    BY <1>1, <1>4, <1>7, <2>6, SameOperands DEF Settled
<1> QED
  BY <1>6, <1>7

LEMMA SettledGoes ==
    ASSUME IInv, Settled,
           CollectSignatures \/ CompileAtom \/ RefuseForm \/ OpenForm \/ CloseForm \/ UNCHANGED compilerVars
    PROVE  Settled'
<1>1. CASE CollectSignatures
  <2>1. /\ source' = source /\ program' = program /\ Nodes = {}
        /\ source.exprs = <<>> => stage' = "over"
        /\ source.exprs # <<>> => stage' = "forms"
    BY <1>1, Parts DEF CollectSignatures
  <2>2. Len(<<>>) # 1
    OBVIOUS
  <2> QED
    BY <2>1, <2>2 DEF Settled, Nodes
<1>2. CASE CompileAtom \/ RefuseForm \/ OpenForm \/ CloseForm
  <2>1. stage = "forms" /\ stage' = "forms" /\ source' = source
    BY <1>2 DEF CompileAtom, RefuseForm, OpenForm, CloseForm, More
  <2> QED
    BY <2>1 DEF Settled
<1>3. CASE UNCHANGED compilerVars
  <2>1. source' = source /\ program' = program /\ stage' = stage
    BY <1>3 DEF compilerVars
  <2> QED
    BY <2>1, SameOperands DEF Settled, Nodes
<1> QED
  BY <1>1, <1>2, <1>3

LEMMA AdoptedStep ==
    IInv /\ AllThere /\ RootPending /\ Adopted /\ Settled /\ [Next \/ Returned]_compilerVars
        => Adopted' /\ Settled'
<1> SUFFICES ASSUME IInv, AllThere, RootPending, Adopted, Settled, [Next \/ Returned]_compilerVars
             PROVE  Adopted' /\ Settled'
  OBVIOUS
<1>1. CASE CollectSignatures
  <2>1. Nodes = {} /\ program' = program
    BY <1>1, Parts DEF CollectSignatures
  <2> QED
    BY <1>1, <2>1, SettledGoes DEF Adopted, Nodes
<1>2. CASE RefuseForm
  <2>1. blamed' # {}
    BY <1>2 DEF RefuseForm
  <2> QED
    BY <1>2, <2>1, SettledGoes DEF Adopted
<1>3. CASE UNCHANGED compilerVars
  <2>1. /\ source' = source /\ stage' = stage /\ frames' = frames
        /\ blamed' = blamed /\ program' = program
    BY <1>3 DEF compilerVars
  <2>2. \A e : Operands(e)' = Operands(e)
    BY <2>1, SameSource
  <2>3. \A n : Waiting(n)' <=> Waiting(n)
    BY <2>1, <2>2 DEF Waiting
  <2> QED
    BY <1>3, <2>1, <2>3, SettledGoes, SameOperands DEF Adopted, Nodes
<1> QED
  BY <1>1, <1>2, <1>3, AtomAdopted, OpenAdopted, CloseAdopted, FinishAdopted, SettledGoes DEF Next, Returned

-----------------------------------------------------------------------------
(***************************************************************************)
(* What became of the expressions.  A node has the kind, the name and the  *)
(* parameters its expression says, and its expression was checked.         *)
(***************************************************************************)
FaithfulAs(n, node) ==
    IF n = source.whole THEN node.kind = "Do" /\ node.args = <<>>
    ELSE IF IsList(n)
      THEN /\ Accepted(n)
           /\ blamed = {} => ~Questionable(n)
           /\ node.kind = FormKind(n) /\ node.op = NodeOp(n)
           /\ Len(node.args) = ArgCount(n)
           /\ DefinesFunction(n) /\ blamed = {} => Len(node.params) = Argc(Arg(n, 1))
    ELSE node = Atom(n)

Faithful ==
    /\ \A n \in Nodes : FaithfulAs(n, Ast[n])
    /\ stage # "signatures" => Duplicates \subseteq blamed

LEMMA SameTexts ==
    ASSUME source' = source, blamed \subseteq blamed'
    PROVE  /\ \A n, node : FaithfulAs(n, node) => FaithfulAs(n, node)'
           /\ Duplicates' = Duplicates
<1>1. \A e : (Accepted(e)' <=> Accepted(e)) /\ (Questionable(e)' <=> Questionable(e))
             /\ ArgCount(e)' = ArgCount(e)
  BY SameSource
<1>2. \A e : (IsList(e)' <=> IsList(e)) /\ (DefinesFunction(e)' <=> DefinesFunction(e))
             /\ FormKind(e)' = FormKind(e) /\ NodeOp(e)' = NodeOp(e)
  BY DEF IsList, DefinesFunction, FormKind, NodeOp, FunctionName, Op, Arg, List, Symbol
<1>3. \A e : Argc(Arg(e, 1))' = Argc(Arg(e, 1))
  BY DEF Argc, List, Arg
<1>4. \A e : Atom(e)' = Atom(e)
  BY DEF Atom, IsInteger, Symbol
<1>5. Duplicates' = Duplicates
  BY DEF Duplicates, Signatures, First, IsSignature, Tops, SingleDo, DefinesFunction, FunctionName,
         IsForm, IsList, IsSymbol, Argc, Arg, Op, List, Symbol
<1>6. ASSUME NEW n, NEW node, FaithfulAs(n, node) PROVE FaithfulAs(n, node)'
  BY <1>1, <1>2, <1>3, <1>4, <1>6 DEF FaithfulAs
<1> QED
  BY <1>5, <1>6

LEMMA FaithfulNode ==
    ASSUME Faithful, source' = source, blamed \subseteq blamed', NEW e, NEW node,
           stage' # "signatures" => stage # "signatures",
           Nodes' = Nodes \cup {e},
           \A n \in Nodes' : Ast'[n] = IF n = e THEN node ELSE Ast[n],
           FaithfulAs(e, node)
    PROVE  Faithful'
<1>1. \A n \in Nodes' : FaithfulAs(n, Ast'[n])
  BY DEF Faithful
<1>2. \A n \in Nodes' : FaithfulAs(n, Ast[n])'
  BY <1>1, SameTexts
<1> QED
  BY <1>2, SameTexts DEF Faithful

LEMMA FaithfulKept ==
    ASSUME Faithful, source' = source, blamed \subseteq blamed', Nodes' = Nodes, Ast' = Ast,
           stage' # "signatures" => stage # "signatures"
    PROVE  Faithful'
<1>1. \A n \in Nodes' : FaithfulAs(n, Ast'[n])
  BY DEF Faithful
<1>2. \A n \in Nodes' : FaithfulAs(n, Ast[n])'
  BY <1>1, SameTexts
<1> QED
  BY <1>2, SameTexts DEF Faithful

LEMMA FaithfulStep == IInv /\ Faithful /\ [Next \/ Returned]_compilerVars => Faithful'
<1> SUFFICES ASSUME IInv, Faithful, [Next \/ Returned]_compilerVars PROVE Faithful'
  OBVIOUS
<1>1. SourceOK(source) /\ TreeOK
  BY Parts
<1>2. CASE UNCHANGED compilerVars
  BY <1>2, FaithfulKept DEF compilerVars, Nodes, Ast
<1>3. CASE RefuseForm \/ OpenForm
  <2>1. /\ source' = source /\ stage' = stage /\ stage = "forms" /\ program' = program
        /\ blamed \subseteq blamed'
    BY <1>3 DEF RefuseForm, OpenForm, More
  <2> QED
    BY <2>1, FaithfulKept DEF Nodes, Ast
<1>4. CASE CollectSignatures
  <2>1. Nodes = {} /\ source' = source /\ program' = program
    BY <1>4, Parts DEF CollectSignatures
  <2>2. Duplicates \subseteq blamed'
    <3>1. CASE source.exprs = <<>>
      <4>1. Len(Tops) = 0
        BY <3>1 DEF Tops, SingleDo
      <4>2. Duplicates = {}
        BY <4>1 DEF Duplicates, Signatures
      <4> QED
        BY <4>2
    <3>2. CASE source.exprs # <<>>
      BY <1>4, <3>2 DEF CollectSignatures
    <3> QED
      BY <3>1, <3>2
  <2>3. Duplicates' = Duplicates
    BY <2>1 DEF Duplicates, Signatures, First, IsSignature, Tops, SingleDo, DefinesFunction,
                FunctionName, IsForm, IsList, IsSymbol, Argc, Arg, Op, List, Symbol
  <2> QED
    BY <2>1, <2>2, <2>3 DEF Faithful, Nodes
<1>5. CASE CompileAtom
  <2>1. /\ stage = "forms" /\ More /\ ~IsList(upcoming)
        /\ program' = WithNode(upcoming, Atom(upcoming))
        /\ source' = source /\ stage' = stage /\ blamed' = blamed
    BY <1>5 DEF CompileAtom, More
  <2>2. upcoming \in DOMAIN source.nodes /\ upcoming # source.whole
    BY <1>1, <2>1, FormsFacts, RawFacts
  <2>3. Sound(Atom(upcoming), Nodes \cup {upcoming})
    BY <1>1, <2>1, <2>2, AtomFacts
  <2>4. /\ Nodes' = Nodes \cup {upcoming}
        /\ \A n \in Nodes' : Ast'[n] = IF n = upcoming THEN Atom(upcoming) ELSE Ast[n]
    BY <1>1, <2>1, <2>2, <2>3, TreeAdds
  <2>5. FaithfulAs(upcoming, Atom(upcoming))
    BY <2>1, <2>2 DEF FaithfulAs
  <2> QED
    BY <2>1, <2>4, <2>5, FaithfulNode
<1>6. CASE CloseForm
  <2> DEFINE e == active.expr
             node == FormNode(active)
  <2>1. /\ stage = "forms" /\ Len(frames) > 1
        /\ source' = source /\ stage' = stage /\ blamed' = blamed
    BY <1>6 DEF CloseForm
  <2>2. CASE Len(active.args) = ArgCount(e)
    <3>1. program' = WithNode(e, node)
      BY <1>6, <2>2 DEF CloseForm
    <3>2. /\ e \in DOMAIN source.nodes /\ Accepted(e) /\ (blamed = {} => ~Questionable(e))
          /\ active \in FrameShapes
      <4>1. frames # <<>> /\ FramesOK
        BY <2>1, Parts
      <4>2. active \in FrameShapes /\ Len(frames) # 1
        BY <2>1, FormsFacts
      <4> QED
        BY <1>1, <4>1, <4>2, ActiveFacts
    <3>3. active.args \in Seq(Nodes \cup {e}) /\ active.children \in Seq(Nodes \cup {e})
      BY <3>2, SeqMonotonic DEF FrameShapes
    <3>4. Sound(node, Nodes \cup {e})
      BY <1>1, <2>2, <3>2, <3>3, FormNodeFacts
    <3>5. /\ node.kind = FormKind(e) /\ node.op = NodeOp(e) /\ node.args = active.args
          /\ DefinesFunction(e) => node.params = Params(e)
      BY DEF FormNode
    <3>9. DefinesFunction(e) /\ blamed = {} => Len(node.params) = Argc(Arg(e, 1))
      <4> SUFFICES ASSUME DefinesFunction(e), ~Questionable(e) PROVE Len(Params(e)) = Argc(Arg(e, 1))
        BY <3>2, <3>5
      <4>1. Arg(e, 1) \in DOMAIN source.nodes /\ IsForm(Arg(e, 1))
        BY <1>1, <3>2, TargetFacts DEF DefinesFunction
      <4> QED
        BY <1>1, <3>2, <4>1, ParamFacts
    <3> HIDE DEF e, node
    <3>6. Nodes' = Nodes \cup {e} /\ \A n \in Nodes' : Ast'[n] = IF n = e THEN node ELSE Ast[n]
      BY <1>1, <2>1, <3>1, <3>2, <3>4, TreeAdds
    <3>7. IsList(e) /\ e # source.whole
      BY <1>1, <3>2, RawFacts DEF Accepted, IsForm
    <3>8. FaithfulAs(e, node)
      BY <2>2, <3>2, <3>5, <3>7, <3>9 DEF FaithfulAs
    <3> QED
      BY <2>1, <3>6, <3>8, FaithfulNode
  <2>3. CASE Len(active.args) # ArgCount(e)
    <3>1. program' = program
      BY <1>6, <2>3 DEF CloseForm
    <3> QED
      BY <2>1, <3>1, FaithfulKept DEF Nodes, Ast
  <2> QED
    BY <2>2, <2>3
<1>7. CASE Finish
  <2>1. /\ stage = "forms" /\ source' = source /\ blamed' = blamed /\ active \in FrameShapes
    BY <1>7, FormsFacts DEF Finish
  <2>2. CASE Len(source.exprs) = 1 /\ ~SingleDo
    <3>1. program' = [program EXCEPT !.root = source.exprs[1]]
      BY <1>7, <2>2 DEF Finish
    <3>2. program' = [root |-> source.exprs[1], ast |-> program.ast]
      BY <1>1, <3>1 DEF TreeOK
    <3>3. Nodes' = Nodes /\ Ast' = Ast
      BY <3>2 DEF Nodes, Ast
    <3> QED
      BY <2>1, <3>3, FaithfulKept
  <2>3. CASE ~(Len(source.exprs) = 1 /\ ~SingleDo)
    <3> DEFINE none == <<>>
               S == Nodes \cup {source.whole}
               node == [NewNode("Do", "do", 0) EXCEPT !.children = active.children]
    <3>1. program' = WithNode(source.whole, node)
      BY <1>7, <2>3 DEF Finish
    <3>2. active.children \in Seq(S)
      BY <2>1, SeqMonotonic DEF FrameShapes
    <3>3. Sound(node, S)
      BY <3>2, RootFacts
    <3>4. node.kind = "Do" /\ node.args = none
      <4>1. NewNode("Do", "do", 0) = [kind |-> "Do", op |-> "do", args |-> none, children |-> none,
                                      params |-> none, num |-> 0]
        BY DEF NewNode
      <4> HIDE DEF none
      <4> QED
        BY <4>1
    <3> HIDE DEF node
    <3>5. /\ Nodes' = Nodes \cup {source.whole}
          /\ \A n \in Nodes' : Ast'[n] = IF n = source.whole THEN node ELSE Ast[n]
      BY <1>1, <2>1, <3>1, <3>3, TreeAdds
    <3>6. FaithfulAs(source.whole, node)
      BY <3>4 DEF FaithfulAs
    <3> QED
      BY <2>1, <3>5, <3>6, FaithfulNode
  <2> QED
    BY <2>2, <2>3
<1> QED
  BY <1>2, <1>3, <1>4, <1>5, <1>6, <1>7 DEF Next, Returned

(* A call that was compiled has a function to call, the first of its name; *)
(* an integer that was written where a range applies is in it.             *)
Callable(n, f) == Ast[f].kind = "DefineFunc" /\ Ast[f].op = Ast[n].op

FunctionNodes == {root} \cup ToSet(Ast[root].children)

CallsFit ==
    \A n \in Nodes : Ast[n].kind = "Call" =>
        /\ \E f \in FunctionNodes : Callable(n, f)
        /\ \A f \in FunctionNodes : Callable(n, f) => Len(Ast[f].params) = Len(Ast[n].args)

LiteralsFit ==
    \A n \in Nodes : \A i \in 1 .. Len(Ast[n].args) :
        Ast[Ast[n].args[i]].kind = "IntegerLiteral" =>
            LET v == Ast[Ast[n].args[i]].num
            IN  /\ Ast[n].kind = "Repeat" => v \in 0 .. RepeatMax
                /\ Ast[n].kind \in Moves => v \in 0 .. (IF i = 1 THEN SpeedMax ELSE DurationMax)
                /\ Ast[n].kind \in Turns => v \in 0 .. TurnMax
                /\ Ast[n].kind = "Wait" => v \in 0 .. DurationMax

LEMMA AtomKinds ==
    ASSUME NEW e
    PROVE  /\ Atom(e).kind \in Literals \cup {"VarRef"}
           /\ Atom(e).kind = "IntegerLiteral" => IsInteger(e) /\ Atom(e).num = source.nodes[e].integer
<1> DEFINE none == <<>>
<1>1. \A k, o, num : NewNode(k, o, num) = [kind |-> k, op |-> o, args |-> none, children |-> none,
                                           params |-> none, num |-> num]
  BY DEF NewNode
<1> HIDE DEF none
<1>2. \A k, o, num : NewNode(k, o, num).kind = k /\ NewNode(k, o, num).num = num
  BY <1>1
<1>3. CASE IsInteger(e)
  <2> DEFINE num == source.nodes[e].integer
             no == ""
  <2>1. Atom(e) = NewNode("IntegerLiteral", no, num)
    BY <1>3 DEF Atom
  <2> HIDE DEF num, no
  <2>2. Atom(e).kind = "IntegerLiteral" /\ Atom(e).num = num
    BY <1>2, <2>1
  <2> QED
    BY <1>3, <2>2 DEF Literals, num
<1>4. CASE ~IsInteger(e)
  <2>1. Atom(e) = NamedAtom(Symbol(e))
    BY <1>4 DEF Atom
  <2>2. PICK num : NamedAtom(Symbol(e)) \in
           {NewNode("BooleanLiteral", Symbol(e), num), NewNode("ColorLiteral", Symbol(e), num),
            NewNode("VarRef", Symbol(e), num)}
    BY DEF NamedAtom
  <2> QED
    BY <1>2, <2>1, <2>2 DEF Literals
<1> QED
  BY <1>3, <1>4

LEMMA FormKinds ==
    ASSUME NEW e
    PROVE  /\ FormKind(e) \notin Literals \cup {"VarRef"}
           /\ FormKind(e) = "Call" => Op(e) \notin Forms
           /\ FormKind(e) = "DefineFunc" => Op(e) = "define" /\ DefinesFunction(e)
           /\ FormKind(e) = "Repeat" => Op(e) = "repeat"
           /\ FormKind(e) \in Moves => Op(e) \in {"drive", "backward"}
           /\ FormKind(e) \in Turns => Op(e) \in {"turn-left", "turn-right"}
           /\ FormKind(e) = "Wait" => Op(e) = "wait"
BY DEF FormKind, Literals, Forms, ControlForms, CommandForms, SensorForms, Comparisons, BooleanOps,
       ArithmeticOps, Moves, Turns

(* What is known of the nodes of a program without an error.               *)
LEMMA FormOf ==
    ASSUME IInv, AllThere, Faithful, blamed = {}, NEW n \in Nodes, Ast[n].kind \notin Literals \cup {"VarRef"},
           n # source.whole
    PROVE  /\ n \in DOMAIN source.nodes /\ IsList(n) /\ Accepted(n) /\ ~Questionable(n)
           /\ Ast[n].kind = FormKind(n) /\ Ast[n].op = NodeOp(n)
           /\ Len(Ast[n].args) = ArgCount(n)
           /\ DefinesFunction(n) => Len(Ast[n].params) = Argc(Arg(n, 1))
<1>1. FaithfulAs(n, Ast[n])
  BY DEF Faithful
<1>2. IsList(n)
  BY <1>1, AtomKinds DEF FaithfulAs
<1>3. Nodes \subseteq DOMAIN source.nodes \cup {source.whole}
  BY DEF IInv, TypeOK
<1> QED
  BY <1>1, <1>2, <1>3 DEF FaithfulAs

LEMMA TopsReached ==
    ASSUME IInv, AllThere, RootPending, Faithful, Ok
    PROVE  /\ FunctionNodes \subseteq Nodes
           /\ \A i \in 1 .. Len(Tops) : Tops[i] \in FunctionNodes
<1>1. root \in Nodes /\ blamed = {}
  BY DEF Ok, Rooted, root, Nodes
<1>2. Sound(Ast[root], Nodes)
  BY <1>1, TreeSound, Parts
<1>3. Ast[root].children \in Seq(Nodes)
  BY <1>2 DEF Sound
<1>4. FunctionNodes \subseteq Nodes
  BY <1>1, <1>3, ElementOfSeq, LenProperties DEF FunctionNodes, ToSet
<1>5. CASE root = source.whole
  <2>1. Ast[root].args = <<>>
    BY <1>1, <1>5 DEF Faithful, FaithfulAs
  <2>2. Below(root) = Ast[root].children
    BY <1>3, <2>1, ConcatEmptySeq DEF Below
  <2>3. Below(root) = Tops
    BY <1>1, <1>5 DEF AllThere, NodesGather, Operands
  <2>4. \A i \in 1 .. Len(Tops) : Tops[i] \in ToSet(Ast[root].children)
    BY <1>3, <2>2, <2>3, LenProperties DEF ToSet
  <2> QED
    BY <1>4, <2>4 DEF FunctionNodes
<1>6. CASE root # source.whole
  <2>1. Len(source.exprs) = 1 /\ ~SingleDo /\ root = source.exprs[1]
    BY <1>6 DEF RootPending, root
  <2>2. Tops = source.exprs /\ Len(Tops) = 1
    BY <2>1 DEF Tops
  <2>3. \A i \in 1 .. Len(Tops) : Tops[i] = root
    BY <2>1, <2>2
  <2> QED
    BY <1>4, <2>3 DEF FunctionNodes
<1> QED
  BY <1>5, <1>6

(* A function has the parameters it was counted with.                      *)
LEMMA FunctionOf ==
    ASSUME IInv, AllThere, Faithful, blamed = {}, stage = "over", NEW f \in Nodes,
           Ast[f].kind = "DefineFunc"
    PROVE  Len(Ast[f].params) = Arity(Ast[f].op)
<1>1. f # source.whole
  BY DEF Faithful, FaithfulAs
<1>2. SourceOK(source) /\ Duplicates = {}
  BY Parts DEF Faithful
<1>3. /\ f \in DOMAIN source.nodes /\ Accepted(f) /\ FormKind(f) = "DefineFunc"
      /\ Ast[f].op = NodeOp(f)
      /\ DefinesFunction(f) => Len(Ast[f].params) = Argc(Arg(f, 1))
  BY <1>1, FormOf DEF Literals
<1>4. Op(f) = "define" /\ DefinesFunction(f)
  BY <1>3, FormKinds
<1>5. IsForm(f) /\ Argc(f) >= 1 /\ ~BadTarget(f)
  BY <1>2, <1>3, <1>4, AcceptedFacts
<1>6. TopLevel(f) /\ IsForm(Arg(f, 1))
  BY <1>4, <1>5 DEF BadTarget
<1>7. PICK j \in 1 .. Len(Tops) : Tops[j] = f
  BY <1>6 DEF TopLevel
<1>8. j \in Signatures
  BY <1>4, <1>5, <1>6, <1>7 DEF Signatures, IsSignature
<1>9. First(FunctionName(f)) = j
  BY <1>2, <1>7, <1>8 DEF Duplicates
<1>10. Ast[f].op = FunctionName(f)
  BY <1>3, <1>4 DEF NodeOp
<1> QED
  BY <1>3, <1>4, <1>7, <1>9, <1>10 DEF Arity

LEMMA CallsFitOk ==
    ASSUME IInv, AllThere, RootPending, Faithful, Ok
    PROVE  CallsFit
<1> SUFFICES ASSUME NEW n \in Nodes, Ast[n].kind = "Call"
             PROVE  /\ \E f \in FunctionNodes : Callable(n, f)
                    /\ \A f \in FunctionNodes : Callable(n, f) => Len(Ast[f].params) = Len(Ast[n].args)
  BY DEF CallsFit
<1>1. SourceOK(source) /\ blamed = {} /\ stage = "over"
  BY Parts DEF Ok
<1>2. n # source.whole
  BY DEF Faithful, FaithfulAs
<1>3. /\ n \in DOMAIN source.nodes /\ Accepted(n) /\ FormKind(n) = "Call"
      /\ Ast[n].op = NodeOp(n) /\ Len(Ast[n].args) = ArgCount(n)
  BY <1>1, <1>2, FormOf DEF Literals
<1>4. Op(n) \notin Forms
  BY <1>3, FormKinds
<1>5. Op(n) \notin {"do", "define", "set!", "repeat", "when", "while"}
  BY <1>4 DEF Forms, ControlForms
<1>6. Ast[n].op = Op(n) /\ ArgCount(n) = Len(Tail(List(n)))
  BY <1>2, <1>3, <1>5 DEF NodeOp, ArgCount, Operands, DefinesFunction
<1>7. IsForm(n) /\ Known(Op(n)) /\ Argc(n) = Arity(Op(n))
  BY <1>3, <1>4 DEF Accepted, Unknown, WrongCount
<1>8. Len(Ast[n].args) = Arity(Op(n))
  BY <1>1, <1>3, <1>6, <1>7, FormFacts
<1>9. \A f \in FunctionNodes : Callable(n, f) => Len(Ast[f].params) = Len(Ast[n].args)
  BY <1>1, <1>6, <1>8, FunctionOf, TopsReached DEF Callable
<1>10. \E f \in FunctionNodes : Callable(n, f)
  <2>1. PICK i \in Signatures : FunctionName(Tops[i]) = Op(n)
    BY <1>7 DEF Known
  <2> DEFINE f == Tops[i]
  <2>2. f \in FunctionNodes /\ f \in Nodes
    BY <2>1, TopsReached DEF Signatures
  <2>3. IsForm(f) /\ DefinesFunction(f) /\ Op(f) = "define"
    BY <2>1 DEF Signatures, IsSignature, DefinesFunction
  <2>4. f # source.whole
    BY <1>1, <2>1, TopsFacts, ElementOfSeq, RawFacts DEF Signatures
  <2>5. FaithfulAs(f, Ast[f]) /\ IsList(f)
    BY <2>2, <2>3 DEF Faithful, IsForm
  <2>6. Ast[f].kind = FormKind(f) /\ Ast[f].op = NodeOp(f)
    BY <2>4, <2>5 DEF FaithfulAs
  <2>7. Ast[f].kind = "DefineFunc" /\ Ast[f].op = FunctionName(f)
    BY <2>3, <2>6 DEF FormKind, NodeOp, Comparisons, BooleanOps, ArithmeticOps
  <2> QED
    BY <1>6, <2>1, <2>2, <2>7 DEF Callable
<1> QED
  BY <1>9, <1>10

LEMMA LiteralsFitOk ==
    ASSUME IInv, AllThere, Faithful, Ok
    PROVE  LiteralsFit
<1> SUFFICES ASSUME NEW n \in Nodes, NEW i \in 1 .. Len(Ast[n].args),
                    Ast[Ast[n].args[i]].kind = "IntegerLiteral",
                    Ast[n].kind \in {"Repeat", "Wait"} \cup Moves \cup Turns
             PROVE  LET v == Ast[Ast[n].args[i]].num
                    IN  /\ Ast[n].kind = "Repeat" => v \in 0 .. RepeatMax
                        /\ Ast[n].kind \in Moves => v \in 0 .. (IF i = 1 THEN SpeedMax ELSE DurationMax)
                        /\ Ast[n].kind \in Turns => v \in 0 .. TurnMax
                        /\ Ast[n].kind = "Wait" => v \in 0 .. DurationMax
  BY DEF LiteralsFit
<1>1. SourceOK(source) /\ blamed = {} /\ TreeOK
  BY Parts DEF Ok
<1>2. n # source.whole
  BY DEF Faithful, FaithfulAs, Moves, Turns
<1>3. /\ n \in DOMAIN source.nodes /\ IsList(n) /\ Accepted(n) /\ ~Questionable(n)
      /\ Ast[n].kind = FormKind(n)
  BY <1>1, <1>2, FormOf DEF Literals, Moves, Turns
<1>4. /\ FormKind(n) = "Repeat" => Op(n) = "repeat"
      /\ FormKind(n) \in Moves => Op(n) \in {"drive", "backward"}
      /\ FormKind(n) \in Turns => Op(n) \in {"turn-left", "turn-right"}
      /\ FormKind(n) = "Wait" => Op(n) = "wait"
  BY FormKinds
<1>5. Op(n) \notin {"define", "set!"}
  BY <1>3, <1>4
<1>6. IsForm(n) /\ Operands(n) = Tail(List(n))
  BY <1>2, <1>3, <1>5 DEF Operands, Accepted
<1>7. Below(n) = Operands(n)
  BY <1>1, <1>3 DEF AllThere, NodesGather
<1>8. Ast[n].args \in Seq(Nodes) /\ Ast[n].children \in Seq(Nodes)
  BY <1>1, TreeSound DEF Sound
<1>9. ArityOK(Ast[n])
  BY <1>1 DEF TreeOK, NodeOK
<1>10. i \in 1 .. Len(Below(n)) /\ Below(n)[i] = Ast[n].args[i]
  <2> DEFINE a == Ast[n].args
             c == Ast[n].children
  <2>1. /\ Len(a) \in Nat /\ Len(c) \in Nat /\ Len(a \o c) = Len(a) + Len(c)
        /\ \A j \in 1 .. Len(a) + Len(c) : (a \o c)[j] = IF j <= Len(a) THEN a[j] ELSE c[j - Len(a)]
    BY <1>8, ConcatProperties, LenProperties
  <2> HIDE DEF a, c
  <2>2. i \in 1 .. Len(a)
    BY DEF a
  <2>3. i \in 1 .. Len(a \o c) /\ (a \o c)[i] = a[i]
    BY <2>1, <2>2
  <2> QED
    BY <2>3 DEF Below, a, c
<1>11. i \in 1 .. Argc(n) /\ Tail(List(n))[i] = Arg(n, i)
  BY <1>1, <1>3, <1>6, <1>7, <1>10, FormFacts, HeadTailProperties DEF Arg
<1> DEFINE e == Ast[n].args[i]
<1>12. e = Arg(n, i) /\ e \in Nodes
  BY <1>6, <1>7, <1>8, <1>10, <1>11, ElementOfSeq
<1>13. IsInteger(e) /\ Ast[e].num = source.nodes[e].integer
  <2>1. FaithfulAs(e, Ast[e])
    BY <1>12 DEF Faithful
  <2>2. e # source.whole /\ ~IsList(e)
    BY <2>1, FormKinds DEF FaithfulAs, Literals
  <2> QED
    BY <2>1, <2>2, AtomKinds DEF FaithfulAs
<1>14. Ast[e].num \in LiteralRange(Op(n), i)
  BY <1>3, <1>11, <1>12, <1>13 DEF Questionable
<1>15. i = 1 \/ (i = 2 /\ Ast[n].kind \in Moves)
  BY <1>8, <1>9, LenProperties DEF ArityOK, OneOperand, Moves, Turns
<1> HIDE DEF e
<1>16. /\ Op(n) = "repeat" /\ i = 1 => LiteralRange(Op(n), i) = 0 .. RepeatMax
       /\ Op(n) \in {"drive", "backward"} /\ i = 1 => LiteralRange(Op(n), i) = 0 .. SpeedMax
       /\ Op(n) \in {"drive", "backward"} /\ i = 2 => LiteralRange(Op(n), i) = 0 .. DurationMax
       /\ Op(n) \in {"turn-left", "turn-right"} /\ i = 1 => LiteralRange(Op(n), i) = 0 .. TurnMax
       /\ Op(n) = "wait" /\ i = 1 => LiteralRange(Op(n), i) = 0 .. DurationMax
  BY DEF LiteralRange
<1>17. /\ Ast[n].kind = "Repeat" => i = 1 /\ Ast[n].kind \notin Moves \cup Turns \cup {"Wait"}
       /\ Ast[n].kind \in Turns \cup {"Wait"} => i = 1
  BY <1>15 DEF Moves, Turns
<1> QED
  BY <1>3, <1>4, <1>14, <1>15, <1>16, <1>17 DEF e

LEMMA OkWellFormed == IInv => OutputWellFormed
<1> SUFFICES ASSUME IInv, Ok PROVE WellFormed(program)
  BY DEF OutputWellFormed
<1>1. TreeOK /\ blamed = {} /\ program.root \in DOMAIN program.ast
  BY Parts DEF Ok, Rooted
<1>2. \A n \in Nodes : Sound(Ast[n], Nodes)
  BY <1>1, TreeSound
<1> DEFINE nodes == [kind : NodeKinds, op : STRING, args : Seq(Nodes), children : Seq(Nodes),
                     params : Seq(Names), num : -MaxInt .. MaxInt]
<1>3. \A n \in Nodes : Ast[n] \in nodes
  BY <1>1, <1>2 DEF Sound
<1>4. Ast \in [Nodes -> nodes]
  BY <1>1, <1>3 DEF TreeOK
<1> QED
  BY <1>1, <1>2, <1>4 DEF WellFormed, Sound, TreeOK, Nodes, Ast

-----------------------------------------------------------------------------
(***************************************************************************)
(* The theorems.                                                           *)
(***************************************************************************)
(* At every point of the recursion of compile() a node is made of operands *)
(* that are there, and of names where the engine will look names up.       *)
THEOREM CompilerInductive == Spec => []IInv
<1>1. Init => IInv
  BY CompilerInit
<1>2. IInv /\ [Next \/ Returned]_compilerVars => IInv'
  BY CompilerStep
<1> QED
  BY <1>1, <1>2, PTL DEF Spec

(* Whatever the source: a tree that compile() returns without an error has *)
(* every operand and every name that execute() takes for granted.          *)
THEOREM OutputIsWellFormed == Spec => []OutputWellFormed
BY OkWellFormed, CompilerInductive, PTL

(* Whatever the source: a tree that compile() returns without an error has *)
(* for each form all the operands of its text, in their order; and where   *)
(* there is no tree there is an error.  As long as no error is reported    *)
(* every null check of compile_expr finds a node.                          *)
THEOREM NothingIsLost == Spec => []NothingLost
<1>1. Init => IInv /\ AllThere /\ RootPending
  BY CompilerInit, InitAllThere DEF Init, RootPending
<1>2. IInv /\ AllThere /\ RootPending /\ [Next \/ Returned]_compilerVars
        => IInv' /\ AllThere' /\ RootPending'
  BY CompilerStep, AllThereStep, RootStep
<1>3. AllThere => NothingLost
  BY DEF AllThere, NothingLost, NodesGather, Ok
<1> QED
  BY <1>1, <1>2, <1>3, PTL DEF Spec
=============================================================================
