------------------------------ MODULE Compiler ------------------------------
(***************************************************************************)
(* compile() of src/compiler.cpp: from the expressions the parser returns  *)
(* to the syntax tree the engine executes, or to errors.                   *)
(*                                                                         *)
(* Every expression of the source has an identity, and the node compiled   *)
(* from it gets the same one.  The recursion of compile_expr is the        *)
(* variable frames: a frame is a form whose operands are being compiled,   *)
(* the outermost one stands for the statement list of compile() itself.    *)
(***************************************************************************)
EXTENDS Ast, SequencesExt

CONSTANTS
    Sources,     \* the parsed sources compile() may be given
    RepeatMax    \* largest literal repeat count (kRepeatMax, 100)

VARIABLES
    source,      \* what parse() returned
    stage,       \* how far compile() is, see Stages
    frames,      \* the forms being compiled, outermost first
    blamed       \* the expressions an error was reported in

compilerVars == <<program, source, stage, frames, blamed>>

Stages == {"signatures", "forms", "over"}

-----------------------------------------------------------------------------
(***************************************************************************)
(* The names of the language.                                              *)
(***************************************************************************)
ColorNames == <<"off", "red", "green", "blue", "yellow", "white">>

Reserved == {"true", "false"} \cup ToSet(ColorNames)

Comparisons == {"<", ">", "=", "<=", ">="}

BooleanOps == {"and", "or", "not"}

ArithmeticOps == {"+", "-", "*", "/"}

SensorForms == {"distance-cm", "button", "line-left", "line-right"}

CommandForms ==
    {"drive", "backward", "turn-left", "turn-right", "stop", "wait", "light", "beep"}

ControlForms == {"do", "repeat", "when", "if", "while", "define", "set!"}

Forms == ControlForms \cup CommandForms \cup SensorForms
            \cup Comparisons \cup BooleanOps \cup ArithmeticOps

Builtins == Forms \cup Reserved

-----------------------------------------------------------------------------
(***************************************************************************)
(* The source: struct RawExpr of include/cardcode/parser.hpp.              *)
(***************************************************************************)
SourceOK(s) ==
    LET ids == DOMAIN s.nodes
        raw == [kind : {"Integer", "Symbol", "List"}, symbol : STRING,
                integer : -MaxInt .. MaxInt, list : Seq(ids)]
    IN  /\ s = [exprs |-> s.exprs, nodes |-> s.nodes, whole |-> s.whole, faulty |-> s.faulty]
        /\ s.exprs \in Seq(ids)          \* the expressions at the outermost level
        /\ s.nodes \in [ids -> raw]
        /\ s.whole \notin ids            \* the node compile() may add around them
        /\ s.faulty \in BOOLEAN          \* the lexer or the parser reported an error
        /\ \A e \in ids : s.nodes[e].kind = "Symbol" => s.nodes[e].symbol \in Names \cup Reserved

ASSUME CompilerAssumption ==
    /\ \A s \in Sources : SourceOK(s)
    /\ RepeatMax \in 0 .. MaxInt
    /\ Names \subseteq STRING
    /\ {"", "do"} \subseteq STRING     \* true, but the provers have to be told

IsList(e) == source.nodes[e].kind = "List"

IsSymbol(e) == source.nodes[e].kind = "Symbol"

IsInteger(e) == source.nodes[e].kind = "Integer"

List(e) == source.nodes[e].list

Symbol(e) == source.nodes[e].symbol

(* A list that begins with the name of an operation or a function.         *)
IsForm(e) == IsList(e) /\ List(e) # <<>> /\ IsSymbol(List(e)[1])

Op(e) == Symbol(List(e)[1])

Argc(e) == Len(List(e)) - 1

Arg(e, i) == List(e)[i + 1]

(* A single explicit do is unwrapped: its statements are the outermost.    *)
SingleDo ==
    /\ Len(source.exprs) = 1
    /\ IsForm(source.exprs[1]) /\ Op(source.exprs[1]) = "do"

Tops == IF SingleDo THEN Tail(List(source.exprs[1])) ELSE source.exprs

TopLevel(e) == \E i \in 1 .. Len(Tops) : Tops[i] = e

DefinesFunction(e) == Op(e) = "define" /\ IsList(Arg(e, 1))

(***************************************************************************)
(* Functions may be called before they are defined: collect_arity.         *)
(***************************************************************************)
IsSignature(e) ==
    IsForm(e) /\ Argc(e) >= 1 /\ DefinesFunction(e) /\ IsForm(Arg(e, 1))

Signatures == {i \in 1 .. Len(Tops) : IsSignature(Tops[i])}

FunctionName(e) == Op(Arg(e, 1))

Known(name) == \E i \in Signatures : FunctionName(Tops[i]) = name

First(name) == CHOOSE i \in Signatures :
    /\ FunctionName(Tops[i]) = name
    /\ \A j \in Signatures : FunctionName(Tops[j]) = name => i <= j

Arity(name) == Argc(Arg(Tops[First(name)], 1))

Duplicates == {Tops[i] : i \in {j \in Signatures : First(FunctionName(Tops[j])) # j}}

-----------------------------------------------------------------------------
(***************************************************************************)
(* What is wrong with a form.  Unless it is accepted, an error is reported *)
(* and there is no node.  If it is accepted but questionable an error is   *)
(* reported and compilation goes on.                                       *)
(***************************************************************************)
(* Mutant: the variadic operators are not checked for two operands.        *)
WrongCountFixed(e) ==
    LET o == Op(e)
        n == Argc(e)
    IN  \/ o \in SensorForms \cup {"stop", "beep"} /\ n # 0
        \/ o \in {"turn-left", "turn-right", "wait", "light", "not"} /\ n # 1
        \/ o \in {"drive", "backward", "-", "/", "set!"} \cup Comparisons /\ n # 2
        \/ o = "if" /\ n # 3
        \/ o \in {"repeat", "when", "while", "define"} /\ n < 1
        \/ o = "define" /\ n > 0 /\ n # 2 /\ ~DefinesFunction(e)
        \/ o \notin Forms /\ Known(o) /\ n # Arity(o)

(* Mutant: a call is not compared with the parameters of its function.     *)
WrongCountBuiltin(e) ==
    LET o == Op(e)
        n == Argc(e)
    IN  \/ o \in SensorForms \cup {"stop", "beep"} /\ n # 0
        \/ o \in {"turn-left", "turn-right", "wait", "light", "not"} /\ n # 1
        \/ o \in {"drive", "backward", "-", "/", "set!"} \cup Comparisons /\ n # 2
        \/ o = "if" /\ n # 3
        \/ o \in {"repeat", "when", "while", "define"} /\ n < 1
        \/ o \in {"+", "*", "and", "or"} /\ n < 2
        \/ o = "define" /\ n > 0 /\ n # 2 /\ ~DefinesFunction(e)

WrongCount(e) ==
    LET o == Op(e)
        n == Argc(e)
    IN  \/ o \in SensorForms \cup {"stop", "beep"} /\ n # 0
        \/ o \in {"turn-left", "turn-right", "wait", "light", "not"} /\ n # 1
        \/ o \in {"drive", "backward", "-", "/", "set!"} \cup Comparisons /\ n # 2
        \/ o = "if" /\ n # 3
        \/ o \in {"repeat", "when", "while", "define"} /\ n < 1
        \/ o \in {"+", "*", "and", "or"} /\ n < 2
        \/ o = "define" /\ n > 0 /\ n # 2 /\ ~DefinesFunction(e)
        \/ o \notin Forms /\ Known(o) /\ n # Arity(o)

Unknown(e) == Op(e) \notin Forms /\ ~Known(Op(e))

(* The name a define or a set! is about.                                   *)
BadTarget(e) ==
    IF DefinesFunction(e)
      THEN ~TopLevel(e) \/ ~IsForm(Arg(e, 1)) \/ FunctionName(e) \in Builtins
      ELSE ~IsSymbol(Arg(e, 1)) \/ Symbol(Arg(e, 1)) \in Reserved

Accepted(e) ==
    /\ IsForm(e)
    /\ ~WrongCount(e)
    /\ ~Unknown(e)
    /\ Op(e) \in {"define", "set!"} => ~BadTarget(e)

(* Mutant: a literal wait is only checked when it is executed.             *)
LiteralRangeNoWait(o, i) ==
    CASE o = "repeat" /\ i = 1                         -> 0 .. RepeatMax
      [] o \in {"drive", "backward"} /\ i = 1          -> 0 .. SpeedMax
      [] o \in {"drive", "backward"} /\ i = 2          -> 0 .. DurationMax
      [] o \in {"turn-left", "turn-right"} /\ i = 1    -> 0 .. TurnMax
      [] OTHER                                         -> Ints

LiteralRange(o, i) ==
    CASE o = "repeat" /\ i = 1                         -> 0 .. RepeatMax
      [] o \in {"drive", "backward"} /\ i = 1          -> 0 .. SpeedMax
      [] o \in {"drive", "backward"} /\ i = 2          -> 0 .. DurationMax
      [] o \in {"turn-left", "turn-right"} /\ i = 1    -> 0 .. TurnMax
      [] o = "wait" /\ i = 1                           -> 0 .. DurationMax
      [] OTHER                                         -> Ints

Questionable(e) ==
    \/ \E i \in 1 .. Argc(e) :
          IsInteger(Arg(e, i)) /\ source.nodes[Arg(e, i)].integer \notin LiteralRange(Op(e), i)
    \/ /\ DefinesFunction(e)
       /\ \E i \in 1 .. Argc(Arg(e, 1)) :
             ~IsSymbol(Arg(Arg(e, 1), i)) \/ Symbol(Arg(Arg(e, 1), i)) \in Reserved

-----------------------------------------------------------------------------
(***************************************************************************)
(* The node of an expression.                                              *)
(***************************************************************************)
(* What is compiled below e, in order; the first ArgCount(e) of them are   *)
(* its args and have to be there, the others its children.                 *)
Operands(e) ==
    IF e = source.whole THEN Tops
    ELSE IF Op(e) \in {"define", "set!"} THEN Tail(Tail(List(e))) ELSE Tail(List(e))

ArgCount(e) ==
    IF e = source.whole \/ Op(e) = "do" \/ DefinesFunction(e) THEN 0
    ELSE IF Op(e) \in {"repeat", "when", "while"} THEN 1 ELSE Len(Operands(e))

FormKind(e) ==
    LET o == Op(e)
    IN  CASE o = "do"                -> "Do"
          [] o = "repeat"            -> "Repeat"
          [] o = "when"              -> "When"
          [] o = "if"                -> "If"
          [] o = "while"             -> "While"
          [] o = "define"            -> IF DefinesFunction(e) THEN "DefineFunc" ELSE "DefineVar"
          [] o = "set!"              -> "SetVar"
          [] o = "drive"             -> "Drive"
          [] o = "backward"          -> "Backward"
          [] o = "turn-left"         -> "TurnLeft"
          [] o = "turn-right"        -> "TurnRight"
          [] o = "stop"              -> "Stop"
          [] o = "wait"              -> "Wait"
          [] o = "light"             -> "Light"
          [] o = "beep"              -> "Beep"
          [] o = "distance-cm"       -> "DistanceCm"
          [] o = "button"            -> "Button"
          [] o = "line-left"         -> "LineLeft"
          [] o = "line-right"        -> "LineRight"
          [] o \in Comparisons       -> "Compare"
          [] o \in BooleanOps        -> "BooleanOp"
          [] o \in ArithmeticOps     -> "Arithmetic"
          [] OTHER                   -> "Call"

NewNode(k, o, num) ==
    [kind |-> k, op |-> o, args |-> <<>>, children |-> <<>>, params |-> <<>>, num |-> num]

ColorNamed(name) == CHOOSE c \in Colors : ColorNames[c + 1] = name

NamedAtom(name) ==
    IF name \in {"true", "false"}
      THEN NewNode("BooleanLiteral", name, IF name = "true" THEN 1 ELSE 0)
    ELSE IF name \in ToSet(ColorNames)
      THEN NewNode("ColorLiteral", name, ColorNamed(name))
    ELSE NewNode("VarRef", name, 0)

Atom(e) ==
    IF IsInteger(e) THEN NewNode("IntegerLiteral", "", source.nodes[e].integer)
                    ELSE NamedAtom(Symbol(e))

(* A parameter that is not a name is left out, with an error: Questionable. *)
Params(e) ==
    LET given == Tail(List(Arg(e, 1)))
        IsName(p) == IsSymbol(p) /\ Symbol(p) \notin Reserved
        named == IF \A i \in DOMAIN given : IsName(given[i]) THEN given ELSE SelectSeq(given, IsName)
    IN  [i \in 1 .. Len(named) |-> Symbol(named[i])]

NodeOp(e) ==
    IF DefinesFunction(e) THEN FunctionName(e)
    ELSE IF Op(e) \in {"define", "set!"} THEN Symbol(Arg(e, 1)) ELSE Op(e)

FormNode(f) ==
    [kind |-> FormKind(f.expr), op |-> NodeOp(f.expr), args |-> f.args, children |-> f.children,
     params |-> IF DefinesFunction(f.expr) THEN Params(f.expr) ELSE <<>>, num |-> 0]

-----------------------------------------------------------------------------
(***************************************************************************)
(* compile() step by step.                                                 *)
(***************************************************************************)
Frame(e) == [expr |-> e, pos |-> 0, args |-> <<>>, children |-> <<>>]

active == frames[Len(frames)]

More == stage = "forms" /\ active.pos < Len(Operands(active.expr))

upcoming == Operands(active.expr)[active.pos + 1]

WithNode(e, node) ==
    [program EXCEPT !.ast = [x \in DOMAIN @ \cup {e} |-> IF x = e THEN node ELSE @[x]]]

(* The frame f gets the node of its next operand, or learns it has none.   *)
Received(f, e) ==
    IF f.pos < ArgCount(f.expr)
      THEN [f EXCEPT !.pos = @ + 1, !.args = Append(@, e)]
      ELSE [f EXCEPT !.pos = @ + 1, !.children = Append(@, e)]

Passed(f) == [f EXCEPT !.pos = @ + 1]

Init ==
    /\ source \in Sources
    /\ program = [root |-> source.whole, ast |-> <<>>]
    /\ stage = "signatures"
    /\ frames = <<>>
    /\ blamed = {}

CollectSignatures ==
    /\ stage = "signatures"
    /\ IF source.exprs = <<>>
         THEN /\ stage' = "over"
              /\ blamed' = IF source.faulty THEN {} ELSE {source.whole}
              /\ UNCHANGED frames
         ELSE /\ stage' = "forms"
              /\ frames' = <<Frame(source.whole)>>
              /\ blamed' = Duplicates
    /\ UNCHANGED <<program, source>>

(* compile_expr of an integer or a symbol.                                 *)
CompileAtom ==
    /\ More /\ ~IsList(upcoming)
    /\ program' = WithNode(upcoming, Atom(upcoming))
    /\ frames' = [frames EXCEPT ![Len(frames)] = Received(@, upcoming)]
    /\ UNCHANGED <<source, stage, blamed>>

(* Mutant: a form that is refused is left out without a word.              *)
RefuseFormQuietly ==
    /\ More /\ IsList(upcoming) /\ ~Accepted(upcoming)
    /\ blamed' = IF IsForm(upcoming) THEN blamed ELSE blamed \cup {upcoming}
    /\ frames' = [frames EXCEPT ![Len(frames)] = Passed(@)]
    /\ UNCHANGED <<program, source, stage>>

RefuseForm ==
    /\ More /\ IsList(upcoming) /\ ~Accepted(upcoming)
    /\ blamed' = blamed \cup {upcoming}
    /\ frames' = [frames EXCEPT ![Len(frames)] = Passed(@)]
    /\ UNCHANGED <<program, source, stage>>

OpenForm ==
    /\ More /\ IsList(upcoming) /\ Accepted(upcoming)
    /\ blamed' = blamed \cup (IF Questionable(upcoming) THEN {upcoming} ELSE {})
    /\ frames' = Append(frames, Frame(upcoming))
    /\ UNCHANGED <<program, source, stage>>

(* A form lacking one of its args has no node either.                      *)
CloseForm ==
    /\ stage = "forms" /\ ~More /\ Len(frames) > 1
    /\ LET e == active.expr
           callers == Front(frames)
           complete == Len(active.args) = ArgCount(e)
       IN  /\ program' = IF complete THEN WithNode(e, FormNode(active)) ELSE program
           /\ frames' = [callers EXCEPT ![Len(callers)] =
                            IF complete THEN Received(@, e) ELSE Passed(@)]
    /\ UNCHANGED <<source, stage, blamed>>

(* A single statement is the root itself, anything else becomes a do.      *)
Finish ==
    /\ stage = "forms" /\ ~More /\ Len(frames) = 1
    /\ stage' = "over"
    /\ program' = IF Len(source.exprs) = 1 /\ ~SingleDo
                    THEN [program EXCEPT !.root = source.exprs[1]]
                    ELSE WithNode(source.whole, [NewNode("Do", "do", 0) EXCEPT !.children = active.children])
    /\ UNCHANGED <<source, frames, blamed>>

Next ==
    \/ CollectSignatures \/ CompileAtom \/ RefuseForm \/ OpenForm \/ CloseForm \/ Finish

(* compile() has returned.                                                 *)
Returned == stage = "over" /\ UNCHANGED compilerVars

Spec == Init /\ [][Next \/ Returned]_compilerVars /\ WF_compilerVars(Next)

(* CompileResult: root != nullptr and no error among the diagnostics.      *)
Rooted == program.root \in DOMAIN program.ast

Ok == stage = "over" /\ Rooted /\ blamed = {} /\ ~source.faulty

(***************************************************************************)
(* assign_node_ids: highlightable nodes are numbered in pre-order, all the *)
(* others keep 0.                                                          *)
(***************************************************************************)
Below(n) == Ast[n].args \o Ast[n].children

PreOrder[n \in Nodes] ==
    (IF Highlightable(n) THEN <<n>> ELSE <<>>)
        \o FlattenSeq([i \in 1 .. Len(Below(n)) |-> PreOrder[Below(n)[i]]])

NodeId(n) ==
    IF Highlightable(n) THEN (CHOOSE i \in 1 .. Len(PreOrder[root]) : PreOrder[root][i] = n) - 1
                        ELSE 0

-----------------------------------------------------------------------------
(***************************************************************************)
(* Properties.                                                             *)
(***************************************************************************)
FrameShapes ==
    [expr : DOMAIN source.nodes \cup {source.whole}, pos : Nat, args : Seq(Nodes), children : Seq(Nodes)]

(* What may be in params depends on the errors, see NodeOK.                *)
Shapes(node) ==
    [kind : NodeKinds, op : STRING, args : Seq(Nodes), children : Seq(Nodes),
     params : {node.params}, num : -MaxInt .. MaxInt]

(* The tree under construction only refers to nodes that exist.            *)
TypeOK ==
    /\ SourceOK(source)
    /\ stage \in Stages
    /\ frames \in Seq(FrameShapes)
    /\ blamed \subseteq DOMAIN source.nodes \cup {source.whole}
    /\ program = [root |-> program.root, ast |-> program.ast]
    /\ Nodes \subseteq DOMAIN source.nodes \cup {source.whole}
    /\ Ast = [n \in Nodes |-> Ast[n]]
    /\ \A n \in Nodes : Ast[n] \in Shapes(Ast[n])

(***************************************************************************)
(* The inductive invariant behind the theorems of CompilerProofs: a node   *)
(* is only made once its operands are there, and a name that is not one is *)
(* never passed over without an error.                                     *)
(***************************************************************************)
NodeOK(n) ==
    /\ ArityOK(Ast[n])
    /\ Ast[n].kind \in {"DefineVar", "SetVar", "VarRef"} => Ast[n].op \in Names
    /\ Ast[n].kind = "ColorLiteral" => Ast[n].num \in Colors
    /\ blamed = {} => Ast[n].params \in Seq(Names)   \* of a function with an error anything is left

FrameOK(i) ==
    LET e == frames[i].expr
    IN  IF i = 1 THEN e = source.whole
        ELSE /\ e \in DOMAIN source.nodes
             /\ Accepted(e)
             /\ blamed = {} => ~Questionable(e)

IInv ==
    /\ TypeOK
    /\ \A n \in Nodes : NodeOK(n)
    /\ \A i \in 1 .. Len(frames) : FrameOK(i)
    /\ stage = "forms" => frames # <<>>
    /\ stage = "signatures" => Nodes = {} /\ frames = <<>>

(* What the engine relies on when it takes n.args[0] or args[2] without a  *)
(* look (engine.cpp:134,164,216): whenever compile() reports no error the  *)
(* tree has every operand, and only names where names are looked up.       *)
OutputWellFormed == Ok => WellFormed(program)

(* No statement and no operand is dropped silently: in a program that      *)
(* compiled every node has all the operands its text has, in their order   *)
(* (the null checks of compiler.cpp:104,156,199,231,246-273), and a source *)
(* that is left without a tree is never left without an error.             *)
NothingLost ==
    /\ Ok => \A n \in Nodes : n = source.whole \/ IsList(n) => Below(n) = Operands(n)
    /\ stage = "over" /\ ~Rooted => blamed # {} \/ source.faulty
=============================================================================
