-------------------------------- MODULE Ast --------------------------------
(***************************************************************************)
(* The data the engine works on: the syntax tree the compiler hands over   *)
(* (include/cardcode/ast.hpp), runtime values (include/cardcode/value.hpp) *)
(* and the 64-bit arithmetic of the operators.                             *)
(*                                                                         *)
(* A program is a table of nodes: Ast[n] is the node with identity n.      *)
(* Where n is in the text, its span, is the identity: no two nodes share   *)
(* one.  The id an event carries beside it is another matter, see IdOf.    *)
(***************************************************************************)
EXTENDS Integers, Sequences, FiniteSets

CONSTANTS
    Names,        \* variable and parameter names
    MaxInt,       \* largest integer value (2^63 - 1 in the code)
    SpeedMax,     \* largest drive speed (100 in the code)
    DurationMax,  \* largest duration of a drive or a wait (10000)
    TurnMax       \* largest turn (3600)

VARIABLE program  \* the tree execute() was given: its root and its nodes

root == program.root

Ast == program.ast

Nodes == DOMAIN program.ast

(***************************************************************************)
(* Values.  Booleans are 0 and 1, colours 0..5, None is 0: the field v is  *)
(* the member of struct Value that the kind selects.                       *)
(***************************************************************************)
MinInt == -MaxInt - 1

Ints == MinInt .. MaxInt

None == [kind |-> "None", v |-> 0]

Integer(i) == [kind |-> "Integer", v |-> i]

Boolean(b) == [kind |-> "Boolean", v |-> IF b THEN 1 ELSE 0]

Color(c) == [kind |-> "Color", v |-> c]

Colors == 0 .. 5

Values ==
    {None, Boolean(TRUE), Boolean(FALSE)} \cup {Integer(i) : i \in Ints} \cup {Color(c) : c \in Colors}

Truthy(val) ==
    \/ val.kind = "Color"
    \/ val.kind \in {"Integer", "Boolean"} /\ val.v # 0

(***************************************************************************)
(* Node kinds.                                                             *)
(***************************************************************************)
Moves == {"Drive", "Backward"}

Turns == {"TurnLeft", "TurnRight"}

Commands == Moves \cup Turns \cup {"Stop", "Wait", "Light", "Beep"}

Sensors == {"DistanceCm", "Button", "LineLeft", "LineRight"}

Literals == {"IntegerLiteral", "BooleanLiteral", "ColorLiteral"}

Operators == {"Compare", "BooleanOp", "Arithmetic"}

Control == {"Do", "Repeat", "When", "If", "While"}

NodeKinds ==
    Commands \cup Sensors \cup Literals \cup Operators \cup Control
        \cup {"DefineVar", "DefineFunc", "SetVar", "VarRef", "Call"}

HighlightableKinds ==
    Control \cup Commands \cup Sensors \cup {"DefineVar", "SetVar", "Call"}

Highlightable(n) == Ast[n].kind \in HighlightableKinds

(***************************************************************************)
(* The id of a node.  The highlightable nodes are numbered from 0 in the   *)
(* order of the text, parents first (Compiler!NodeId); every other node    *)
(* keeps the 0 it was made with, and so shares it with the first of those, *)
(* which is the root unless the program is no more than an expression.     *)
(* Here an id is the highlightable node it belongs to, and the root where  *)
(* none has one.                                                           *)
(***************************************************************************)
FirstNumbered[n \in Nodes] ==
    LET parts == Ast[n].args \o Ast[n].children
        firsts == [i \in 1 .. Len(parts) |-> FirstNumbered[parts[i]]]
        numbered == {i \in 1 .. Len(parts) : Highlightable(firsts[i])}
    IN  IF Highlightable(n) \/ numbered = {} THEN n
        ELSE firsts[CHOOSE i \in numbered : \A j \in numbered : i <= j]

IdOf(n) == IF Highlightable(n) THEN n ELSE FirstNumbered[root]

(***************************************************************************)
(* What compile() guarantees of a tree it returns without an error.        *)
(***************************************************************************)
OneOperand ==
    Turns \cup {"Wait", "Light", "DefineVar", "SetVar", "Repeat", "When", "While"}

Childless == {"Stop", "Beep", "VarRef", "DefineFunc"} \cup Sensors \cup Literals

ArityOK(n) ==
    LET args == Len(n.args)
    IN  /\ n.kind \in OneOperand => args = 1
        /\ n.kind \in Moves \cup {"Compare"} => args = 2
        /\ n.kind = "If" => args = 3
        /\ n.kind \in Childless => args = 0
        /\ n.kind = "Arithmetic" => args >= 2 /\ n.op \in {"+", "-", "*", "/"}
        /\ n.kind = "BooleanOp" => IF n.op = "not" THEN args = 1 ELSE args >= 2

WellFormed(p) ==
    LET ids == DOMAIN p.ast
        nodes == [kind : NodeKinds, op : STRING, args : Seq(ids), children : Seq(ids),
                  params : Seq(Names), num : -MaxInt .. MaxInt]
    IN  /\ p = [root |-> p.root, ast |-> p.ast]
        /\ p.root \in ids
        /\ p.ast \in [ids -> nodes]
        /\ \A i \in ids :
              /\ ArityOK(p.ast[i])
              /\ p.ast[i].kind \in {"DefineVar", "SetVar", "VarRef"} => p.ast[i].op \in Names
              /\ p.ast[i].kind = "ColorLiteral" => p.ast[i].num \in Colors

ASSUME BoundsAssumption ==
    /\ MaxInt \in Nat /\ MaxInt >= 5
    /\ SpeedMax \in 0 .. MaxInt
    /\ DurationMax \in 0 .. MaxInt
    /\ TurnMax \in 0 .. MaxInt

(***************************************************************************)
(* Arithmetic of std::int64_t.  Division truncates towards zero; results   *)
(* outside the width wrap around, which is what the overflow the language  *)
(* leaves undefined does in the builds the project ships.                  *)
(***************************************************************************)
Wrap(x) == ((x + MaxInt + 1) % (2 * (MaxInt + 1))) - (MaxInt + 1)

AbsVal(x) == IF x < 0 THEN -x ELSE x

Quotient(x, y) ==
    IF (x < 0) = (y < 0) THEN AbsVal(x) \div AbsVal(y)
                         ELSE -(AbsVal(x) \div AbsVal(y))

(* Mutant: results are not confined to the width of the type.              *)
ApplyUnbounded(op, x, y) ==
    CASE op = "+" -> x + y
      [] op = "-" -> x - y
      [] op = "*" -> x * y
      [] OTHER    -> Quotient(x, y)

Apply(op, x, y) ==
    CASE op = "+" -> Wrap(x + y)
      [] op = "-" -> Wrap(x - y)
      [] op = "*" -> Wrap(x * y)
      [] OTHER    -> Wrap(Quotient(x, y))

Holds(op, x, y) ==
    CASE op = "<"  -> x < y
      [] op = ">"  -> x > y
      [] op = "="  -> x = y
      [] op = "<=" -> x <= y
      [] OTHER     -> x >= y
============================================================================
