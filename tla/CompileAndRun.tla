--------------------------- MODULE CompileAndRun ---------------------------
(***************************************************************************)
(* compile_and_run() of src/engine.cpp: the compiler and, if it reports no *)
(* error, the engine on the tree it built.  The two share the tree only;   *)
(* what one of them checks the other relies on, or checks again.           *)
(***************************************************************************)
EXTENDS Engine

CONSTANTS
    Sources,     \* the parsed sources
    RepeatMax,   \* largest literal repeat count
    RunLimits    \* options.limits

VARIABLES
    source, stage, frames, blamed,   \* of the compiler, see Compiler
    launched                         \* execute() was called

C == INSTANCE Compiler

ASSUME RunAssumption ==
    /\ \A s \in Sources : C!SourceOK(s)
    /\ RepeatMax \in 0 .. MaxInt
    /\ Names \subseteq STRING
    /\ {"", "do"} \subseteq STRING     \* true, but the provers have to be told
    /\ RunLimits \subseteq [maxRepeat : Nat, maxSteps : Nat, maxDepth : Nat]

compiler == <<source, stage, frames, blamed>>

runVars == <<vars, compiler, launched>>

RunInit ==
    /\ C!Init
    /\ limits \in RunLimits
    /\ pc = "over" /\ cur = source.whole
    /\ ret = None /\ stack = <<>> /\ env = <<EmptyScope>>
    /\ callDepth = 0 /\ steps = 0
    /\ errored = FALSE /\ cancelled = FALSE
    /\ out = <<>> /\ cancel = FALSE /\ late = 0
    /\ launched = FALSE

Compile ==
    /\ C!Next
    /\ UNCHANGED <<pc, cur, ret, stack, scopes, steps, flags, limits, out, cancel, late, launched>>

(* Mutant: the program is executed whenever there is a tree.               *)
ExecuteRooted ==
    /\ stage = "over" /\ C!Rooted /\ ~launched
    /\ launched' = TRUE
    /\ pc' = "start" /\ cur' = root
    /\ UNCHANGED <<ret, stack, scopes, steps, flags, given, out, late, compiler>>

(* execute() is called on the tree, which is not touched any more.         *)
Execute ==
    /\ C!Ok /\ ~launched
    /\ launched' = TRUE
    /\ pc' = "start" /\ cur' = root
    /\ UNCHANGED <<ret, stack, scopes, steps, flags, given, out, late, compiler>>

Run == EngineStep /\ UNCHANGED <<compiler, launched>>

-----------------------------------------------------------------------------
(* A source with an error moves nothing: it does not even start            *)
(* (docs/integration/protocol.md:93-94, engine.cpp:390-393).               *)
ErrorsDoNotStart == out # <<>> => blamed = {} /\ ~source.faulty

(* Literal arguments are checked when the program is compiled and again    *)
(* when they are used (compiler.cpp:164-170,250-254; engine.cpp:134-247).  *)
(* The two agree: under limits that allow what the compiler allows, a      *)
(* program that compiled never fails because of a literal out of range.    *)
LiteralsNeverFail ==
    pc = "inner" /\ RangeFault /\ limits.maxRepeat >= RepeatMax =>
        \E i \in 1 .. Operands : Ast[Ast[top.node].args[i]].kind # "IntegerLiteral"

(* No call of a program that compiled is to an undefined function, and     *)
(* each parameter gets an argument: the two failures of call_function that *)
(* the compiler rules out (engine.cpp:79-83,101-103).                      *)
CallsNeverFail ==
    pc = "inner" /\ kind = "Call" =>
        /\ Defined(op)
        /\ Len(Ast[top.node].args) = Len(Parameters(FunctionNamed(op)))
============================================================================
