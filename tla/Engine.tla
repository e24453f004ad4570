------------------------------- MODULE Engine -------------------------------
(***************************************************************************)
(* The interpreter of src/engine.cpp: one call of execute() on one         *)
(* program, while another thread may raise the cancel flag at any moment.  *)
(*                                                                         *)
(* The C++ call stack is the variable stack: a frame is one active call of *)
(* eval_inner.  A step does at most one thing the outside can tell apart:  *)
(* read the cancel flag, emit one message or read one sensor.              *)
(***************************************************************************)
EXTENDS Ast, SequencesExt

CONSTANTS
    Programs,        \* the programs a caller may pass
    Limits,          \* the ExecutionLimits a caller may pass
    SensorValues     \* sensor kind -> integers (or 0/1) the host may answer

ASSUME EngineAssumption ==
    /\ \A p \in Programs : WellFormed(p)
    /\ Limits \subseteq [maxRepeat : Nat, maxSteps : Nat, maxDepth : Nat]
    /\ SensorValues \in [Sensors -> SUBSET Ints]

(* A node owns its operands and statements (ast.hpp: unique_ptr), so a     *)
(* program is a finite tree and every node of it has a height.             *)
Owned(p, n) == ToSet(p.ast[n].args) \cup ToSet(p.ast[n].children)

HeightIn(p) ==
    LET height[n \in DOMAIN p.ast] == 1 + Max({0} \cup {height[m] : m \in Owned(p, n)})
    IN  height

ASSUME TreeAssumption ==
    \A p \in Programs :
        /\ HeightIn(p) \in [DOMAIN p.ast -> Nat \ {0}]
        /\ \A n \in DOMAIN p.ast : \A m \in Owned(p, n) : HeightIn(p)[m] < HeightIn(p)[n]

VARIABLES
    pc,          \* where the thread inside execute() is, see PCs
    cur,         \* the node eval() is being called on
    ret,         \* the value the innermost active call returns
    stack,       \* active calls of eval_inner, outermost first
    env,         \* variable scopes: env[1] is global, the last is current
    callDepth,   \* ExecState::call_depth
    steps,       \* ExecState::steps
    errored,     \* ExecState::errored
    cancelled,   \* ExecState::cancelled
    limits,      \* the limits the program is executed under
    out,         \* everything sent to the event sink and the robot, in order
    cancel,      \* the atomic flag another thread may set
    late         \* history: actuator commands issued while cancel was set

interpreter == <<pc, cur, ret, stack, env, callDepth, steps, errored, cancelled,
                 program, limits, late>>

vars == <<interpreter, out, cancel>>

scopes == <<env, callDepth>>

flags == <<errored, cancelled>>

given == <<program, limits, cancel>>

-----------------------------------------------------------------------------
(***************************************************************************)
(* Shapes.                                                                 *)
(***************************************************************************)
PCs == {"start",    \* execute() was called
        "enter",    \* in eval(cur), before the cancel flag is read
        "begin",    \* in eval(cur), past the cancel check
        "inner",    \* in eval_inner of the top frame's node
        "leave",    \* eval_inner of the top frame's node returned ret
        "unwind",   \* stopping(): every active call is returning
        "finish",   \* back in execute()
        "report",   \* robot.stop() was called after an error
        "over",     \* execute() returned
        "trapped"}  \* the processor trapped the process

Unbound == [kind |-> "Unbound", v |-> 0]

Slots == Values \cup {Unbound}

Scopes == [Names -> Slots]

EmptyScope == [x \in Names |-> Unbound]

(* A frame is eval_inner(node, scope).  Its stage is "args" while operands *)
(* are evaluated, "loop" before an iteration, "body" while statements are  *)
(* evaluated, "skip" while they are reported as skipped and "done" after   *)
(* the body of a function.  pos counts the subtrees the stage is through   *)
(* with, vals holds the operands still needed, left the iterations to go   *)
(* and last the value of the latest statement.                             *)
Stages == {"args", "loop", "body", "skip", "done"}

Frames == [node : Nodes, scope : Nat, stage : Stages, pos : Nat, vals : Seq(Values),
           left : Nat, last : Values]

NewFrame(n) ==
    [node |-> n, scope |-> Len(env),
     stage |-> CASE Ast[n].kind = "While" -> "loop"
                 [] Ast[n].kind = "Do"    -> "body"
                 [] OTHER                 -> "args",
     pos |-> 0, vals |-> <<>>, left |-> 0, last |-> None]

(***************************************************************************)
(* Messages.                                                               *)
(***************************************************************************)
ProgramEvent(type) == [type |-> type]

(* A node event says where the node is in the text and gives its id.       *)
NodeEvent(type, n) == [type |-> type, node |-> n, id |-> IdOf(n)]

NodeEvents == {"nodeStart", "nodeDone", "nodeSkipped", "nodeError"}

RobotCommand(k, args) == [type |-> "robotCommand", command |-> k, args |-> args]

SensorRead(k, v) == [type |-> "sensorRead", sensor |-> k, value |-> v]

Messages ==
    [type : {"programStart", "programDone", "programError"}]
        \cup [type : NodeEvents, node : Nodes, id : {IdOf(n) : n \in Nodes}]
        \cup [type : {"robotCommand"}, command : Commands, args : Seq(Values)]
        \cup [type : {"sensorRead"}, sensor : Sensors, value : Ints]

Emit(m) == out' = Append(out, m)

-----------------------------------------------------------------------------
(***************************************************************************)
(* The top frame and what it still has to do.                              *)
(***************************************************************************)
top == stack[Len(stack)]

kind == Ast[top.node].kind

op == Ast[top.node].op

(* collect_functions: the root itself or a direct child of the root.       *)
Functions ==
    {n \in {root} \cup ToSet(Ast[root].children) : Ast[n].kind = "DefineFunc"}

Defined(name) == \E n \in Functions : Ast[n].op = name

FunctionNamed(name) == CHOOSE n \in Functions : Ast[n].op = name

(* The statements a frame runs: a call runs those of the function.         *)
Body(n) ==
    IF Ast[n].kind = "Call" THEN Ast[FunctionNamed(Ast[n].op)].children
                            ELSE Ast[n].children

Local(name) == env[top.scope][name]

Lookup(name) == IF Local(name) # Unbound THEN Local(name) ELSE env[1][name]

(* Short circuit: the last operand of and/or settles the result.           *)
Decided ==
    /\ kind = "BooleanOp" /\ op # "not" /\ top.vals # <<>>
    /\ Truthy(Last(top.vals)) = (op # "and")

(* The operands evaluated in order: of an if, repeat, when or while only   *)
(* the first; of and/or none after the one that settles the result.        *)
Operands ==
    IF kind \in {"Repeat", "When", "If", "While"} THEN 1 ELSE Len(Ast[top.node].args)

OperandsDone == top.stage = "args" /\ (top.pos >= Operands \/ Decided)

(***************************************************************************)
(* The calls of fail() in eval_inner, each by the condition that leads to  *)
(* it.  A frame is looked at after every operand, so a wrong operand fails *)
(* before the next one is evaluated where the code checks it that early.   *)
(***************************************************************************)
AllOperands(k) == \A i \in DOMAIN top.vals : top.vals[i].kind = k

OperandFault ==
    /\ top.stage = "args"
    /\ \/ kind \in Moves \cup Turns \cup {"Wait", "Repeat", "Arithmetic"} /\ ~AllOperands("Integer")
       \/ kind = "Compare" /\ OperandsDone /\ ~AllOperands("Integer")
       \/ kind = "Light" /\ ~AllOperands("Color")
       \/ kind = "Arithmetic" /\ op = "/" /\ Len(top.vals) = 2 /\ top.vals[2].v = 0

(* Mutant: the duration of a move is not checked, only its speed.          *)
RangeFaultSpeedOnly ==
    /\ OperandsDone
    /\ \/ kind = "Repeat" /\ top.vals[1].v \notin 0 .. limits.maxRepeat
       \/ kind \in Moves /\ top.vals[1].v \notin 0 .. SpeedMax
       \/ kind \in Turns /\ top.vals[1].v \notin 0 .. TurnMax
       \/ kind = "Wait" /\ top.vals[1].v \notin 0 .. DurationMax

RangeFault ==
    /\ OperandsDone
    /\ \/ kind = "Repeat" /\ top.vals[1].v \notin 0 .. limits.maxRepeat
       \/ kind \in Moves /\ (\/ top.vals[1].v \notin 0 .. SpeedMax
                             \/ top.vals[2].v \notin 0 .. DurationMax)
       \/ kind \in Turns /\ top.vals[1].v \notin 0 .. TurnMax
       \/ kind = "Wait" /\ top.vals[1].v \notin 0 .. DurationMax

NameFault ==
    \/ kind = "Call" /\ ~Defined(op)
    \/ kind \in {"VarRef", "SetVar"} /\ OperandsDone /\ Lookup(op) = Unbound

LimitFault ==
    \/ kind = "Call" /\ OperandsDone /\ callDepth >= limits.maxDepth
    \/ kind = "While" /\ top.stage = "loop" /\ steps >= limits.maxSteps

Faulty == OperandFault \/ RangeFault \/ NameFault \/ LimitFault
-----------------------------------------------------------------------------
(***************************************************************************)
(* execute() before the program, and eval() around eval_inner.             *)
(***************************************************************************)
Init ==
    /\ program \in Programs
    /\ limits \in Limits
    /\ pc = "start"
    /\ cur = root
    /\ ret = None
    /\ stack = <<>>
    /\ env = <<EmptyScope>>
    /\ callDepth = 0
    /\ steps = 0
    /\ errored = FALSE
    /\ cancelled = FALSE
    /\ out = <<>>
    /\ cancel = FALSE
    /\ late = 0

Start ==
    /\ pc = "start"
    /\ Emit(ProgramEvent("programStart"))
    /\ pc' = "enter"
    /\ UNCHANGED <<cur, ret, stack, scopes, steps, flags, given, late>>

(* Mutant: the flag is read only where a step is counted.                  *)
PollHighlightable ==
    /\ pc = "enter"
    /\ cancelled' = (cancel /\ Highlightable(cur))
    /\ pc' = IF cancelled' THEN "unwind" ELSE "begin"
    /\ UNCHANGED <<cur, ret, stack, scopes, steps, errored, given, out, late>>

Poll ==
    /\ pc = "enter"
    /\ cancelled' = cancel
    /\ pc' = IF cancel THEN "unwind" ELSE "begin"
    /\ UNCHANGED <<cur, ret, stack, scopes, steps, errored, given, out, late>>

Begin ==
    /\ pc = "begin"
    /\ IF Highlightable(cur)
          THEN /\ steps < limits.maxSteps
               /\ steps' = steps + 1
               /\ Emit(NodeEvent("nodeStart", cur))
          ELSE UNCHANGED <<steps, out>>
    /\ stack' = Append(stack, NewFrame(cur))
    /\ pc' = "inner"
    /\ UNCHANGED <<cur, ret, scopes, flags, given, late>>

(* fail(): the error is reported at once, then every active call returns.  *)
Fail(n) ==
    /\ errored' = TRUE
    /\ Emit(NodeEvent("nodeError", n))
    /\ pc' = "unwind"
    /\ UNCHANGED <<cur, ret, stack, scopes, steps, cancelled, given, late>>

StepLimit ==
    /\ pc = "begin" /\ Highlightable(cur) /\ steps >= limits.maxSteps
    /\ Fail(cur)

RuntimeError ==
    /\ pc = "inner" /\ Faulty
    /\ Fail(top.node)

(* The value of a call reaches its caller: as an operand or as the value   *)
(* of the latest statement.                                                *)
Deliver(f, val) ==
    IF f.stage = "args" THEN [f EXCEPT !.pos = @ + 1, !.vals = Append(@, val)]
                        ELSE [f EXCEPT !.pos = @ + 1, !.last = val]

Leave ==
    /\ pc = "leave"
    /\ out' = IF Highlightable(top.node)
                THEN Append(out, NodeEvent("nodeDone", top.node)) ELSE out
    /\ LET callers == Front(stack)
       IN  IF callers = <<>>
             THEN stack' = <<>> /\ pc' = "finish"
             ELSE /\ stack' = [callers EXCEPT ![Len(callers)] = Deliver(@, ret)]
                  /\ pc' = "inner"
    /\ UNCHANGED <<cur, ret, scopes, steps, flags, given, late>>

(* stopping(): calls return one after the other without a further effect,  *)
(* except that a function call still leaves its scope.                     *)
Unwind ==
    /\ pc = "unwind"
    /\ IF stack = <<>>
         THEN pc' = "finish" /\ UNCHANGED <<stack, env, callDepth>>
         ELSE /\ stack' = Front(stack)
              /\ IF kind = "Call" /\ top.stage = "body"
                   THEN env' = Front(env) /\ callDepth' = callDepth - 1
                   ELSE UNCHANGED <<env, callDepth>>
              /\ UNCHANGED pc
    /\ UNCHANGED <<cur, ret, steps, flags, given, out, late>>

(* execute() after the program.                                            *)
(* Mutant: only an error stops the robot, a cancel does not.               *)
StopRobotOnError ==
    /\ pc = "finish" /\ (cancelled \/ errored)
    /\ IF errored THEN Emit(RobotCommand("Stop", <<>>)) ELSE UNCHANGED out
    /\ pc' = "report"
    /\ UNCHANGED <<cur, ret, stack, scopes, steps, flags, given, late>>

StopRobot ==
    /\ pc = "finish" /\ (cancelled \/ errored)
    /\ Emit(RobotCommand("Stop", <<>>))
    /\ pc' = "report"
    /\ UNCHANGED <<cur, ret, stack, scopes, steps, flags, given, late>>

(* Mutant: after an error execute() goes on to report success as well.     *)
FinishFallsThrough ==
    /\ \/ pc = "report"
            /\ out' = out \o <<ProgramEvent("programError"), ProgramEvent("programDone")>>
       \/ pc = "finish" /\ ~(cancelled \/ errored) /\ Emit(ProgramEvent("programDone"))
    /\ pc' = "over"
    /\ UNCHANGED <<cur, ret, stack, scopes, steps, flags, given, late>>

Finish ==
    /\ \/ pc = "report" /\ Emit(ProgramEvent("programError"))
       \/ pc = "finish" /\ ~(cancelled \/ errored) /\ Emit(ProgramEvent("programDone"))
    /\ pc' = "over"
    /\ UNCHANGED <<cur, ret, stack, scopes, steps, flags, given, late>>

-----------------------------------------------------------------------------
(***************************************************************************)
(* eval_inner, one action per thing it does between two calls of eval.     *)
(* Inner is the guard they share: no call of fail() is due.                *)
(***************************************************************************)
Inner == pc = "inner" /\ ~Faulty

TopBecomes(f) == stack' = [stack EXCEPT ![Len(stack)] = f]

Return(val) ==
    /\ ret' = val
    /\ pc' = "leave"

Eval(n) ==
    /\ cur' = n
    /\ pc' = "enter"

EvalOperand ==
    /\ Inner
    /\ top.stage = "args" /\ ~OperandsDone
    /\ kind = "Arithmetic" => Len(top.vals) < 2
    /\ Eval(Ast[top.node].args[top.pos + 1])
    /\ UNCHANGED <<ret, stack, scopes, steps, flags, given, out, late>>

(* acc op= v, before the next operand is evaluated.                        *)
Accumulate ==
    /\ Inner
    /\ kind = "Arithmetic" /\ top.stage = "args" /\ Len(top.vals) = 2
    /\ TopBecomes([top EXCEPT !.vals =
                      <<Integer(Apply(op, top.vals[1].v, top.vals[2].v))>>])
    /\ UNCHANGED <<pc, cur, ret, scopes, steps, flags, given, out, late>>

(* The smallest integer divided by -1 has no representable result: where   *)
(* the divide instruction traps, the process is gone.                      *)
Trap ==
    /\ Inner
    /\ kind = "Arithmetic" /\ op = "/" /\ top.stage = "args" /\ Len(top.vals) = 2
    /\ top.vals[1].v = MinInt /\ top.vals[2].v = -1
    /\ pc' = "trapped"
    /\ UNCHANGED <<cur, ret, stack, scopes, steps, flags, given, out, late>>

(* Literals, operators, variable references; a function definition was     *)
(* registered beforehand and has no effect when it is reached.             *)
Result ==
    CASE kind = "IntegerLiteral" -> Integer(Ast[top.node].num)
      [] kind = "BooleanLiteral" -> Boolean(Ast[top.node].num # 0)
      [] kind = "ColorLiteral"   -> Color(Ast[top.node].num)
      [] kind = "VarRef"         -> Lookup(op)
      [] kind = "Compare"        -> Boolean(Holds(op, top.vals[1].v, top.vals[2].v))
      [] kind = "Arithmetic"     -> top.vals[1]
      [] kind = "BooleanOp"      -> Boolean(Truthy(Last(top.vals)) = (op # "not"))
      [] OTHER                   -> None

GiveResult ==
    /\ Inner
    /\ kind \in Literals \cup Operators \cup {"VarRef", "DefineFunc"} /\ OperandsDone
    /\ kind = "Arithmetic" => Len(top.vals) = 1
    /\ Return(Result)
    /\ UNCHANGED <<cur, stack, scopes, steps, flags, given, out, late>>

(* define binds in the current scope, set! where the name is found.        *)
(* Mutant: set! looks through the scopes of the callers as well.           *)
AssignDynamic ==
    /\ Inner
    /\ kind \in {"DefineVar", "SetVar"} /\ OperandsDone
    /\ LET scope == IF kind = "DefineVar" THEN top.scope
                    ELSE Max({i \in DOMAIN env : env[i][op] # Unbound})
       IN  env' = [env EXCEPT ![scope][op] = top.vals[1]]
    /\ Return(top.vals[1])
    /\ UNCHANGED <<cur, stack, callDepth, steps, flags, given, out, late>>

Assign ==
    /\ Inner
    /\ kind \in {"DefineVar", "SetVar"} /\ OperandsDone
    /\ LET scope == IF kind = "DefineVar" \/ Local(op) # Unbound THEN top.scope ELSE 1
       IN  env' = [env EXCEPT ![scope][op] = top.vals[1]]
    /\ Return(top.vals[1])
    /\ UNCHANGED <<cur, stack, callDepth, steps, flags, given, out, late>>

Command ==
    /\ Inner
    /\ kind \in Commands /\ OperandsDone
    /\ Emit(RobotCommand(kind, top.vals))
    /\ late' = late + (IF cancel THEN 1 ELSE 0)
    /\ Return(None)
    /\ UNCHANGED <<cur, stack, scopes, steps, flags, given>>

(* The host answers v; the harness echoes it as it reads it.               *)
ReadSensor(v) ==
    /\ Inner
    /\ kind \in Sensors /\ OperandsDone
    /\ Emit(SensorRead(kind, v))
    /\ Return(IF kind = "DistanceCm" THEN Integer(v) ELSE Boolean(v = 1))
    /\ UNCHANGED <<cur, stack, scopes, steps, flags, given, late>>

(* if: the branch not taken is reported, the other is evaluated.           *)
ChooseBranch ==
    /\ Inner
    /\ kind = "If" /\ top.stage = "args" /\ top.pos = 1
    /\ LET taken == IF Truthy(top.vals[1]) THEN 2 ELSE 3
       IN  /\ Emit(NodeEvent("nodeSkipped", Ast[top.node].args[5 - taken]))
           /\ Eval(Ast[top.node].args[taken])
    /\ UNCHANGED <<ret, stack, scopes, steps, flags, given, late>>

EndIf ==
    /\ Inner
    /\ kind = "If" /\ top.stage = "args" /\ top.pos = 2
    /\ Return(top.vals[2])
    /\ UNCHANGED <<cur, stack, scopes, steps, flags, given, out, late>>

-----------------------------------------------------------------------------
(* The condition of when and while, the count of repeat.                   *)
StartBody ==
    /\ Inner
    /\ kind \in {"When", "While", "Repeat"} /\ OperandsDone
    /\ IF kind = "While" /\ ~Truthy(top.vals[1])
         THEN Return(None) /\ UNCHANGED stack
         ELSE /\ TopBecomes([top EXCEPT
                     !.stage = IF kind = "Repeat" THEN "loop"
                               ELSE IF Truthy(top.vals[1]) THEN "body" ELSE "skip",
                     !.pos = 0,
                     !.left = IF kind = "Repeat" THEN top.vals[1].v ELSE 0])
              /\ UNCHANGED <<pc, ret>>
    /\ UNCHANGED <<cur, scopes, steps, flags, given, out, late>>

(* Every iteration of while costs a step, even if its body emits nothing.  *)
(* Mutant: an iteration of while is free, only highlighted nodes count.    *)
IterateFree ==
    /\ Inner
    /\ top.stage = "loop"
    /\ IF kind = "Repeat" /\ top.left = 0
         THEN Return(None) /\ UNCHANGED stack
         ELSE /\ TopBecomes(IF kind = "Repeat"
                     THEN [top EXCEPT !.stage = "body", !.pos = 0, !.left = @ - 1]
                     ELSE [top EXCEPT !.stage = "args", !.pos = 0, !.vals = <<>>])
              /\ UNCHANGED <<pc, ret>>
    /\ UNCHANGED <<cur, scopes, steps, flags, given, out, late>>

Iterate ==
    /\ Inner
    /\ top.stage = "loop"
    /\ IF kind = "Repeat" /\ top.left = 0
         THEN Return(None) /\ UNCHANGED <<stack, steps>>
         ELSE /\ TopBecomes(IF kind = "Repeat"
                     THEN [top EXCEPT !.stage = "body", !.pos = 0, !.left = @ - 1]
                     ELSE [top EXCEPT !.stage = "args", !.pos = 0, !.vals = <<>>])
              /\ steps' = steps + (IF kind = "While" THEN 1 ELSE 0)
              /\ UNCHANGED <<pc, ret>>
    /\ UNCHANGED <<cur, scopes, flags, given, out, late>>

(* The scope of a call: parameters in order, a later one of the same name  *)
(* wins, one without an argument is None.                                  *)
Parameters(n) == Ast[n].params

Bindings(n, vals) ==
    [x \in Names |->
        LET at == {i \in 1 .. Len(Parameters(n)) : Parameters(n)[i] = x}
        IN  IF at = {} THEN Unbound
            ELSE IF Max(at) \in DOMAIN vals THEN vals[Max(at)] ELSE None]

(* Mutant: a call does not raise the depth the limit is checked against.   *)
CallUncounted ==
    /\ Inner
    /\ kind = "Call" /\ OperandsDone
    /\ env' = Append(env, Bindings(FunctionNamed(op), top.vals))
    /\ TopBecomes([top EXCEPT !.stage = "body", !.pos = 0])
    /\ UNCHANGED <<pc, cur, ret, callDepth, steps, flags, given, out, late>>

Call ==
    /\ Inner
    /\ kind = "Call" /\ OperandsDone
    /\ env' = Append(env, Bindings(FunctionNamed(op), top.vals))
    /\ callDepth' = callDepth + 1
    /\ TopBecomes([top EXCEPT !.stage = "body", !.pos = 0])
    /\ UNCHANGED <<pc, cur, ret, steps, flags, given, out, late>>

NextStatement ==
    /\ Inner
    /\ top.stage = "body" /\ top.pos < Len(Body(top.node))
    /\ Eval(Body(top.node)[top.pos + 1])
    /\ UNCHANGED <<ret, stack, scopes, steps, flags, given, out, late>>

SkipStatement ==
    /\ Inner
    /\ top.stage = "skip" /\ top.pos < Len(Body(top.node))
    /\ Emit(NodeEvent("nodeSkipped", Body(top.node)[top.pos + 1]))
    /\ TopBecomes([top EXCEPT !.pos = @ + 1])
    /\ UNCHANGED <<pc, cur, ret, scopes, steps, flags, given, late>>

(* Mutant: the depth is lowered only where a call is cut short.            *)
EndBodyKeepsDepth ==
    /\ Inner
    /\ top.stage \in {"body", "skip"} /\ top.pos >= Len(Body(top.node))
    /\ IF kind \in {"Repeat", "While"}
         THEN /\ TopBecomes([top EXCEPT !.stage = "loop"])
              /\ UNCHANGED <<pc, ret, env>>
         ELSE /\ Return(top.last)
              /\ IF kind = "Call"
                   THEN /\ env' = Front(env)
                        /\ TopBecomes([top EXCEPT !.stage = "done"])
                   ELSE UNCHANGED <<env, stack>>
    /\ UNCHANGED <<cur, callDepth, steps, flags, given, out, late>>

EndBody ==
    /\ Inner
    /\ top.stage \in {"body", "skip"} /\ top.pos >= Len(Body(top.node))
    /\ IF kind \in {"Repeat", "While"}
         THEN /\ TopBecomes([top EXCEPT !.stage = "loop"])
              /\ UNCHANGED <<pc, ret, env, callDepth>>
         ELSE /\ Return(top.last)
              /\ IF kind = "Call"
                   THEN /\ env' = Front(env) /\ callDepth' = callDepth - 1
                        /\ TopBecomes([top EXCEPT !.stage = "done"])
                   ELSE UNCHANGED <<env, callDepth, stack>>
    /\ UNCHANGED <<cur, steps, flags, given, out, late>>

-----------------------------------------------------------------------------
(* Everything the thread does by itself; a sensor read needs the host.     *)
Interpret ==
    \/ Start \/ Poll \/ Begin \/ StepLimit \/ RuntimeError \/ Leave \/ Unwind
    \/ StopRobot \/ Finish
    \/ EvalOperand \/ Accumulate \/ Trap \/ GiveResult \/ Assign \/ Command
    \/ ChooseBranch \/ EndIf \/ StartBody \/ Iterate \/ Call
    \/ NextStatement \/ SkipStatement \/ EndBody

HostAnswers ==
    /\ pc = "inner" /\ kind \in Sensors
    /\ \E v \in SensorValues[kind] : ReadSensor(v)

EngineStep == Interpret \/ HostAnswers

(* Another thread raises the flag, once and at any moment of the call.     *)
RequestCancel ==
    /\ ~cancel /\ pc \notin {"over", "trapped"}
    /\ cancel' = TRUE
    /\ UNCHANGED <<interpreter, out>>

(* The call has returned or the process is gone: nothing is left to do.    *)
Terminated ==
    /\ pc \in {"over", "trapped"}
    /\ UNCHANGED vars

Next == EngineStep \/ RequestCancel \/ Terminated

Spec == Init /\ [][Next]_vars /\ WF_vars(EngineStep)
-----------------------------------------------------------------------------
(***************************************************************************)
(* Properties.                                                             *)
(***************************************************************************)
(* The shape of the interpreter's own state: no value leaves the width of  *)
(* std::int64_t, and scopes bind names to values.                          *)
InterpreterOK ==
    /\ pc \in PCs
    /\ cur \in Nodes
    /\ ret \in Values
    /\ stack \in Seq(Frames)
    /\ env \in Seq(Scopes) /\ env # <<>>
    /\ callDepth \in Nat /\ steps \in Nat /\ late \in Nat
    /\ errored \in BOOLEAN /\ cancelled \in BOOLEAN /\ cancel \in BOOLEAN
    /\ WellFormed(program)
    /\ limits \in [maxRepeat : Nat, maxSteps : Nat, maxDepth : Nat]

(* Every variable keeps its shape, the messages sent included.             *)
TypeOK == InterpreterOK /\ out \in Seq(Messages)

(***************************************************************************)
(* The inductive invariant behind the theorems of EngineProofs.            *)
(***************************************************************************)
Calling(f) == Ast[f.node].kind = "Call" /\ f.stage = "body"

(* The operands a frame has collected are those it has evaluated, except   *)
(* that arithmetic folds them as it goes.                                  *)
FrameOK(f) ==
    /\ f.stage = "skip" => Ast[f.node].kind = "When"
    /\ f.stage = "loop" => Ast[f.node].kind \in {"Repeat", "While"}
    /\ f.stage = "args" =>
          /\ f.pos <= Len(Ast[f.node].args)
          /\ IF Ast[f.node].kind = "Arithmetic" THEN f.pos > 0 => f.vals # <<>>
                                                 ELSE Len(f.vals) = f.pos

Waiting(f) == f.stage = "args" => f.pos < Len(Ast[f.node].args)

(* A frame's scope is that of its caller, or one deeper under a call.      *)
ScopeUnder(f) == IF Calling(f) THEN f.scope + 1 ELSE f.scope

(* The active calls nest, and there is one scope per function body.        *)
Nested ==
    /\ stack # <<>> => stack[1].scope = 1
    /\ \A i \in 1 .. Len(stack) :
          /\ FrameOK(stack[i])
          /\ stack[i].scope >= 1
          /\ i < Len(stack) => /\ Waiting(stack[i])
                               /\ stack[i + 1].scope = ScopeUnder(stack[i])
    /\ Len(env) = IF stack = <<>> THEN 1 ELSE ScopeUnder(top)
    /\ callDepth = Len(env) - 1

StackOK ==
    /\ Nested
    /\ pc = "start" => stack = <<>>
    /\ pc \in {"inner", "leave"} => stack # <<>>
    /\ pc = "leave" => ~Calling(top)
    /\ pc \in {"enter", "begin"} /\ stack # <<>> => Waiting(top)

Soft(val) == val.kind \in {"None", "Boolean"}

(* After a late command no integer and no colour can be under way, and     *)
(* without one every command fails its operand check.                      *)
SoftTop ==
    /\ top.stage = "args" => IF top.vals = <<>> THEN kind = "While" ELSE Soft(Last(top.vals))
    /\ top.stage \in {"body", "skip"} /\ kind \notin {"Repeat", "While"} => Soft(top.last)

LateOK ==
    late > 0 =>
        /\ late = 1 /\ cancel /\ pc \notin {"start", "begin"}
        /\ pc = "leave" => Soft(ret)
        /\ pc = "inner" => SoftTop

NoneBeforeBody ==
    \A i \in 1 .. Len(stack) :
        /\ stack[i].stage = "args" /\ Ast[stack[i].node].kind \in {"When", "Call"}
               => stack[i].last = None

IInv == InterpreterOK /\ StackOK

Phase ==
    CASE pc = "start"   -> "called"
      [] pc = "trapped" -> "gone"
      [] pc = "over"    -> "over"
      [] pc = "report"  -> "stopped"
      [] OTHER          -> IF errored \/ cancelled THEN "failed"
                           ELSE IF stack = <<>> /\ pc \in {"enter", "begin"} THEN "ready"
                           ELSE "running"

Open == IF errored \/ cancelled THEN <<>> ELSE [i \in 1 .. Len(stack) |-> stack[i].node]

Stream == INSTANCE RunStream WITH phase <- Phase, open <- Open

(* The interpreter implements the stream a client relies on: whatever the  *)
(* program, the sensors and the moment of a cancel, the messages are those *)
(* of a properly nested run that ends in exactly one way (engine.cpp eval, *)
(* emit_skipped and execute).  Except, against protocol.md:113-115, that a *)
(* node that is skipped or fails need not be highlightable, and is then    *)
(* reported with the id of another (RunStream!Skip, RunStream!Fail).       *)
ImplementsStream == Stream!Spec

(* Whatever was computed, the robot is never told to exceed the safety     *)
(* bounds (engine.cpp:215-255), also when literals were not involved.      *)
CommandsSafe ==
    \A i \in DOMAIN out :
        out[i].type = "robotCommand" => out[i].args \in Stream!SafeArguments(out[i].command)

(* Once the cancel flag is up the robot gets at most one more command      *)
(* before the emergency stop, however deeply the program is nested: the    *)
(* flag is only read when a node is entered (engine.cpp:329), so a command *)
(* whose operands are already there still goes out.                        *)
LateCommandBound == late <= 1

(* The native stack: eval recurses at most once per level of the tree and  *)
(* active function call, and calls nest no deeper than the limit, on every *)
(* way out of a call included (engine.cpp:94-111,169-171).                 *)
StackBound ==
    /\ callDepth <= limits.maxDepth
    /\ \A h \in {Max({HeightIn(program)[n] : n \in Functions \cup {root}})} :
           Len(stack) <= (callDepth + 1) * h

CallersUntouched ==
    \A i \in 2 .. Len(env) - 1 : i <= Len(env') /\ env'[i] = env[i]

(* A function body works on its own scope and the global one only: while   *)
(* it runs the scopes of its callers keep their bindings, and when it      *)
(* returns the caller finds its own scope as it left it (engine.cpp:12-28).*)
ScopeIsolation == [][CallersUntouched]_vars

(* README.md:145-147 says that arithmetic errors are runtime errors and    *)
(* that any error calls robot.stop(); the quotient that does not fit its   *)
(* type (engine.cpp:313) can take the process with it instead.             *)
EveryErrorStopsRobot == pc # "trapped"

(* Every run ends, whatever the program: the limits bound every loop and   *)
(* every recursion, and a cancel cannot get it stuck.                      *)
Termination == <>(pc \in {"over", "trapped"})
=============================================================================
