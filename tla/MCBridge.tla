------------------------------ MODULE MCBridge ------------------------------
(***************************************************************************)
(* Instance of Bridge for TLC: one program that reads a sensor and moves,  *)
(* one that loops until the step limit, and a text that does not compile.  *)
(***************************************************************************)
EXTENDS Bridge

N(k, args) == [kind |-> k, op |-> k, args |-> args, children |-> <<>>, params |-> <<>>, num |-> 1]

Approach ==
    [root |-> 1, ast |-> <<N("Drive", <<2, 3>>), N("IntegerLiteral", <<>>), N("DistanceCm", <<>>)>>]

Spin == [root |-> 1, ast |-> <<N("While", <<2>>), N("BooleanLiteral", <<>>)>>]

MCPrograms == {Approach, Spin}

MCCompiled == [approach |-> Approach, spin |-> Spin]

MCRequests ==
    {[type |-> "run", source |-> "approach", limits |-> <<>>],
     [type |-> "run", source |-> "spin", limits |-> [maxSteps |-> -2]],
     [type |-> "run", source |-> "(", limits |-> <<>>],
     [type |-> "compile", source |-> "spin"],
     [type |-> "cancel"], [type |-> "reset"], [type |-> "garbage"],
     [type |-> "setSensor", sensor |-> "DistanceCm", value |-> 3]}

MCNames == {"x"}

MCDefaults == [maxRepeat |-> 1, maxSteps |-> 3, maxDepth |-> 1]

MCLimits == {MCDefaults}

MCPowerOn == [DistanceCm |-> 2, Button |-> 0, LineLeft |-> 0, LineRight |-> 0]

MCSensorValues == [k \in Sensors |-> {0}]
=============================================================================
