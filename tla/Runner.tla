------------------------------- MODULE Runner -------------------------------
(***************************************************************************)
(* tools/cardcode_run.cpp: cardcode-run compiles a file and executes it on *)
(* a robot that only records its commands (mock_robot_host.hpp).  Its sink *)
(* prints the events as they come; the commands, which are no events, are  *)
(* printed when the next of some events shows that they are over.          *)
(***************************************************************************)
EXTENDS CompileAndRun

VARIABLES
    commands,  \* robot.commands: what the robot was told to do
    emitted,   \* emitted_: how many of them were printed
    printed,   \* the lines on the standard output
    exit       \* the exit code, or -1

output == <<commands, emitted, printed>>

runnerVars == <<runVars, output, exit>>

IsCommand(m) == m.type = "robotCommand"

(* flush_commands(): the commands that were not printed yet.               *)
Flushed == printed \o SubSeq(commands, emitted + 1, Len(commands))

Shown == {"programStart", "programDone", "programError", "nodeStart", "nodeDone", "nodeError"}

Prints(m, flushing) ==
    IF m.type \in flushing
      THEN printed' = Append(Flushed, m) /\ emitted' = Len(commands)
      ELSE printed' = (IF m.type \in Shown THEN Append(printed, m) ELSE printed) /\ emitted' = emitted

(* Mutant: the commands are printed when the program has ended.            *)
OnEventFlushLate(m) == Prints(m, {"programDone", "programError"})

OnEvent(m) == Prints(m, {"programDone", "programError", "nodeDone"})

(* A file that cannot be read, and a source with an error.                 *)
CannotOpen ==
    /\ exit = -1 /\ stage = "signatures"
    /\ exit' = 2
    /\ UNCHANGED <<runVars, output>>

CompilationFailed ==
    /\ exit = -1 /\ stage = "over" /\ ~C!Ok
    /\ exit' = 1
    /\ UNCHANGED <<runVars, output>>

Main ==
    /\ exit = -1
    /\ Compile \/ Execute
    /\ UNCHANGED <<output, exit>>

Interpreting ==
    /\ exit = -1
    /\ Run
    /\ IF out' = out THEN UNCHANGED output
       ELSE /\ OnEvent(Last(out'))
            /\ commands' = IF IsCommand(Last(out')) THEN Append(commands, Last(out')) ELSE commands
    /\ UNCHANGED exit

(* result.success ? 0 : 1                                                  *)
Exit ==
    /\ exit = -1 /\ launched /\ pc = "over"
    /\ exit' = IF cancelled \/ errored THEN 1 ELSE 0
    /\ UNCHANGED <<runVars, output>>

RunnerInit == RunInit /\ commands = <<>> /\ emitted = 0 /\ printed = <<>> /\ exit = -1

RunnerOver == (exit # -1 \/ pc = "trapped") /\ UNCHANGED runnerVars

RunnerNext == CannotOpen \/ CompilationFailed \/ Main \/ Interpreting \/ Exit \/ RunnerOver

RunnerSpec == RunnerInit /\ [][RunnerNext]_runnerVars

-----------------------------------------------------------------------------
(***************************************************************************)
(* Properties.                                                             *)
(***************************************************************************)
(* How many of the nodes started from line j on are not done before line i.*)
Depth(p, j, i) ==
    Cardinality({k \in j .. i - 1 : p[k].type = "nodeStart"})
        - Cardinality({k \in j .. i - 1 : p[k].type = "nodeDone"})

Emergency(p, i) == i < Len(p) /\ p[i + 1].type = "programError"

UnderIssuer(p) ==
    \A i \in DOMAIN p :
        IsCommand(p[i]) /\ ~Emergency(p, i) =>
            \E j \in 1 .. i - 1 :
                /\ p[j].type = "nodeStart" /\ Depth(p, j, i) = 1
                /\ \A k \in j + 1 .. i - 1 : Depth(p, k, i) < 1
                /\ Ast[p[j].node].kind = p[i].command

(* "the ROBOT line for each command appears under the node that issued it" *)
(* (cardcode_run.cpp:13-14): the innermost node that is started and not    *)
(* done in what was printed is a command of that kind, however the         *)
(* arguments were computed; only the stop after an error is nobody's.      *)
PrintedUnderIssuer == UnderIssuer(printed)
=============================================================================
