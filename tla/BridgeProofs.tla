---------------------------- MODULE BridgeProofs ----------------------------
(***************************************************************************)
(* What holds of the host for every client, every program and every        *)
(* interleaving of the control thread with the worker.                     *)
(***************************************************************************)
EXTENDS Bridge, EngineProofs

-----------------------------------------------------------------------------
(***************************************************************************)
(* The inductive invariant.                                                *)
(***************************************************************************)
LimitSet == [maxRepeat : Nat, maxSteps : Nat, maxDepth : Nat]

SensorStores == [sensor : Sensors, value : Ints]

Spoken == \E S : out \in Seq(S)

BridgeTypeOK ==
    /\ inbox \in Seq(Requests)
    /\ ctl \in ControlPCs /\ worker \in WorkerPCs
    /\ running \in BOOLEAN
    /\ reading \in [Sensors -> Ints]
    /\ stores \in Seq(SensorStores) /\ (ctl = "store" => stores # <<>>)
    /\ ctl = "join" => request \in Requests /\ request.type = "run"
    /\ job.limits \in LimitSet
    /\ Spoken

(* Who may be where: running_ is up from the moment a request is accepted  *)
(* until its job has nothing left to do, so the request that finds it down *)
(* finds no job; and only a launch, which finds no job either, lowers the  *)
(* cancel flag.                                                            *)
ThreadsOK ==
    /\ ctl = "join" => running /\ worker \in {"none", "ending", "done"}
    /\ worker \in {"compile", "execute", "clear"} => running
    /\ cancel = asked
    /\ worker = "execute" /\ cancelled => cancel

BridgeInv == IInv /\ StreamInv /\ BridgeTypeOK /\ ThreadsOK

-----------------------------------------------------------------------------
(***************************************************************************)
(* The interpreter inside the host.                                        *)
(***************************************************************************)
(* Where the worker does not run the interpreter, it stays as it is.       *)
LEMMA EngineAlone ==
    ASSUME IInv, StreamInv, UNCHANGED interpreter, cancel' \in BOOLEAN
    PROVE  IInv' /\ StreamInv' /\ Phase' = Phase /\ Open' = Open
<1>1. UNCHANGED <<pc, cur, ret, stack, env, callDepth, steps, errored, cancelled, program, limits, late>>
  BY DEF interpreter
<1>2. InterpreterOK'
  BY <1>1, SameProgram DEF IInv, InterpreterOK
<1>3. StackOK'
  <2>1. Nested' /\ top' = top
    BY <1>1, NestedSame DEF IInv, StackOK, top
  <2> QED
    BY <1>1, <2>1, SameProgram DEF IInv, StackOK
<1>4. StreamInv'
  <2>1. OnPath'
    BY <1>1, PathStays DEF StreamInv
  <2> QED
    BY <1>1, <2>1 DEF StreamInv, FlagsOK
<1>5. Phase' = Phase /\ Open' = Open
  BY <1>1 DEF Phase, Open
<1> QED
  BY <1>2, <1>3, <1>4, <1>5 DEF IInv

(* No call is active where execute() starts or has returned.               *)
Idle ==
    /\ WellFormed(program) /\ pc \in {"start", "over"} /\ cur = root
    /\ ret = None /\ stack = <<>> /\ env = <<EmptyScope>>
    /\ callDepth = 0 /\ steps = 0 /\ errored = FALSE /\ cancelled = FALSE /\ late = 0
    /\ limits \in LimitSet /\ cancel \in BOOLEAN

IdlePhase ==
    Open = <<>> /\ (pc = "start" => Phase = "called") /\ (pc = "over" => Phase = "over")

LEMMA IdleOK == Idle => IInv /\ StreamInv /\ IdlePhase
<1> SUFFICES ASSUME Idle PROVE IInv /\ StreamInv /\ IdlePhase
  OBVIOUS
<1>1. WellFormed(program) /\ root \in Nodes
  BY ProgramFacts DEF Idle
<1>2. EmptyScope \in Scopes
  BY DEF EmptyScope, Scopes, Slots
<1>3. /\ <<EmptyScope>> \in Seq(Scopes) /\ <<EmptyScope>> # <<>> /\ Len(<<EmptyScope>>) = 1
  BY <1>2
<1>4. <<>> \in Seq(Frames) /\ Len(<<>>) = 0 /\ \A i \in 1 .. Len(<<>>) : FALSE
  OBVIOUS
<1>5. InterpreterOK
  BY <1>1, <1>3, <1>4, ValueFacts DEF InterpreterOK, Idle, PCs, LimitSet
<1>6. StackOK
  BY <1>3, <1>4 DEF StackOK, Nested, Idle
<1>7. StreamInv
  BY <1>4 DEF StreamInv, OnPath, FlagsOK, Idle
<1>8. IdlePhase
  <2>1. [i \in 1 .. Len(<<>>) |-> <<>>[i].node] = <<>>
    OBVIOUS
  <2> QED
    BY <2>1 DEF IdlePhase, Open, Phase, Idle
<1> QED
  BY <1>5, <1>6, <1>7, <1>8 DEF IInv

LEMMA IdleNext == (Idle => IInv /\ StreamInv /\ IdlePhase)'
BY IdleOK, PTL

-----------------------------------------------------------------------------
(***************************************************************************)
(* Initial states and steps.                                               *)
(***************************************************************************)
LEMMA SpokenNext ==
    ASSUME Spoken, out' = out \/ \E m : out' = Append(out, m)
    PROVE  Spoken'
<1>1. CASE out' = out
  BY <1>1 DEF Spoken
<1>2. ASSUME NEW m, out' = Append(out, m) PROVE Spoken'
  BY <1>2, AnySeq DEF Spoken
<1> QED
  BY <1>1, <1>2

LEMMA BridgeStart == BridgeInit => BridgeInv
<1> SUFFICES ASSUME BridgeInit PROVE BridgeInv
  OBVIOUS
<1>1. Idle
  <2>1. WellFormed(program)
    BY BridgeAssumption, EngineAssumption DEF BridgeInit
  <2>2. Defaults \in LimitSet
    BY BridgeAssumption DEF LimitSet
  <2> QED
    BY <2>1, <2>2 DEF Idle, BridgeInit
<1>2. IInv /\ StreamInv
  BY <1>1, IdleOK
<1>3. BridgeTypeOK
  <2>1. <<>> \in Seq(Requests) /\ <<>> \in Seq(SensorStores) /\ \E S : <<>> \in Seq(S)
    OBVIOUS
  <2>2. job.limits \in LimitSet
    BY BridgeAssumption DEF BridgeInit, LimitSet
  <2> QED
    BY <2>1, <2>2, BridgeAssumption DEF BridgeInit, BridgeTypeOK, Spoken, ControlPCs, WorkerPCs
<1>4. ThreadsOK
  BY DEF BridgeInit, ThreadsOK
<1> QED
  BY <1>2, <1>3, <1>4 DEF BridgeInv

(* The message the control thread takes from its input.                    *)
LEMMA HeadFacts ==
    ASSUME BridgeInv, NEW t, Reading(t)
    PROVE  /\ Head(inbox) \in Requests /\ Head(inbox).type = t /\ RequestOK(Head(inbox))
           /\ inbox' \in Seq(Requests) /\ request' = Head(inbox)
           /\ ctl = "read" /\ inbox # <<>> /\ inbox' = Tail(inbox)
<1>1. inbox \in Seq(Requests) /\ inbox # <<>>
  BY DEF BridgeInv, BridgeTypeOK, Reading
<1>2. Head(inbox) \in Requests /\ Tail(inbox) \in Seq(Requests)
  BY <1>1, HeadTailProperties
<1> QED
  BY <1>1, <1>2, BridgeAssumption DEF Reading

(* The limits of a run are such, whatever integers the client wrote.       *)
LEMMA ParsedLimits ==
    ASSUME NEW m \in Requests, m.type = "run"
    PROVE  ParseLimits(m.limits) \in LimitSet
<1> DEFINE fields == {"maxRepeat", "maxSteps", "maxDepth"}
           value(f) == IF f \in DOMAIN m.limits THEN m.limits[f] % WordSize ELSE Defaults[f]
<1>1. /\ DOMAIN Defaults = fields /\ WordSize \in Nat \ {0}
      /\ \A f \in fields : Defaults[f] \in Nat
      /\ \A f \in DOMAIN m.limits : m.limits[f] \in Int
  BY BridgeAssumption DEF RequestOK
<1>2. \A f \in fields : value(f) \in Nat
  BY <1>1
<1>3. ParseLimits(m.limits) = [f \in fields |-> value(f)]
  BY <1>1 DEF ParseLimits
<1> HIDE DEF value
<1> DEFINE r == [f \in fields |-> value(f)]
<1>4. r = [maxRepeat |-> value("maxRepeat"), maxSteps |-> value("maxSteps"), maxDepth |-> value("maxDepth")]
  OBVIOUS
<1> QED
  BY <1>2, <1>3, <1>4 DEF LimitSet

LEMMA InvRest ==
    ASSUME BridgeInv, UNCHANGED interpreter, cancel' \in BOOLEAN, BridgeTypeOK', ThreadsOK'
    PROVE  BridgeInv'
BY EngineAlone DEF BridgeInv

(* The client sends a message or hangs up, or nothing happens.             *)
LEMMA InvClient ==
    ASSUME BridgeInv, HangUp \/ Gone \/ UNCHANGED allVars \/ \E m \in Requests : Send(m)
    PROVE  BridgeInv'
<1> USE DEF client, control, bridgeVars, allVars, vars
<1>1. /\ UNCHANGED <<interpreter, out, cancel, control, running, worker, job, asked>>
      /\ inbox' \in Seq(Requests)
  <2>1. inbox \in Seq(Requests)
    BY DEF BridgeInv, BridgeTypeOK
  <2>2. UNCHANGED <<interpreter, out, cancel, control, running, worker, job, asked>>
    BY DEF HangUp, Gone, Send
  <2>3. inbox' = inbox \/ \E m \in Requests : inbox' = Append(inbox, m)
    BY DEF HangUp, Gone, Send
  <2> QED
    BY <2>1, <2>2, <2>3, AppendProperties
<1>2. UNCHANGED cancelled
  BY <1>1 DEF interpreter
<1>3. BridgeTypeOK' /\ ThreadsOK'
  BY <1>1, <1>2, SpokenNext DEF BridgeInv, BridgeTypeOK, ThreadsOK
<1>4. cancel' \in BOOLEAN
  BY <1>1 DEF BridgeInv, IInv, InterpreterOK
<1> QED
  BY <1>1, <1>3, <1>4, InvRest

(* The control thread handles a message.                                   *)
LEMMA InvHandle ==
    ASSUME BridgeInv, HandleGarbage \/ HandleCompile \/ HandleCancel \/ HandleRun \/ HandleSensor
    PROVE  BridgeInv'
<1> USE DEF client, control, bridgeVars, allVars, vars
<1>1. PICK t \in {"garbage", "compile", "cancel", "run", "setSensor", "reset"} : Reading(t)
  BY DEF HandleGarbage, HandleCompile, HandleCancel, HandleRun, HandleSensor
<1>2. /\ Head(inbox) \in Requests /\ Head(inbox).type = t /\ RequestOK(Head(inbox))
      /\ inbox' \in Seq(Requests) /\ request' = Head(inbox) /\ ctl = "read"
  BY <1>1, HeadFacts
<1>3. /\ UNCHANGED <<interpreter, reading, worker, job, cancelled>>
      /\ cancel' \in BOOLEAN /\ running' \in BOOLEAN
  BY DEF HandleGarbage, HandleCompile, HandleCancel, HandleRun, HandleSensor, interpreter,
         BridgeInv, BridgeTypeOK, IInv, InterpreterOK
<1>4. Spoken'
  <2>1. out' = out \/ \E m : out' = Append(out, m)
    BY DEF HandleGarbage, HandleCompile, HandleCancel, HandleRun, HandleSensor, Emit
  <2> QED
    BY <2>1, SpokenNext DEF BridgeInv, BridgeTypeOK
<1>5. /\ stores' \in Seq(SensorStores) /\ (ctl' = "store" => stores' # <<>>)
  <2>1. CASE HandleSensor /\ t = "setSensor"
    <3> DEFINE st == [sensor |-> Head(inbox).sensor, value |-> Head(inbox).value]
    <3>1. st \in SensorStores
      BY <1>2, <2>1 DEF RequestOK, SensorStores
    <3>2. stores' = <<st>>
      BY <1>2, <2>1 DEF HandleSensor
    <3> HIDE DEF st
    <3> QED
      BY <3>1, <3>2
  <2>2. CASE HandleSensor /\ t # "setSensor"
    <3> DEFINE st(i) == LET s == <<"DistanceCm", "Button", "LineLeft", "LineRight">>[i]
                        IN  [sensor |-> s, value |-> PowerOn[s]]
    <3>1. \A i \in 1 .. 4 : st(i) \in SensorStores
      BY BridgeAssumption DEF SensorStores, Sensors
    <3>2. stores' = [i \in 1 .. 4 |-> st(i)]
      BY <1>2, <2>2 DEF HandleSensor
    <3> HIDE DEF st
    <3> QED
      BY <3>1, <3>2
  <2>3. CASE ~HandleSensor
    BY <1>2, <2>3 DEF HandleGarbage, HandleCompile, HandleCancel, HandleRun, BridgeInv, BridgeTypeOK
  <2> QED
    BY <2>1, <2>2, <2>3
<1>6. ctl' \in ControlPCs /\ (ctl' = "join" => HandleRun /\ ~running /\ running')
  BY <1>2 DEF HandleGarbage, HandleCompile, HandleCancel, HandleRun, HandleSensor, ControlPCs,
              BridgeInv, BridgeTypeOK
<1>7. ctl' = "join" => request' \in Requests /\ request'.type = "run"
  BY <1>2, <1>6, HeadFacts DEF HandleRun
<1>8. BridgeTypeOK'
  BY <1>2, <1>3, <1>4, <1>5, <1>6, <1>7 DEF BridgeInv, BridgeTypeOK
<1>9. ThreadsOK'
  <2>1. cancel' = asked' /\ (cancel => cancel') /\ (running => running')
    BY DEF HandleGarbage, HandleCompile, HandleCancel, HandleRun, HandleSensor, BridgeInv, ThreadsOK
  <2>2. ctl' = "join" => worker \in {"none", "ending", "done"}
    BY <1>6 DEF BridgeInv, BridgeTypeOK, ThreadsOK, WorkerPCs
  <2> QED
    BY <1>3, <1>6, <2>1, <2>2 DEF BridgeInv, ThreadsOK
<1> QED
  BY <1>3, <1>8, <1>9, InvRest

(* The control thread goes on with a message, or closes the bridge.        *)
LEMMA InvControl ==
    ASSUME BridgeInv, Launch \/ Store \/ EndOfInput \/ Close
    PROVE  BridgeInv'
<1> USE DEF client, control, bridgeVars, allVars, vars
<1>1. /\ UNCHANGED <<interpreter, out, inbox, running, request, cancelled>>
      /\ cancel' \in BOOLEAN
  BY DEF Launch, Store, EndOfInput, Close, interpreter, BridgeInv, IInv, InterpreterOK
<1>2. CASE Launch
  <2>1. job'.limits \in LimitSet
    <3>1. request \in Requests /\ request.type = "run"
      BY <1>2 DEF Launch, BridgeInv, BridgeTypeOK
    <3>2. job'.limits = ParseLimits(request.limits)
      BY <1>2 DEF Launch
    <3> QED
      BY <3>1, <3>2, ParsedLimits
  <2>2. BridgeTypeOK'
    BY <1>1, <1>2, <2>1, SpokenNext DEF Launch, BridgeInv, BridgeTypeOK, ControlPCs, WorkerPCs
  <2>3. ThreadsOK'
    <3>1. worker' = "compile" /\ ctl' = "read" /\ cancel' = FALSE /\ asked' = FALSE /\ running
      BY <1>2 DEF Launch, BridgeInv, ThreadsOK
    <3> QED
      BY <1>1, <3>1 DEF ThreadsOK
  <2> QED
    BY <1>1, <2>2, <2>3, InvRest
<1>3. CASE Store
  <2>1. /\ stores \in Seq(SensorStores) /\ stores # <<>> /\ reading \in [Sensors -> Ints]
    BY <1>3 DEF Store, BridgeInv, BridgeTypeOK
  <2>2. Head(stores) \in SensorStores /\ Tail(stores) \in Seq(SensorStores)
    BY <2>1, HeadTailProperties
  <2>3. Head(stores).sensor \in Sensors /\ Head(stores).value \in Ints
    BY <2>2 DEF SensorStores
  <2>4. reading' \in [Sensors -> Ints] /\ stores' \in Seq(SensorStores)
    BY <1>3, <2>1, <2>2, <2>3 DEF Store
  <2>5. ctl' = (IF stores' = <<>> THEN "read" ELSE "store") /\ UNCHANGED <<worker, job, asked, cancel>>
    BY <1>3 DEF Store
  <2>6. BridgeTypeOK' /\ ThreadsOK'
    BY <1>1, <2>4, <2>5, SpokenNext DEF BridgeInv, BridgeTypeOK, ThreadsOK, ControlPCs
  <2> QED
    BY <1>1, <2>6, InvRest
<1>4. CASE EndOfInput \/ Close
  <2>1. BridgeTypeOK' /\ ThreadsOK'
    BY <1>1, <1>4, SpokenNext DEF EndOfInput, Close, BridgeInv, BridgeTypeOK, ThreadsOK, ControlPCs
  <2> QED
    BY <1>1, <2>1, InvRest
<1> QED
  BY <1>2, <1>3, <1>4

(* The worker compiles a program.                                          *)
LEMMA InvCompile ==
    ASSUME BridgeInv, CompileJob
    PROVE  BridgeInv' /\ (worker' = "execute" => IdlePhase')
<1> USE DEF client, control, bridgeVars, allVars, vars
<1>1. Spoken'
  <2>1. \E m : out' = Append(out, m)
    BY DEF CompileJob, Emit
  <2> QED
    BY <2>1, SpokenNext DEF BridgeInv, BridgeTypeOK
<1>2. worker = "compile" /\ UNCHANGED <<cancel, inbox, ctl, request, stores, reading, running, job, asked>>
  BY DEF CompileJob
<1>3. worker' \in {"execute", "clear"}
  BY DEF CompileJob
<1>4. BridgeTypeOK'
  BY <1>1, <1>2, <1>3 DEF BridgeInv, BridgeTypeOK, WorkerPCs
<1>5. ThreadsOK'
  <2>1. worker' = "execute" => ~cancelled'
    BY DEF CompileJob
  <2> QED
    BY <1>2, <1>3, <2>1 DEF BridgeInv, ThreadsOK
<1>6. cancel' \in BOOLEAN
  BY <1>2 DEF BridgeInv, IInv, InterpreterOK
<1>7. CASE worker' = "execute"
  <2>1. Idle'
    <3>1. WellFormed(program)' /\ root' = Compiled[job.source].root
      <4>1. program' = Compiled[job.source] /\ Compiled[job.source] \in Programs
        BY <1>7, BridgeAssumption DEF CompileJob, Compiles
      <4> QED
        BY <4>1, EngineAssumption DEF root
    <3> QED
      BY <1>2, <1>6, <1>7, <3>1 DEF CompileJob, Idle, BridgeInv, BridgeTypeOK
  <2> QED
    BY <1>4, <1>5, <2>1, IdleNext DEF BridgeInv
<1>8. CASE worker' # "execute"
  <2>1. UNCHANGED interpreter
    BY <1>8 DEF CompileJob
  <2> QED
    BY <1>4, <1>5, <1>6, <1>8, <2>1, InvRest
<1> QED
  BY <1>7, <1>8

(* A step of the interpreter is one of Engine's, on what the sensors hold. *)
LEMMA JobWorks ==
    ASSUME BridgeInv, ExecuteJob
    PROVE  Interpret \/ Reads
<1>1. CASE pc = "inner" /\ kind \in Sensors /\ ReadSensor(reading[kind])
  <2>1. reading[kind] \in Ints
    BY <1>1 DEF BridgeInv, BridgeTypeOK
  <2> QED
    BY <1>1, <2>1 DEF Reads
<1> QED
  BY <1>1 DEF ExecuteJob

(* The interpreter gives up as cancelled only on the flag it reads.        *)
LEMMA CancelRead ==
    ASSUME Interpret \/ Reads, cancelled'
    PROVE  cancelled \/ cancel
BY DEF Interpret, Start, Poll, Begin, StepLimit, RuntimeError, Fail, Leave, Unwind, StopRobot, Finish,
       EvalOperand, Accumulate, Trap, GiveResult, Assign, Command, Reads, ReadSensor, ChooseBranch,
       EndIf, StartBody, Iterate, Call, NextStatement, SkipStatement, EndBody, flags

LEMMA CancelKept ==
    ASSUME Interpret \/ Reads
    PROVE  cancel' = cancel
BY DEF Interpret, Start, Poll, Begin, StepLimit, RuntimeError, Fail, Leave, Unwind, StopRobot, Finish,
       EvalOperand, Accumulate, Trap, GiveResult, Assign, Command, Reads, ReadSensor, ChooseBranch,
       EndIf, StartBody, Iterate, Call, NextStatement, SkipStatement, EndBody, given

LEMMA InvExecute ==
    ASSUME BridgeInv, ExecuteJob
    PROVE  BridgeInv'
<1> USE DEF client, control, bridgeVars
<1>1. /\ worker = "execute"
      /\ Interpret \/ Reads
      /\ UNCHANGED <<inbox, ctl, request, stores, reading, running, worker, job, asked>>
  BY JobWorks DEF ExecuteJob
<1>2. IInv' /\ StreamInv'
  BY <1>1, TypeWork, FollowWork DEF BridgeInv
<1>3. Spoken'
  <2>1. out' = out \/ \E m : out' = Append(out, m)
    BY <1>1, Emits DEF BridgeInv
  <2> QED
    BY <2>1, SpokenNext DEF BridgeInv, BridgeTypeOK
<1>4. BridgeTypeOK'
  BY <1>1, <1>3 DEF BridgeInv, BridgeTypeOK
<1>5. ThreadsOK'
  BY <1>1, CancelRead, CancelKept DEF BridgeInv, ThreadsOK
<1> QED
  BY <1>2, <1>4, <1>5 DEF BridgeInv

(* The worker is through with its job.                                     *)
LEMMA InvEnding ==
    ASSUME BridgeInv, ClearRunning \/ EndThread
    PROVE  BridgeInv'
<1> USE DEF client, control, bridgeVars, allVars, vars
<1>1. /\ UNCHANGED <<interpreter, out, cancel, inbox, ctl, request, stores, reading, job, asked, cancelled>>
      /\ running' \in BOOLEAN
  BY DEF ClearRunning, EndThread, interpreter, BridgeInv, BridgeTypeOK
<1>2. BridgeTypeOK'
  BY <1>1, SpokenNext DEF ClearRunning, EndThread, BridgeInv, BridgeTypeOK, WorkerPCs
<1>3. ThreadsOK'
  BY <1>1 DEF ClearRunning, EndThread, BridgeInv, ThreadsOK
<1>4. cancel' \in BOOLEAN
  BY <1>1 DEF BridgeInv, IInv, InterpreterOK
<1> QED
  BY <1>1, <1>2, <1>3, <1>4, InvRest

LEMMA BridgeStep == BridgeInv /\ [BridgeNext]_allVars => BridgeInv'
<1> SUFFICES ASSUME BridgeInv, [BridgeNext]_allVars PROVE BridgeInv'
  OBVIOUS
<1> QED
  BY InvClient, InvHandle, InvControl, InvCompile, InvExecute, InvEnding
     DEF BridgeNext, ControlStep, WorkerStep

(* Whoever interleaves how: the interpreter's invariants hold of every run *)
(* the host gives it, and the two threads keep to their protocol           *)
(* (protocol_bridge.hpp:67-89).                                            *)
THEOREM BridgeInductive == BridgeSpec => []BridgeInv
BY BridgeStart, BridgeStep, PTL DEF BridgeSpec

(* A flag raised for one run never ends another (protocol_bridge.hpp:74).  *)
THEOREM CancelForThisRun == BridgeSpec => []CancelIsForThisRun
<1>1. BridgeInv => CancelIsForThisRun
  BY DEF BridgeInv, ThreadsOK, CancelIsForThisRun
<1> QED
  BY <1>1, BridgeInductive, PTL

(* The control thread never waits for a program (protocol_bridge.hpp:71).  *)
THEOREM JoinsAreShort == BridgeSpec => []JoinIsShort
<1>1. BridgeInv => JoinIsShort
  BY DEF BridgeInv, ThreadsOK, JoinIsShort
<1> QED
  BY <1>1, BridgeInductive, PTL

(* ... and a cancel is not lost either: between the moment a job is given  *)
(* its flag and the end of its thread nothing lowers it.                   *)
THEOREM CancelStays == BridgeSpec => CancelNotLost
<1>1. BridgeInv /\ [BridgeNext]_allVars => [cancel /\ ~cancel' => worker \in {"none", "done"}]_allVars
  <2> SUFFICES ASSUME BridgeInv, [BridgeNext]_allVars, cancel, ~cancel'
               PROVE  worker \in {"none", "done"}
    OBVIOUS
  <2>1. CASE ExecuteJob
    BY <2>1, JobWorks, CancelKept
  <2>2. CASE Launch
    BY <2>2 DEF Launch
  <2> QED
    BY <2>1, <2>2
       DEF BridgeNext, ControlStep, WorkerStep, HandleGarbage, HandleCompile, HandleCancel, HandleRun,
           HandleSensor, Store, EndOfInput, Close, CompileJob, ClearRunning, EndThread, HangUp, Gone,
           Send, vars, allVars
<1> QED
  BY <1>1, BridgeInductive, PTL DEF BridgeSpec, CancelNotLost

-----------------------------------------------------------------------------
(***************************************************************************)
(* The host implements Host.                                               *)
(***************************************************************************)
AbstractOut == [i \in DOMAIN out |-> AbstractMessage(out[i])]

AbstractJob == IF ctl = "join" THEN request.source ELSE job.source

(* One message more is one abstract message more.                          *)
LEMMA OutNext ==
    ASSUME Spoken, NEW m, out' = Append(out, m)
    PROVE  AbstractOut' = Append(AbstractOut, AbstractMessage(m))
<1> DEFINE n == Len(out)
           a == AbstractOut
           b == Append(a, AbstractMessage(m))
<1>1. /\ n \in Nat /\ DOMAIN out = 1 .. n /\ DOMAIN out' = 1 .. n + 1
      /\ \A i \in 1 .. n : out'[i] = out[i]
      /\ out'[n + 1] = m
  BY AnySeq DEF Spoken
<1>2. a = [i \in 1 .. n |-> AbstractMessage(out[i])]
  BY <1>1 DEF AbstractOut
<1>3. AbstractOut' = [i \in 1 .. n + 1 |-> AbstractMessage(out'[i])]
  BY <1>1 DEF AbstractOut, AbstractMessage
<1> HIDE DEF n
<1>4. \E S : a \in Seq(S)
  <2> DEFINE f(i) == AbstractMessage(out[i])
             T == {f(i) : i \in 1 .. n}
  <2>1. \A i \in 1 .. n : f(i) \in T
    OBVIOUS
  <2>2. a = [i \in 1 .. n |-> f(i)]
    BY <1>2
  <2> HIDE DEF f, T, a
  <2>3. a \in Seq(T)
    BY <1>1, <2>1, <2>2
  <2> QED
    BY <2>3
<1>5. Len(a) = n
  <2> HIDE DEF a
  <2> QED
    BY <1>1, <1>2
<1>6. /\ \E S : b \in Seq(S)
      /\ DOMAIN b = 1 .. n + 1
      /\ \A i \in 1 .. n : b[i] = a[i]
      /\ b[n + 1] = AbstractMessage(m)
  <2> HIDE DEF a
  <2> QED
    BY <1>4, <1>5, AnySeq
<1>7. b = [i \in 1 .. n + 1 |-> b[i]]
  <2> HIDE DEF b
  <2>1. PICK S : b \in Seq(S)
    BY <1>6
  <2>2. b = [i \in DOMAIN b |-> b[i]]
    BY <2>1
  <2> QED
    BY <1>6, <2>2
<1>8. \A i \in 1 .. n + 1 : b[i] = AbstractMessage(out'[i])
  <2> TAKE i \in 1 .. n + 1
  <2>1. i = n + 1 \/ i \in 1 .. n
    BY <1>1
  <2>2. i \in 1 .. n => a[i] = AbstractMessage(out[i])
    BY <1>2
  <2> HIDE DEF a, b
  <2> QED
    BY <1>1, <1>6, <2>1, <2>2
<1> HIDE DEF a, b
<1>9. AbstractOut' = b
  BY <1>3, <1>7, <1>8
<1> QED
  BY <1>9 DEF b, a

LEMMA OutSame == ASSUME out' = out PROVE AbstractOut' = AbstractOut
BY DEF AbstractOut, AbstractMessage

(* Both read the program, and the calls that are active, as Engine does.   *)
LEMMA HostTree ==
    /\ AbstractHost!root = Stream!root /\ AbstractHost!Ast = Stream!Ast
    /\ AbstractHost!innermost = Stream!innermost
    /\ \A n : AbstractHost!Under(n) = Stream!Under(n)
    /\ \A n : AbstractHost!Highlightable(n) <=> Stream!Highlightable(n)
    /\ \A k : AbstractHost!SafeArguments(k) = Stream!SafeArguments(k)
    /\ AbstractHost!Commands = Stream!Commands /\ AbstractHost!Sensors = Stream!Sensors
    /\ AbstractHost!Ints = Stream!Ints
BY DEF AbstractHost!root, Stream!root, AbstractHost!Ast, Stream!Ast,
       AbstractHost!innermost, Stream!innermost, AbstractHost!Under, Stream!Under,
       AbstractHost!Highlightable, Stream!Highlightable,
       AbstractHost!HighlightableKinds, Stream!HighlightableKinds,
       AbstractHost!Control, Stream!Control, AbstractHost!SafeArguments, Stream!SafeArguments,
       AbstractHost!Commands, Stream!Commands, AbstractHost!Sensors, Stream!Sensors,
       AbstractHost!Moves, Stream!Moves, AbstractHost!Turns, Stream!Turns,
       AbstractHost!Ints, Stream!Ints, AbstractHost!MinInt, Stream!MinInt,
       AbstractHost!Integer, Stream!Integer, AbstractHost!Color, Stream!Color,
       AbstractHost!Colors, Stream!Colors

(* ... and number its nodes alike.                                         *)
LEMMA HostEvents ==
    \A type, n : Stream!Event(type, n) = AbstractHost!Event(type, n)
<1>1. Stream!FirstNumbered = AbstractHost!FirstNumbered
  BY DEF Stream!FirstNumbered, AbstractHost!FirstNumbered, Stream!Nodes, AbstractHost!Nodes,
         Stream!Ast, AbstractHost!Ast, Stream!Highlightable, AbstractHost!Highlightable,
         Stream!HighlightableKinds, AbstractHost!HighlightableKinds,
         Stream!Control, AbstractHost!Control, Stream!Commands, AbstractHost!Commands,
         Stream!Moves, AbstractHost!Moves, Stream!Turns, AbstractHost!Turns,
         Stream!Sensors, AbstractHost!Sensors
<1> QED
  BY <1>1, HostTree DEF Stream!Event, AbstractHost!Event, Stream!IdOf, AbstractHost!IdOf

(* What the stream may say next, the host may say next: a run says nothing *)
(* that Host words differently.                                            *)
LEMMA StreamInHost ==
    ASSUME Spoken, Stream!Next
    PROVE  AbstractHost!Next
<1>1. ASSUME NEW m, m.type # "diagnostics", out' = Append(out, m)
      PROVE  AbstractOut' = Append(AbstractOut, m)
  BY <1>1, OutNext DEF AbstractMessage
<1>2. CASE Stream!Start
  <2>1. AbstractOut' = Append(AbstractOut, [type |-> "programStart"])
    BY <1>1, <1>2 DEF Stream!Start
  <2> QED
    BY <1>2, <2>1 DEF Stream!Start, AbstractHost!Start, AbstractHost!Next, AbstractOut
<1>3. CASE \E n \in {Stream!root} \cup (IF Open = <<>> THEN {} ELSE Stream!Under(Stream!innermost)) :
              Stream!Enter(n) \/ Stream!Skip(n)
  <2>1. PICK n \in {Stream!root} \cup (IF Open = <<>> THEN {} ELSE Stream!Under(Stream!innermost)) :
            Stream!Enter(n) \/ Stream!Skip(n)
    BY <1>3
  <2>2. \A t : out' = Append(out, Stream!Event(t, n)) /\ t # "diagnostics"
                  => AbstractOut' = Append(AbstractOut, AbstractHost!Event(t, n))
    BY <1>1, HostEvents DEF Stream!Event
  <2>3. n \in {AbstractHost!root} \cup (IF Open = <<>> THEN {} ELSE AbstractHost!Under(AbstractHost!innermost))
    BY <2>1 DEF Stream!root, AbstractHost!root, Stream!Under, AbstractHost!Under, Stream!Ast, AbstractHost!Ast,
                Stream!innermost, AbstractHost!innermost
  <2>4. CASE Stream!Enter(n)
    BY <2>2, <2>3, <2>4, OutSame, HostTree DEF Stream!Enter, AbstractHost!Enter, AbstractHost!Next, AbstractOut
  <2>5. CASE Stream!Skip(n)
    BY <2>2, <2>3, <2>5, HostTree DEF Stream!Skip, AbstractHost!Skip, AbstractHost!Next, AbstractOut
  <2> QED
    BY <2>1, <2>4, <2>5
<1>4. CASE Stream!Leave
  <2>1. \A t, n : out' = Append(out, Stream!Event(t, n)) /\ t # "diagnostics"
                  => AbstractOut' = Append(AbstractOut, AbstractHost!Event(t, n))
    BY <1>1, HostEvents DEF Stream!Event
  <2> QED
    BY <1>4, <2>1, OutSame, HostTree DEF Stream!Leave, AbstractHost!Leave, AbstractHost!Next, AbstractOut
<1>5. CASE Stream!Move
  <2>1. PICK args \in Stream!SafeArguments(Stream!Ast[Stream!innermost].kind) :
            out' = Append(out, [type |-> "robotCommand",
                                command |-> Stream!Ast[Stream!innermost].kind, args |-> args])
    BY <1>5 DEF Stream!Move
  <2>2. AbstractOut' = Append(AbstractOut, [type |-> "robotCommand",
                                command |-> Stream!Ast[Stream!innermost].kind, args |-> args])
    BY <1>1, <2>1
  <2> QED
    BY <1>5, <2>1, <2>2, HostTree DEF Stream!Move, AbstractHost!Move, AbstractHost!Next, AbstractOut
<1>6. CASE \E v \in Stream!Ints : Stream!Sense(v)
  <2>1. PICK v \in Stream!Ints : Stream!Sense(v)
    BY <1>6
  <2>2. AbstractOut' = Append(AbstractOut, [type |-> "sensorRead",
                                sensor |-> Stream!Ast[Stream!innermost].kind, value |-> v])
    BY <1>1, <2>1 DEF Stream!Sense
  <2> QED
    BY <2>1, <2>2, HostTree DEF Stream!Sense, AbstractHost!Sense, AbstractHost!Next, AbstractOut
<1>7. CASE Stream!Fail
  <2>1. \A n : out' = Append(out, Stream!Event("nodeError", n))
                  => AbstractOut' = Append(AbstractOut, AbstractHost!Event("nodeError", n))
    BY <1>1, HostEvents DEF Stream!Event
  <2> QED
    BY <1>7, <2>1, OutSame, HostTree DEF Stream!Fail, AbstractHost!Fail, AbstractHost!Next, AbstractOut
<1>8. CASE Stream!Stop
  <2>1. AbstractOut' = Append(AbstractOut, [type |-> "robotCommand", command |-> "Stop", args |-> <<>>])
    BY <1>1, <1>8 DEF Stream!Stop
  <2> QED
    BY <1>8, <2>1 DEF Stream!Stop, AbstractHost!Stop, AbstractHost!Next, AbstractOut
<1>9. CASE Stream!End
  <2>1. \A t : out' = Append(out, [type |-> t]) /\ t # "diagnostics"
                  => AbstractOut' = Append(AbstractOut, [type |-> t])
    BY <1>1
  <2> QED
    BY <1>9, <2>1 DEF Stream!End, AbstractHost!End, AbstractHost!Next, AbstractOut
<1>10. CASE Stream!Vanish
  BY <1>10, OutSame, HostTree DEF Stream!Vanish, AbstractHost!Vanish, AbstractHost!Next, AbstractOut
<1> QED
  BY <1>2, <1>3, <1>4, <1>5, <1>6, <1>7, <1>8, <1>9, <1>10 DEF Stream!Next

(* What the abstract host sees of a state.                                 *)
Seen == <<program, AbstractOut, Phase, Open, inbox, running, AbstractWorker, AbstractJob>>

HostFollows == AbstractHost!HostNext \/ UNCHANGED Seen

LEMMA HostStart == BridgeInit => AbstractHost!HostInit
<1> SUFFICES ASSUME BridgeInit PROVE AbstractHost!HostInit
  OBVIOUS
<1>1. program \in {Compiled[s] : s \in DOMAIN Compiled}
  BY BridgeAssumption DEF BridgeInit
<1>2. Phase = "over" /\ Open = <<>>
  <2>1. [i \in 1 .. Len(<<>>) |-> <<>>[i].node] = <<>>
    OBVIOUS
  <2> QED
    BY <2>1 DEF BridgeInit, Phase, Open
<1>3. AbstractOut = <<>>
  <2>1. [i \in DOMAIN <<>> |-> AbstractMessage(<<>>[i])] = <<>>
    OBVIOUS
  <2> QED
    BY <2>1 DEF BridgeInit, AbstractOut, AbstractMessage
<1>4. AbstractWorker = "idle" /\ AbstractJob = "none"
  <2>1. [source |-> "none", limits |-> Defaults].source = "none"
    OBVIOUS
  <2> QED
    BY <2>1 DEF BridgeInit, AbstractWorker, AbstractJob
<1> QED
  BY <1>1, <1>2, <1>3, <1>4 DEF BridgeInit, AbstractHost!HostInit, AbstractOut, AbstractJob

(* Where the worker does not run, the program and its stream stay.         *)
LEMMA SeenAlone ==
    ASSUME BridgeInv, UNCHANGED interpreter, cancel' \in BOOLEAN
    PROVE  program' = program /\ Phase' = Phase /\ Open' = Open
BY EngineAlone DEF BridgeInv, interpreter

LEMMA HostClient ==
    ASSUME BridgeInv, HangUp \/ Gone \/ UNCHANGED allVars \/ \E m \in Requests : Send(m)
    PROVE  HostFollows
<1> USE DEF client, control, bridgeVars, allVars, vars
<1>1. UNCHANGED <<interpreter, out, cancel, ctl, request, running, worker, job>>
  BY DEF HangUp, Gone, Send
<1>2. UNCHANGED <<program, AbstractOut, Phase, Open, running, AbstractWorker, AbstractJob>>
  <2>1. cancel' \in BOOLEAN
    BY <1>1 DEF BridgeInv, IInv, InterpreterOK
  <2> QED
    BY <1>1, <2>1, SeenAlone, OutSame DEF AbstractWorker, AbstractJob
<1>3. inbox' = inbox \/ \E m \in Requests : inbox' = Append(inbox, m)
  BY DEF HangUp, Gone, Send
<1>4. CASE inbox' = inbox
  BY <1>2, <1>4 DEF HostFollows, Seen
<1>5. CASE \E m \in Requests : inbox' = Append(inbox, m)
  BY <1>2, <1>5
     DEF HostFollows, AbstractHost!HostNext, AbstractHost!Receive, AbstractHost!vars, AbstractOut,
         AbstractJob
<1> QED
  BY <1>3, <1>4, <1>5

LEMMA HostHandles ==
    ASSUME BridgeInv, HandleGarbage \/ HandleCompile \/ HandleCancel \/ HandleRun \/ HandleSensor
    PROVE  HostFollows
<1> USE DEF client, control, bridgeVars, allVars, vars
<1>1. PICK t \in {"garbage", "compile", "cancel", "run", "setSensor", "reset"} : Reading(t)
  BY DEF HandleGarbage, HandleCompile, HandleCancel, HandleRun, HandleSensor
<1>2. /\ Head(inbox).type = t /\ inbox # <<>> /\ inbox' = Tail(inbox)
      /\ request' = Head(inbox) /\ ctl = "read"
  BY <1>1, HeadFacts
<1>3. /\ UNCHANGED <<interpreter, worker, job>> /\ cancel' \in BOOLEAN
  BY DEF HandleGarbage, HandleCompile, HandleCancel, HandleRun, HandleSensor,
         BridgeInv, IInv, InterpreterOK
<1>4. UNCHANGED <<program, Phase, Open>> /\ Spoken
  BY <1>3, SeenAlone DEF BridgeInv, BridgeTypeOK
<1>5. ctl' # "join" => UNCHANGED <<AbstractWorker, AbstractJob>>
  BY <1>2, <1>3 DEF AbstractWorker, AbstractJob
<1>6. AbstractHost!Handle({t})
  BY <1>2 DEF AbstractHost!Handle
<1> USE DEF AbstractHost!HostNext, AbstractHost!HandleNext, AbstractHost!vars, AbstractHost!Say,
            AbstractHost!Handle, HostFollows, AbstractOut, AbstractJob
<1>7. CASE HandleGarbage
  <2>1. t = "garbage" /\ ctl' = ctl /\ running' = running /\ out' = Append(out, ErrorMessage("malformed"))
    BY <1>2, <1>7 DEF HandleGarbage, Reading, Emit
  <2>2. AbstractMessage(ErrorMessage("malformed")) = AbstractHost!Error("malformed")
    BY DEF AbstractMessage, ErrorMessage, AbstractHost!Error
  <2>3. AbstractOut' = Append(AbstractOut, AbstractHost!Error("malformed"))
    <3> HIDE DEF AbstractOut
    <3> QED
      BY <1>4, <2>1, <2>2, OutNext
  <2>4. AbstractHost!HandleGarbage
    BY <1>2, <1>4, <1>5, <2>1, <2>3 DEF AbstractHost!HandleGarbage
  <2> QED
    BY <2>4
<1>8. CASE HandleCompile
  <2> DEFINE m == Diagnostics(Head(inbox).source, "compile")
  <2>1. t = "compile" /\ ctl' = ctl /\ running' = running /\ out' = Append(out, m)
    BY <1>2, <1>8 DEF HandleCompile, Reading, Emit
  <2>2. AbstractMessage(m) = AbstractHost!Diagnostics(Head(inbox).source)
    BY DEF AbstractMessage, Diagnostics, Compiles, AbstractHost!Diagnostics
  <2> HIDE DEF m
  <2>3. AbstractOut' = Append(AbstractOut, AbstractHost!Diagnostics(Head(inbox).source))
    <3> HIDE DEF AbstractOut
    <3> QED
      BY <1>4, <2>1, <2>2, OutNext
  <2>4. AbstractHost!HandleCompile
    BY <1>2, <1>4, <1>5, <2>1, <2>3 DEF AbstractHost!HandleCompile
  <2> QED
    BY <2>4
<1>9. CASE HandleCancel \/ HandleSensor
  <2>1. /\ t \in {"cancel", "setSensor", "reset"} /\ ctl' # "join" /\ running' = running /\ out' = out
    BY <1>2, <1>9 DEF HandleCancel, HandleSensor, Reading
  <2>2. AbstractOut' = AbstractOut
    BY <2>1, OutSame
  <2>3. AbstractHost!HandleQuietly
    BY <1>2, <1>4, <1>5, <2>1, <2>2 DEF AbstractHost!HandleQuietly
  <2> QED
    BY <2>3
<1>10. CASE HandleRun /\ running
  <2>1. t = "run" /\ ctl' = ctl /\ running' = running /\ out' = Append(out, ErrorMessage("busy"))
    BY <1>2, <1>10 DEF HandleRun, Reading, Emit, BridgeInv, BridgeTypeOK
  <2>2. AbstractMessage(ErrorMessage("busy")) = AbstractHost!Error("busy")
    BY DEF AbstractMessage, ErrorMessage, AbstractHost!Error
  <2>3. AbstractOut' = Append(AbstractOut, AbstractHost!Error("busy"))
    <3> HIDE DEF AbstractOut
    <3> QED
      BY <1>4, <2>1, <2>2, OutNext
  <2>4. AbstractHost!HandleRun
    BY <1>2, <1>4, <1>5, <1>10, <2>1, <2>3 DEF AbstractHost!HandleRun
  <2> QED
    BY <2>4
<1>11. CASE HandleRun /\ ~running
  <2>1. t = "run" /\ ctl' = "join" /\ running' = TRUE /\ out' = out
    BY <1>2, <1>11 DEF HandleRun, Reading
  <2>2. AbstractOut' = AbstractOut
    BY <2>1, OutSame
  <2>3. AbstractWorker' = "compile" /\ AbstractJob' = Head(inbox).source
    BY <1>2, <2>1 DEF AbstractWorker
  <2>4. AbstractHost!HandleRun
    BY <1>2, <1>4, <1>11, <2>1, <2>2, <2>3 DEF AbstractHost!HandleRun
  <2> QED
    BY <2>4
<1> QED
  BY <1>7, <1>8, <1>9, <1>10, <1>11

LEMMA HostControls ==
    ASSUME BridgeInv, Launch \/ Store \/ EndOfInput \/ Close
    PROVE  HostFollows
<1> USE DEF client, control, bridgeVars, allVars, vars
<1>1. /\ UNCHANGED <<interpreter, out, inbox, running, request>> /\ cancel' \in BOOLEAN
  BY DEF Launch, Store, EndOfInput, Close, BridgeInv, IInv, InterpreterOK
<1>2. UNCHANGED <<program, AbstractOut, Phase, Open>>
  BY <1>1, SeenAlone, OutSame
<1>3. AbstractWorker' = AbstractWorker /\ AbstractJob' = AbstractJob
  <2>1. CASE Launch
    <3>1. ctl = "join" /\ ctl' = "read" /\ worker' = "compile" /\ job'.source = request.source
      BY <2>1 DEF Launch
    <3> QED
      BY <3>1 DEF AbstractWorker, AbstractJob
  <2>2. CASE Store \/ EndOfInput \/ Close
    <3>1. ctl # "join" /\ ctl' # "join" /\ worker' = worker /\ job' = job
      BY <2>2 DEF Store, EndOfInput, Close
    <3> QED
      BY <3>1 DEF AbstractWorker, AbstractJob
  <2> QED
    BY <2>1, <2>2
<1> QED
  BY <1>1, <1>2, <1>3 DEF HostFollows, Seen

LEMMA HostDiagnoses ==
    ASSUME BridgeInv, CompileJob
    PROVE  HostFollows
<1> USE DEF client, control, bridgeVars, allVars, vars
<1> DEFINE m == Diagnostics(job.source, "run")
<1>1. /\ worker = "compile" /\ out' = Append(out, m) /\ Spoken
      /\ UNCHANGED <<inbox, ctl, request, running, job, cancel>>
  BY DEF CompileJob, Emit, BridgeInv, BridgeTypeOK
<1>2. /\ ctl # "join" /\ ctl' # "join"
      /\ AbstractWorker = "compile" /\ AbstractWorker' = worker' /\ worker' \in {"execute", "clear"}
      /\ AbstractJob = job.source /\ AbstractJob' = job.source
  <2>1. ctl # "join"
    BY <1>1 DEF BridgeInv, ThreadsOK
  <2>2. worker' \in {"execute", "clear"}
    BY DEF CompileJob
  <2> QED
    BY <1>1, <2>1, <2>2 DEF AbstractWorker, AbstractJob
<1>3. AbstractMessage(m) = AbstractHost!Diagnostics(job.source)
  BY DEF AbstractMessage, Diagnostics, Compiles, AbstractHost!Diagnostics
<1> HIDE DEF m
<1>4. AbstractOut' = Append(AbstractOut, AbstractHost!Diagnostics(AbstractJob))
  BY <1>1, <1>2, <1>3, OutNext
<1>5. CASE job.source \in DOMAIN Compiled
  <2>1. worker' = "execute" /\ program' = Compiled[job.source] /\ pc' = "start"
    BY <1>5 DEF CompileJob, Compiles
  <2>2. Phase' = "called" /\ Open' = <<>>
    BY <2>1, InvCompile DEF IdlePhase
  <2>3. AbstractHost!Diagnose
    BY <1>1, <1>2, <1>4, <1>5, <2>1, <2>2
       DEF AbstractHost!Diagnose, AbstractHost!Say, AbstractOut, AbstractJob
  <2> QED
    BY <2>3 DEF HostFollows, AbstractHost!HostNext
<1>6. CASE job.source \notin DOMAIN Compiled
  <2>1. worker' = "clear" /\ UNCHANGED interpreter
    BY <1>6 DEF CompileJob, Compiles
  <2>2. UNCHANGED <<program, Phase, Open>>
    <3>1. cancel' \in BOOLEAN
      BY <1>1 DEF BridgeInv, IInv, InterpreterOK
    <3> QED
      BY <2>1, <3>1, SeenAlone
  <2>3. AbstractHost!Diagnose
    BY <1>1, <1>2, <1>4, <1>6, <2>1, <2>2
       DEF AbstractHost!Diagnose, AbstractHost!Say, AbstractOut, AbstractJob
  <2> QED
    BY <2>3 DEF HostFollows, AbstractHost!HostNext
<1> QED
  BY <1>5, <1>6

LEMMA HostExecutes ==
    ASSUME BridgeInv, ExecuteJob
    PROVE  HostFollows
<1> USE DEF client, control, bridgeVars
<1>1. /\ worker = "execute"
      /\ Interpret \/ Reads
      /\ UNCHANGED <<inbox, ctl, request, running, worker, job>>
  BY JobWorks DEF ExecuteJob
<1>2. UNCHANGED <<inbox, running, AbstractWorker, AbstractJob>> /\ AbstractWorker = "execute"
  <2>1. ctl # "join" /\ ctl' # "join" /\ worker' = "execute"
    BY <1>1 DEF BridgeInv, ThreadsOK
  <2> QED
    BY <1>1, <2>1 DEF AbstractWorker, AbstractJob
<1>3. Spoken
  BY DEF BridgeInv, BridgeTypeOK
<1>4. CASE Stream!Next
  <2>1. AbstractHost!Next
    BY <1>3, <1>4, StreamInHost
  <2> QED
    BY <1>2, <2>1 DEF HostFollows, AbstractHost!HostNext, AbstractHost!Execute, AbstractJob
<1>5. CASE UNCHANGED <<program, out, Phase, Open>>
  BY <1>2, <1>5, OutSame DEF HostFollows, Seen
<1> QED
  BY <1>1, <1>4, <1>5, FollowWork DEF BridgeInv, Follows

LEMMA HostEnds ==
    ASSUME BridgeInv, ClearRunning \/ EndThread
    PROVE  HostFollows
<1> USE DEF client, control, bridgeVars, allVars, vars
<1>1. UNCHANGED <<interpreter, out, cancel, inbox, ctl, request, job>>
  BY DEF ClearRunning, EndThread
<1>2. UNCHANGED <<program, AbstractOut, Phase, Open, AbstractJob>>
  <2>1. cancel' \in BOOLEAN
    BY <1>1 DEF BridgeInv, IInv, InterpreterOK
  <2> QED
    BY <1>1, <2>1, SeenAlone, OutSame DEF AbstractJob
<1>3. CASE ClearRunning
  <2>1. /\ ctl # "join" /\ ctl' # "join" /\ running' = FALSE /\ worker' = "ending"
        /\ worker = "clear" \/ (worker = "execute" /\ pc = "over")
    BY <1>1, <1>3 DEF ClearRunning, BridgeInv, ThreadsOK
  <2>2. pc = "over" => Phase = "over"
    BY DEF Phase
  <2>3. AbstractHost!Clear
    BY <1>1, <1>2, <2>1, <2>2
       DEF AbstractHost!Clear, AbstractHost!vars, AbstractWorker, AbstractOut, AbstractJob
  <2> QED
    BY <2>3 DEF HostFollows, AbstractHost!HostNext
<1>4. CASE EndThread
  <2>1. worker = "ending" /\ worker' = "done" /\ running' = running
    BY <1>4 DEF EndThread
  <2> QED
    BY <1>1, <1>2, <2>1 DEF HostFollows, Seen, AbstractWorker
<1> QED
  BY <1>3, <1>4

LEMMA HostStep ==
    BridgeInv /\ [BridgeNext]_allVars => [AbstractHost!HostNext]_(AbstractHost!host)
<1> SUFFICES ASSUME BridgeInv, [BridgeNext]_allVars
             PROVE  AbstractHost!HostNext \/ UNCHANGED AbstractHost!host
  OBVIOUS
<1>1. HostFollows
  BY HostClient, HostHandles, HostControls, HostDiagnoses, HostExecutes, HostEnds
     DEF BridgeNext, ControlStep, WorkerStep
<1>2. UNCHANGED Seen => UNCHANGED AbstractHost!host
  BY DEF Seen, AbstractHost!host, AbstractHost!vars, AbstractOut, AbstractJob
<1> QED
  BY <1>1, <1>2 DEF HostFollows

(* Two threads, their flags and a join behave, for every client, program,  *)
(* limit and interleaving, like one host that handles requests in order,   *)
(* answers each of them and says of an accepted program what RunStream     *)
(* allows (protocol_bridge.hpp:42-89).                                     *)
THEOREM HostImplemented == BridgeSpec => ImplementsHost
BY HostStart, HostStep, BridgeInductive, PTL DEF BridgeSpec, ImplementsHost, AbstractHost!HostSpec
=============================================================================
