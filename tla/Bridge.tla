------------------------------- MODULE Bridge -------------------------------
(***************************************************************************)
(* The host: harness/protocol_bridge.hpp and harness/forwarding_host.hpp   *)
(* around the engine.  A control thread reads one message at a time from   *)
(* the client; a worker thread compiles and executes the accepted program. *)
(* They share the atomics running_, cancel_ and the sensor values, and the *)
(* output, which a mutex makes atomic line by line (harness/main.cpp).     *)
(***************************************************************************)
EXTENDS Engine

CONSTANTS
    Compiled,        \* program text -> its tree, for the texts that compile
    Requests,        \* the control messages a client may send
    Defaults,        \* the ExecutionLimits of a run that asks for none
    WordSize,        \* the number of values of std::uint32_t
    PowerOn,         \* sensor -> its value after a reset
    MaxRequests,     \* bound: messages the client sends
    MaxInbox         \* bound: messages sent and not yet read

(* Whatever the client wrote, what is read of it is an integer or a flag   *)
(* (protocol_bridge.hpp:91-111), which is what the handlers are given.     *)
RequestOK(m) ==
    /\ m.type = "run" => \A f \in DOMAIN m.limits : m.limits[f] \in Int
    /\ m.type = "setSensor" => m.sensor \in Sensors /\ m.value \in Ints

ASSUME BridgeAssumption ==
    /\ DOMAIN Compiled # {}
    /\ \A source \in DOMAIN Compiled : Compiled[source] \in Programs
    /\ \A m \in Requests : RequestOK(m)
    /\ WordSize \in Nat \ {0}
    /\ Defaults \in [maxRepeat : 0 .. WordSize - 1, maxSteps : 0 .. WordSize - 1,
                     maxDepth : 0 .. WordSize - 1]
    /\ PowerOn \in [Sensors -> Ints]

VARIABLES
    inbox,     \* messages the client has sent and the host has not read
    sent,      \* history: how many messages the client has sent
    asks,      \* history: how many of them were run requests
    hungUp,    \* the client has closed the connection
    ctl,       \* the control thread, see ControlPCs
    request,   \* the message the control thread handles
    stores,    \* sensor stores it has still to do
    running,   \* running_
    worker,    \* the worker thread, see WorkerPCs
    job,       \* the program text and limits the worker was created with
    reading,   \* the atomics of ForwardingRobotHost
    asked      \* history: a cancel was handled since the last launch

client == <<inbox, sent, asks, hungUp>>

control == <<ctl, request, stores, reading>>

bridgeVars == <<client, control, running, worker, job, asked>>

allVars == <<vars, bridgeVars>>

ControlPCs == {"read",      \* between two messages
               "join",      \* in do_run, before the previous worker is joined
               "store",     \* in set_* or reset
               "close",     \* in the destructor
               "closed"}    \* the bridge is gone

WorkerPCs == {"none",      \* no thread was created yet
              "compile",   \* the job starts
              "execute",   \* in execute()
              "clear",     \* compilation failed
              "ending",    \* running_ is false, the thread has not ended
              "done"}      \* the thread has ended

-----------------------------------------------------------------------------
(***************************************************************************)
(* Messages.  What a diagnostics message belongs to is history, it is not  *)
(* on the wire.                                                            *)
(***************************************************************************)
Compiles(source) == source \in DOMAIN Compiled

Diagnostics(source, by) ==
    [type |-> "diagnostics", ok |-> Compiles(source), source |-> source, by |-> by]

ErrorMessage(why) == [type |-> "error", why |-> why]

(* The messages that settle a run request.                                 *)
Settles(m) ==
    \/ m.type \in {"programDone", "programError"}
    \/ m.type = "diagnostics" /\ m.by = "run" /\ ~m.ok
    \/ m.type = "error" /\ m.why = "busy"

Settled == Cardinality({i \in DOMAIN out : Settles(out[i])})

-----------------------------------------------------------------------------
(***************************************************************************)
(* The client, and the host's control thread.                              *)
(***************************************************************************)
Alive == pc # "trapped"

Send(m) ==
    /\ ~hungUp /\ sent < MaxRequests /\ Len(inbox) < MaxInbox
    /\ inbox' = Append(inbox, m)
    /\ sent' = sent + 1
    /\ asks' = asks + (IF m.type = "run" THEN 1 ELSE 0)
    /\ UNCHANGED <<vars, hungUp, control, running, worker, job, asked>>

HangUp ==
    /\ ~hungUp
    /\ hungUp' = TRUE
    /\ UNCHANGED <<vars, inbox, sent, asks, control, running, worker, job, asked>>

Reading(type) ==
    /\ Alive /\ ctl = "read" /\ inbox # <<>>
    /\ Head(inbox).type = type
    /\ inbox' = Tail(inbox)
    /\ request' = Head(inbox)
    /\ UNCHANGED <<sent, asks, hungUp>>

HandleGarbage ==
    /\ Reading("garbage")
    /\ Emit(ErrorMessage("malformed"))
    /\ UNCHANGED <<interpreter, cancel, ctl, stores, reading, running, worker, job, asked>>

HandleCompile ==
    /\ Reading("compile")
    /\ Emit(Diagnostics(Head(inbox).source, "compile"))
    /\ UNCHANGED <<interpreter, cancel, ctl, stores, reading, running, worker, job, asked>>

HandleCancel ==
    /\ Reading("cancel")
    /\ cancel' = TRUE
    /\ asked' = TRUE
    /\ UNCHANGED <<interpreter, out, ctl, stores, reading, running, worker, job>>

(* Mutant: a request is accepted whether or not a program is running.      *)
HandleRunAlways ==
    /\ Reading("run")
    /\ running' = TRUE
    /\ ctl' = "join"
    /\ UNCHANGED <<interpreter, out, cancel, stores, reading, worker, job, asked>>

(* Mutant: a request is refused without a word.                            *)
HandleRunSilently ==
    /\ Reading("run")
    /\ running' = TRUE
    /\ ctl' = IF running THEN "read" ELSE "join"
    /\ UNCHANGED <<interpreter, out, cancel, stores, reading, worker, job, asked>>

(* running_.exchange(true): the request is refused or the slot is taken.   *)
HandleRun ==
    /\ Reading("run")
    /\ running' = TRUE
    /\ IF running
         THEN Emit(ErrorMessage("busy")) /\ UNCHANGED ctl
         ELSE ctl' = "join" /\ UNCHANGED out
    /\ UNCHANGED <<interpreter, cancel, stores, reading, worker, job, asked>>

(* A negative limit wraps around in the cast to std::uint32_t.             *)
ParseLimits(given_) ==
    [f \in DOMAIN Defaults |-> IF f \in DOMAIN given_ THEN given_[f] % WordSize ELSE Defaults[f]]

(* Mutant: the flag of the previous run is left as it is.                  *)
LaunchKeepsFlag ==
    /\ Alive /\ ctl = "join" /\ worker \in {"none", "done"}
    /\ asked' = FALSE
    /\ job' = [source |-> request.source, limits |-> ParseLimits(request.limits)]
    /\ worker' = "compile"
    /\ ctl' = "read"
    /\ UNCHANGED <<vars, client, request, stores, running, reading>>

(* The rest of do_run, once the previous worker has ended.                 *)
Launch ==
    /\ Alive /\ ctl = "join" /\ worker \in {"none", "done"}
    /\ cancel' = FALSE
    /\ asked' = FALSE
    /\ job' = [source |-> request.source, limits |-> ParseLimits(request.limits)]
    /\ worker' = "compile"
    /\ ctl' = "read"
    /\ UNCHANGED <<interpreter, out, client, request, stores, running, reading>>

HandleSensor ==
    /\ Reading("setSensor") \/ Reading("reset")
    /\ stores' = IF Head(inbox).type = "setSensor"
                   THEN <<[sensor |-> Head(inbox).sensor, value |-> Head(inbox).value]>>
                   ELSE [i \in 1 .. 4 |->
                            LET s == <<"DistanceCm", "Button", "LineLeft", "LineRight">>[i]
                            IN  [sensor |-> s, value |-> PowerOn[s]]]
    /\ ctl' = "store"
    /\ UNCHANGED <<vars, reading, running, worker, job, asked>>

(* Each sensor is an atomic of its own.                                    *)
Store ==
    /\ Alive /\ ctl = "store"
    /\ reading' = [reading EXCEPT ![Head(stores).sensor] = Head(stores).value]
    /\ stores' = Tail(stores)
    /\ ctl' = IF Tail(stores) = <<>> THEN "read" ELSE "store"
    /\ UNCHANGED <<vars, client, request, running, worker, job, asked>>

(* End of input: the bridge is destroyed, its worker joined.               *)
EndOfInput ==
    /\ Alive /\ ctl = "read" /\ hungUp /\ inbox = <<>>
    /\ ctl' = "close"
    /\ UNCHANGED <<vars, client, request, stores, reading, running, worker, job, asked>>

Close ==
    /\ Alive /\ ctl = "close" /\ worker \in {"none", "done"}
    /\ ctl' = "closed"
    /\ UNCHANGED <<vars, client, request, stores, reading, running, worker, job, asked>>

-----------------------------------------------------------------------------
(***************************************************************************)
(* The worker thread.                                                      *)
(***************************************************************************)
(* Mutant: the job, not do_run, lowers the cancel flag.                    *)
CompileJobLowersFlag ==
    /\ worker = "compile"
    /\ Emit(Diagnostics(job.source, "run"))
    /\ cancel' = FALSE
    /\ IF Compiles(job.source)
         THEN /\ worker' = "execute"
              /\ program' = Compiled[job.source] /\ limits' = job.limits
              /\ pc' = "start" /\ cur' = Compiled[job.source].root
              /\ ret' = None /\ stack' = <<>> /\ env' = <<EmptyScope>>
              /\ callDepth' = 0 /\ steps' = 0
              /\ errored' = FALSE /\ cancelled' = FALSE /\ late' = 0
         ELSE worker' = "clear" /\ UNCHANGED interpreter
    /\ UNCHANGED <<client, control, running, job, asked>>

CompileJob ==
    /\ worker = "compile"
    /\ Emit(Diagnostics(job.source, "run"))
    /\ IF Compiles(job.source)
         THEN /\ worker' = "execute"
              /\ program' = Compiled[job.source] /\ limits' = job.limits
              /\ pc' = "start" /\ cur' = Compiled[job.source].root
              /\ ret' = None /\ stack' = <<>> /\ env' = <<EmptyScope>>
              /\ callDepth' = 0 /\ steps' = 0
              /\ errored' = FALSE /\ cancelled' = FALSE /\ late' = 0
         ELSE worker' = "clear" /\ UNCHANGED interpreter
    /\ UNCHANGED <<cancel, client, control, running, job, asked>>

ExecuteJob ==
    /\ worker = "execute"
    /\ Interpret \/ (pc = "inner" /\ kind \in Sensors /\ ReadSensor(reading[kind]))
    /\ UNCHANGED bridgeVars

(* The last thing the job does, after execute() has reported the end.      *)
ClearRunning ==
    /\ Alive /\ (worker = "clear" \/ (worker = "execute" /\ pc = "over"))
    /\ running' = FALSE
    /\ worker' = "ending"
    /\ UNCHANGED <<vars, client, control, job, asked>>

EndThread ==
    /\ Alive /\ worker = "ending"
    /\ worker' = "done"
    /\ UNCHANGED <<vars, client, control, running, job, asked>>

-----------------------------------------------------------------------------
BridgeInit ==
    /\ program = Compiled[CHOOSE source \in DOMAIN Compiled : TRUE] /\ limits = Defaults
    /\ pc = "over" /\ cur = root
    /\ ret = None /\ stack = <<>> /\ env = <<EmptyScope>>
    /\ callDepth = 0 /\ steps = 0
    /\ errored = FALSE /\ cancelled = FALSE /\ late = 0
    /\ out = <<>> /\ cancel = FALSE
    /\ inbox = <<>> /\ sent = 0 /\ asks = 0 /\ hungUp = FALSE
    /\ ctl = "read" /\ request = [type |-> "none"] /\ stores = <<>>
    /\ running = FALSE /\ worker = "none" /\ job = [source |-> "none", limits |-> Defaults]
    /\ reading = PowerOn /\ asked = FALSE

ControlStep == HandleGarbage \/ HandleCompile \/ HandleCancel \/ HandleRun \/ Launch
              \/ HandleSensor \/ Store \/ EndOfInput \/ Close

WorkerStep == CompileJob \/ ExecuteJob \/ ClearRunning \/ EndThread

(* The bridge is gone, or the process is.                                  *)
Gone ==
    /\ ctl = "closed" \/ ~Alive
    /\ UNCHANGED allVars

BridgeNext == ControlStep \/ WorkerStep \/ HangUp \/ Gone \/ \E m \in Requests : Send(m)

(* Both threads are scheduled by the operating system.                     *)
BridgeSpec ==
    /\ BridgeInit /\ [][BridgeNext]_allVars
    /\ WF_allVars(ControlStep) /\ WF_allVars(WorkerStep)
-----------------------------------------------------------------------------
(***************************************************************************)
(* Properties.                                                             *)
(***************************************************************************)
(* A flag raised for one run never ends another: a program ends as         *)
(* cancelled only if a cancel was handled after that program was launched, *)
(* however many earlier cancels came too late (protocol_bridge.hpp:74).    *)
CancelIsForThisRun == worker = "execute" /\ cancelled => asked

(* ... and it is not lost: nothing lowers the flag while a worker lives.   *)
CancelNotLost == [][cancel /\ ~cancel' => worker \in {"none", "done"}]_allVars

(* The control thread joins a worker only when it has nothing left to do   *)
(* but end: control messages, a cancel among them, never wait for a        *)
(* program (protocol_bridge.hpp:70-71,84).                                 *)
JoinIsShort == ctl = "join" => worker \in {"none", "ending", "done"}

(* Every run request is answered in the end by programDone, programError,  *)
(* failing diagnostics or a refusal, and once only, unless the process     *)
(* dies: also when it arrives while the previous worker is still ending    *)
(* (protocol_bridge.hpp:67-89).                                            *)
Answered == <>[](~Alive \/ asks = Settled)

(* A client that hangs up is rid of the bridge in the end: the destructor  *)
(* waits for the program that runs, which is not cancelled, but every      *)
(* program ends by its limits (protocol_bridge.hpp:37-39).                 *)
TearDown == hungUp ~> (~Alive \/ ctl = "closed")

(* The bridge is a host as the page sees one.                              *)
AbstractWorker ==
    IF ctl = "join" THEN "compile" ELSE IF worker \in {"compile", "execute", "clear"} THEN worker ELSE "idle"

AbstractMessage(m) ==
    IF m.type = "diagnostics" THEN [type |-> m.type, ok |-> m.ok, source |-> m.source] ELSE m

AbstractHost ==
    INSTANCE Host WITH
        out <- [i \in DOMAIN out |-> AbstractMessage(out[i])],
        phase <- Phase, open <- Open,
        busy <- running, worker <- AbstractWorker,
        job <- IF ctl = "join" THEN request.source ELSE job.source

(* Two threads, an atomic flag and a join (protocol_bridge.hpp:42-89)      *)
(* behave like one host that handles requests in order, answers each of    *)
(* them, and says of each accepted program what RunStream allows and       *)
(* nothing in between two of them.                                         *)
ImplementsHost == AbstractHost!HostSpec

=============================================================================
