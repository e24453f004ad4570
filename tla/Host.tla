-------------------------------- MODULE Host --------------------------------
(***************************************************************************)
(* What a host promises to the page at the other end of a connection: the  *)
(* requests are handled one after the other, an accepted program says what *)
(* RunStream allows, and only one runs at a time.  The threads, the flags, *)
(* the limits and the values of Bridge and Engine are absent; Bridge shows *)
(* that it implements this (ImplementsHost).                               *)
(***************************************************************************)
EXTENDS RunStream

CONSTANTS
    Compiled,    \* program text -> its tree, for the texts that compile
    Requests     \* the control messages of the page

VARIABLES
    inbox,     \* requests sent and not yet handled
    busy,      \* a program was accepted and is not yet through
    worker,    \* "idle", "compile", "execute" or "clear"
    job        \* the text of the accepted program

host == <<vars, inbox, busy, worker, job>>

Diagnostics(source) ==
    [type |-> "diagnostics", ok |-> source \in DOMAIN Compiled, source |-> source]

Error(why) == [type |-> "error", why |-> why]

Say(m) == out' = Append(out, m)

Receive(m) ==
    /\ inbox' = Append(inbox, m)
    /\ UNCHANGED <<vars, busy, worker, job>>

Handle(types) ==
    /\ inbox # <<>> /\ Head(inbox).type \in types
    /\ inbox' = Tail(inbox)

HandleQuietly == Handle({"cancel", "reset", "setSensor"}) /\ UNCHANGED <<vars, busy, worker, job>>

HandleGarbage ==
    /\ Handle({"garbage"})
    /\ Say(Error("malformed"))
    /\ UNCHANGED <<program, phase, open, busy, worker, job>>

HandleCompile ==
    /\ Handle({"compile"})
    /\ Say(Diagnostics(Head(inbox).source))
    /\ UNCHANGED <<program, phase, open, busy, worker, job>>

HandleRun ==
    /\ Handle({"run"})
    /\ IF busy
         THEN Say(Error("busy")) /\ UNCHANGED <<busy, worker, job>>
         ELSE busy' = TRUE /\ worker' = "compile" /\ job' = Head(inbox).source /\ UNCHANGED out
    /\ UNCHANGED <<program, phase, open>>

Diagnose ==
    /\ worker = "compile"
    /\ Say(Diagnostics(job))
    /\ IF job \in DOMAIN Compiled
         THEN worker' = "execute" /\ program' = Compiled[job] /\ phase' = "called" /\ open' = <<>>
         ELSE worker' = "clear" /\ UNCHANGED <<program, phase, open>>
    /\ UNCHANGED <<inbox, busy, job>>

Execute == worker = "execute" /\ Next /\ UNCHANGED <<inbox, busy, worker, job>>

Clear ==
    /\ worker = "clear" \/ (worker = "execute" /\ phase = "over")
    /\ busy' = FALSE /\ worker' = "idle"
    /\ UNCHANGED <<vars, inbox, job>>

HostInit ==
    /\ program \in {Compiled[s] : s \in DOMAIN Compiled}
    /\ out = <<>> /\ phase = "over" /\ open = <<>>
    /\ inbox = <<>> /\ busy = FALSE /\ worker = "idle" /\ job = "none"

HandleNext == HandleQuietly \/ HandleGarbage \/ HandleCompile \/ HandleRun

HostNext == HandleNext \/ Diagnose \/ Execute \/ Clear \/ \E m \in Requests : Receive(m)

HostSpec == HostInit /\ [][HostNext]_host
=============================================================================
