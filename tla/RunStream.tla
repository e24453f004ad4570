----------------------------- MODULE RunStream -----------------------------
(***************************************************************************)
(* What the message stream of one run promises to whoever reads it: the    *)
(* block editor, the robot, a test.  The interpreter's values, scopes and  *)
(* limits are absent; what is left is which message may follow which.      *)
(*   - node events nest like the program: a node starts under its parent   *)
(*     (or under the call of its function) and is done before its parent;  *)
(*   - only the innermost running node moves the robot or reads a sensor,  *)
(*     and a command carries arguments inside the safety bounds;           *)
(*   - after a failure nothing but the emergency stop and programError     *)
(*     follows, and programDone follows only a complete program.           *)
(* It does not promise that an event is about a highlightable node, as     *)
(* protocol.md:113-115 does: that a node was skipped or failed is reported *)
(* of operators and literals as well (engine.cpp:49-53,115-117), and under *)
(* an id that is not theirs.  What starts and is done is highlightable.    *)
(***************************************************************************)
EXTENDS Ast

VARIABLES
    out,     \* the stream so far
    phase,   \* how far the run is
    open     \* the nodes entered and not left, outermost first

vars == <<program, out, phase, open>>

Phases == {"called", "ready", "running", "failed", "stopped", "over", "gone"}

(* The nodes that may be entered while n is the innermost running node.    *)
Under(n) ==
    LET callee == {f \in {root} \cup {Ast[root].children[i] : i \in DOMAIN Ast[root].children} :
                      Ast[f].kind = "DefineFunc" /\ Ast[f].op = Ast[n].op}
        parents == IF Ast[n].kind = "Call" THEN callee ELSE {n}
    IN  {Ast[n].args[i] : i \in DOMAIN Ast[n].args}
           \cup UNION {{Ast[p].children[i] : i \in DOMAIN Ast[p].children} : p \in parents}

innermost == open[Len(open)]

SafeArguments(k) ==
    CASE k \in Moves -> {<<Integer(s), Integer(d)>> : s \in 0 .. SpeedMax, d \in 0 .. DurationMax}
      [] k \in Turns -> {<<Integer(d)>> : d \in 0 .. TurnMax}
      [] k = "Wait"  -> {<<Integer(d)>> : d \in 0 .. DurationMax}
      [] k = "Light" -> {<<Color(c)>> : c \in Colors}
      [] OTHER       -> {<<>>}

Event(type, n) == [type |-> type, node |-> n, id |-> IdOf(n)]

Init == out = <<>> /\ phase = "called" /\ open = <<>>

Start ==
    /\ phase = "called"
    /\ phase' = "ready"
    /\ out' = Append(out, [type |-> "programStart"])
    /\ UNCHANGED <<program, open>>

Enter(n) ==
    /\ \/ phase = "ready" /\ n = root
       \/ phase = "running" /\ open # <<>> /\ n \in Under(innermost)
    /\ phase' = "running"
    /\ open' = Append(open, n)
    /\ out' = IF Highlightable(n) THEN Append(out, Event("nodeStart", n)) ELSE out
    /\ UNCHANGED program

Leave ==
    /\ phase = "running" /\ open # <<>>
    /\ open' = SubSeq(open, 1, Len(open) - 1)
    /\ out' = IF Highlightable(innermost)
                THEN Append(out, Event("nodeDone", innermost)) ELSE out
    /\ UNCHANGED <<program, phase>>

(* A statement or branch that is not taken is reported by its parent,      *)
(* whatever it is: a literal or an operator too, with the id of the root.  *)
Skip(n) ==
    /\ phase = "running" /\ open # <<>>
    /\ Ast[innermost].kind \in {"If", "When"} /\ n \in Under(innermost)
    /\ out' = Append(out, Event("nodeSkipped", n))
    /\ UNCHANGED <<program, phase, open>>

Move ==
    /\ phase = "running" /\ open # <<>>
    /\ Ast[innermost].kind \in Commands
    /\ \E args \in SafeArguments(Ast[innermost].kind) :
          out' = Append(out, [type |-> "robotCommand",
                              command |-> Ast[innermost].kind, args |-> args])
    /\ UNCHANGED <<program, phase, open>>

Sense(v) ==
    /\ phase = "running" /\ open # <<>>
    /\ Ast[innermost].kind \in Sensors
    /\ out' = Append(out, [type |-> "sensorRead", sensor |-> Ast[innermost].kind, value |-> v])
    /\ UNCHANGED <<program, phase, open>>

(* A runtime error is blamed on the innermost running node, or on the node *)
(* about to start, be it highlightable or not; being cancelled is not      *)
(* reported until the end.                                                 *)
Fail ==
    /\ phase \in {"ready", "running"}
    /\ phase' = "failed" /\ open' = <<>>
    /\ \/ out' = out
       \/ \E n \in IF open = <<>> THEN {root} ELSE {innermost} \cup Under(innermost) :
             out' = Append(out, Event("nodeError", n))
    /\ UNCHANGED program

Stop ==
    /\ phase = "failed"
    /\ phase' = "stopped"
    /\ out' = Append(out, [type |-> "robotCommand", command |-> "Stop", args |-> <<>>])
    /\ UNCHANGED <<program, open>>

End ==
    /\ \/ /\ phase = "stopped"
          /\ out' = Append(out, [type |-> "programError"])
       \/ /\ phase = "running" /\ open = <<>>
          /\ out' = Append(out, [type |-> "programDone"])
    /\ phase' = "over"
    /\ UNCHANGED <<program, open>>

(* The process is lost in the middle of a division.                        *)
Vanish ==
    /\ phase = "running" /\ open # <<>> /\ Ast[innermost].kind = "Arithmetic"
    /\ phase' = "gone"
    /\ UNCHANGED <<program, out, open>>

Next ==
    \/ Start \/ Leave \/ Move \/ Fail \/ Stop \/ End \/ Vanish
    \/ \E n \in {root} \cup (IF open = <<>> THEN {} ELSE Under(innermost)) : Enter(n) \/ Skip(n)
    \/ \E v \in Ints : Sense(v)

Spec == Init /\ [][Next]_vars
=============================================================================
