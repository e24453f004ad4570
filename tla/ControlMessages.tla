-------------------------- MODULE ControlMessages --------------------------
(***************************************************************************)
(* ProtocolBridge::handle on the bytes of a line: what the host takes a    *)
(* line for and what it writes back, before Bridge's threads come in.      *)
(***************************************************************************)
EXTENDS Json

CONSTANTS
    Values,        \* the values a client writes, strings as code points
    Encoded,       \* code point -> its UTF-8 encoding, for those that occur
    Garbage,       \* lines that no client means to write
    Reports,       \* the diagnostics compile() may return
    UintSize,      \* the number of values of std::uint32_t
    IntSize        \* the number of values of int

ASSUME MessagesAssumption == UintSize \in Nat \ {0} /\ IntSize \in Nat \ {0}

VARIABLES
    meant,     \* history: the value the line was written for, see Aimless
    line,      \* the line handle() is given
    outcome,   \* what it takes it for, Pending before
    said,      \* history: the strings of the reply, before they were written
    reply      \* the bytes emitted in answer, <<>> if none

Aimless == [type |-> "Garbage"]

Pending == [do |-> "pending"]

messageVars == <<meant, line, outcome, said, reply>>

-----------------------------------------------------------------------------
(***************************************************************************)
(* A reference for the reader: the texts JSON allows for a value, with the *)
(* same blanks everywhere and its strings escaped in one of two ways.      *)
(***************************************************************************)
HexOf(n) == [k \in 1 .. 4 |-> HexDigit[((n \div 16 ^ (4 - k)) % 16) + 1]]

WrittenPoint(p, hex) ==
    IF hex \/ (p < 32 /\ p \notin DOMAIN Letter) THEN <<Backslash, 117>> \o HexOf(p)
    ELSE IF p \in DOMAIN Letter THEN <<Backslash, Letter[p]>>
    ELSE Encoded[p]

WrittenString(points, hex) ==
    <<Quote>> \o FlattenSeq([i \in DOMAIN points |-> WrittenPoint(points[i], hex)]) \o <<Quote>>

RECURSIVE Written(_, _, _), Understood(_)

Written(v, blanks, hex) ==
    LET b == blanks
        Item(x) == b \o Written(x, b, hex) \o b
        Member(m) == b \o WrittenString(m[1], hex) \o b \o Ascii(":") \o Item(m[2])
    IN  CASE v.type = "Null" -> Ascii("null")
          [] v.type = "Bool" -> jbool(v.boolean)
          [] v.type = "Num"  -> jnum(v.digits) \o (IF v.exp = 0 THEN <<>> ELSE Ascii("e") \o jnum(v.exp))
          [] v.type = "Str"  -> WrittenString(v.str, hex)
          [] v.type = "Arr"  -> Ascii("[") \o b \o JoinWith([i \in DOMAIN v.arr |-> Item(v.arr[i])], Ascii(",")) \o Ascii("]")
          [] v.type = "Obj"  -> Ascii("{") \o b \o JoinWith([i \in DOMAIN v.obj |-> Member(v.obj[i])], Ascii(",")) \o Ascii("}")

BytesOf(points) == FlattenSeq([i \in DOMAIN points |-> Encoded[points[i]]])

(* The value the reader should make of it; its members are a sequence.     *)
Understood(v) ==
    CASE v.type = "Str" -> Str(BytesOf(v.str))
      [] v.type = "Arr" -> Arr([i \in DOMAIN v.arr |-> Understood(v.arr[i])])
      [] v.type = "Obj" ->
            LET first(key) == Min({i \in DOMAIN v.obj : BytesOf(v.obj[i][1]) = key})
            IN  Obj([key \in {BytesOf(v.obj[i][1]) : i \in DOMAIN v.obj} |-> Understood(v.obj[first(key)][2])])
      [] OTHER -> v

-----------------------------------------------------------------------------
(***************************************************************************)
(* handle().                                                               *)
(***************************************************************************)
Error(why, text) == {[do |-> "error", why |-> why, text |-> text]}

Key(name) == Ascii(name)

Limits == [maxSteps |-> Key("maxTotalSteps"), maxRepeat |-> Key("maxRepeatCount"),
           maxDepth |-> Key("maxCallDepth")]

(* Mutant: a limit is read from the message itself.                        *)
ParseLimitsFlat(msg) ==
    LET given == {f \in DOMAIN Limits : Has(msg, Limits[f])}
    IN  {[f \in given |-> n[f] % UintSize] :
            n \in {m \in [given -> UNION {as_int(msg.obj[Limits[f]]) : f \in given}] :
                      \A f \in given : m[f] \in as_int(msg.obj[Limits[f]])}}

(* parse_limits: those that are given, cast to std::uint32_t.              *)
ParseLimits(msg) ==
    LET limits == IF Has(msg, Key("limits")) THEN msg.obj[Key("limits")] ELSE Null
        given == {f \in DOMAIN Limits : Has(limits, Limits[f])}
    IN  {[f \in given |-> n[f] % UintSize] :
            n \in {m \in [given -> UNION {as_int(limits.obj[Limits[f]]) : f \in given}] :
                      \A f \in given : m[f] \in as_int(limits.obj[Limits[f]])}}

Source(msg) == as_str(msg.obj[Key("source")])

do_compile(msg) ==
    IF Has(msg, Key("source")) THEN {[do |-> "compile", source |-> Source(msg)]} ELSE Error("missing", <<>>)

do_run(msg) ==
    IF Has(msg, Key("source"))
      THEN {[do |-> "run", source |-> Source(msg), limits |-> l] : l \in ParseLimits(msg)}
      ELSE Error("missing", <<>>)

ToInt(n) == ((n + IntSize \div 2) % IntSize) - IntSize \div 2

SetSensor(msg) ==
    LET name == as_str(msg.obj[Key("sensor")])
        value == msg.obj[Key("value")]
        Set(sensor, v) == [do |-> "setSensor", sensor |-> sensor, value |-> v]
    IN  IF ~Has(msg, Key("sensor")) \/ ~Has(msg, Key("value")) THEN Error("missing", <<>>)
        ELSE IF name = Ascii("distance-cm") THEN {Set("DistanceCm", ToInt(n)) : n \in as_int(value)}
        ELSE IF name = Ascii("button") THEN {Set("Button", as_bool(value))}
        ELSE IF name = Ascii("line-left") THEN {Set("LineLeft", as_bool(value))}
        ELSE IF name = Ascii("line-right") THEN {Set("LineRight", as_bool(value))}
        ELSE Error("sensor", name)

Dispatch(msg) ==
    LET type == msg.obj[Key("type")].str
    IN  IF ~Has(msg, Key("type")) \/ msg.obj[Key("type")].type # "Str" THEN Error("type", <<>>)
        ELSE IF type = Ascii("compile") THEN do_compile(msg)
        ELSE IF type = Ascii("run") THEN do_run(msg)
        ELSE IF type = Ascii("cancel") THEN {[do |-> "cancel"]}
        ELSE IF type = Ascii("setSensor") THEN SetSensor(msg)
        ELSE IF type = Ascii("reset") THEN {[do |-> "reset"]}
        ELSE Error("unknown", type)

Outcomes(text) ==
    LET parsed == json_parse(text)
    IN  IF ~parsed.ok \/ parsed.v.type # "Obj" THEN Error("malformed", <<>>) ELSE Dispatch(parsed.v)

-----------------------------------------------------------------------------
(***************************************************************************)
(* The answers: error() and emit_diagnostics().                            *)
(***************************************************************************)
ErrorLine(text) == jobj(<<<<Ascii("type"), jstr(Ascii("error"))>>, <<Ascii("message"), jstr(text)>>>>)

jspan(span) == jobj([i \in DOMAIN span |-> <<Ascii(span[i][1]), jnum(span[i][2])>>])

DiagnosticLine(d) ==
    jobj(<<<<Ascii("severity"), jstr(Ascii(d.severity))>>, <<Ascii("message"), jstr(d.message)>>,
           <<Ascii("span"), jspan(d.span)>>>>)

DiagnosticsLine(report) ==
    jobj(<<<<Ascii("type"), jstr(Ascii("diagnostics"))>>,
           <<Ascii("ok"), jbool(\A i \in DOMAIN report : report[i].severity # "error")>>,
           <<Ascii("diagnostics"), jarr([i \in DOMAIN report |-> DiagnosticLine(report[i])])>>>>)

MessageInit ==
    /\ \/ \E v \in Values, blanks \in {<<>>, <<32>>, <<9, 13>>}, hex \in BOOLEAN :
             meant = v /\ line = Written(v, blanks, hex)
       \/ meant = Aimless /\ line \in Garbage
    /\ outcome = Pending /\ said = <<>> /\ reply = <<>>

Handle ==
    /\ outcome = Pending
    /\ outcome' \in Outcomes(line)
    /\ UNCHANGED <<meant, line, said, reply>>

ReplyError ==
    /\ outcome # Pending /\ outcome.do = "error" /\ reply = <<>>
    /\ said' = <<outcome.text>>
    /\ reply' = ErrorLine(outcome.text)
    /\ UNCHANGED <<meant, line, outcome>>

ReplyDiagnostics ==
    /\ outcome # Pending /\ outcome.do \in {"compile", "run"} /\ reply = <<>>
    /\ \E report \in Reports :
          /\ said' = [i \in DOMAIN report |-> report[i].message]
          /\ reply' = DiagnosticsLine(report)
    /\ UNCHANGED <<meant, line, outcome>>

(* handle() has returned.                                                  *)
Handled ==
    /\ outcome # Pending /\ (outcome.do = "error" => reply # <<>>)
    /\ UNCHANGED messageVars

MessageNext == Handle \/ ReplyError \/ ReplyDiagnostics \/ Handled

MessageSpec == MessageInit /\ [][MessageNext]_messageVars

-----------------------------------------------------------------------------
(***************************************************************************)
(* Properties.                                                             *)
(***************************************************************************)
Read == outcome # Pending /\ reply = <<>>

(* The reader gives back what was written: every JSON text of a value, in  *)
(* whatever escapes and blanks, is that value, to its last byte; of        *)
(* members with the same name the first counts (json.hpp:122-259).         *)
ReadsWhatWasWritten ==
    Read /\ meant # Aimless => json_parse(line) = Got(Understood(meant), Len(line))

(* The texts the host echoes, a name it does not know or a piece of the    *)
(* program, may hold any byte; the line it writes has no line break or     *)
(* other control character in it and a reader finds the same bytes again   *)
(* (json_escape, docs/integration/protocol.md:11-12).                      *)
RepliesAreLines ==
    reply # <<>> =>
        LET read == json_parse(reply)
            texts == IF outcome.do = "error" THEN <<read.v.obj[Key("message")]>>
                     ELSE [i \in DOMAIN said |->
                              read.v.obj[Key("diagnostics")].arr[i].obj[Key("message")]]
        IN  /\ \A i \in DOMAIN reply : reply[i] >= 32
            /\ read.ok /\ read.i = Len(reply)
            /\ texts = [i \in DOMAIN said |-> Str(said[i])]

(* A limit that was asked for is obeyed to the number as long as it fits   *)
(* (parse_limits, protocol_bridge.hpp:103-111; larger or negative ones are *)
(* taken modulo the size of std::uint32_t), and only those that were given *)
(* in the object limits replace a default.                                 *)
LimitsAsAsked ==
    outcome # Pending /\ outcome.do = "run" =>
        LET msg == json_parse(line).v
            asked == IF Has(msg, Key("limits")) THEN msg.obj[Key("limits")] ELSE Null
        IN  /\ DOMAIN outcome.limits = {f \in DOMAIN Limits : Has(asked, Limits[f])}
            /\ \A f \in DOMAIN outcome.limits :
                  LET v == asked.obj[Limits[f]]
                  IN  v.type = "Num" /\ v.exp = 0 /\ v.digits \in 0 .. UintSize - 1 =>
                          outcome.limits[f] = v.digits
=============================================================================
