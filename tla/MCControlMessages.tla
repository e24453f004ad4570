------------------------- MODULE MCControlMessages -------------------------
(***************************************************************************)
(* Instance of ControlMessages for TLC: every message of the protocol with *)
(* fields of every type, in and out of order, nested values, strings over  *)
(* the characters that matter to JSON and to UTF-8, and broken lines.      *)
(***************************************************************************)
EXTENDS ControlMessages

MCEncoded ==
    [b \in 0 .. 127 |-> <<b>>]
        @@ (128 :> <<194, 128>>) @@ (233 :> <<195, 169>>) @@ (2047 :> <<223, 191>>)
        @@ (2048 :> <<224, 160, 128>>) @@ (8364 :> <<226, 130, 172>>) @@ (65535 :> <<239, 191, 191>>)

Points == {0, 8, 9, 10, 31, 32, 34, 47, 92, 97, 127} \cup (DOMAIN MCEncoded \ 0 .. 127)

Strings == UNION {[1 .. n -> Points] : n \in 0 .. 2}

Word(s) == Str(Ascii(s))

O(members) == [type |-> "Obj", obj |-> [i \in DOMAIN members |-> <<Ascii(members[i][1]), members[i][2]>>]]

Simple == {Null, Bool(TRUE), Bool(FALSE), Num(0, 0), Num(12, 0), Num(-7, 0), Num(15, 1), Num(-25, -1), Num(3, 2),
           Word("f"), Arr(<<>>), O(<<>>)}

Few == {Null, Num(12, 0), Word("f"), Arr(<<Bool(TRUE)>>), O(<<>>)}

Nested == {Arr(<<a, b>>) : a, b \in Few}
            \cup {O(<<<<"a", a>>, <<k, b>>>>) : a, b \in Few, k \in {"a", "b", ""}}

Limit == {Num(n, 0) : n \in {-1, 0, 7, 15, 16, 99, 100, 101}} \cup {Num(15, -1), Num(5, 3), Word("9"), Null}

Runs == {O(<<<<"type", Word("run")>>, <<"source", Word("(f)")>>,
             <<"limits", O(<<<<"maxTotalSteps", n>>, <<m, Num(3, 0)>>>>)>>>>) :
            n \in Limit, m \in {"maxRepeatCount", "maxTotalSteps", "other"}}
         \cup {O(<<<<"limits", a>>, <<"maxCallDepth", Num(1, 0)>>, <<"source", a>>, <<"type", Word("run")>>>>) : a \in Few}

Sensors == {O(<<<<"type", Word("setSensor")>>, <<"sensor", Word(s)>>, <<"value", a>>>>) :
               s \in {"distance-cm", "button"}, a \in Simple}
           \cup {O(<<<<"type", Word("setSensor")>>, <<"value", Bool(TRUE)>>, <<"sensor", Word(s)>>>>) :
               s \in {"line-left", "line-right", "x"}}

Others == {O(<<<<"type", Word(t)>>, <<f, Word("(f)")>>>>) :
               t \in {"compile", "run", "cancel", "reset", "setSensor", "fly"}, f \in {"source", "sensor", "value"}}
          \cup {O(<<<<"type", a>>>>) : a \in Simple}
          \cup {O(<<<<"type", Str(<<p>>)>>>>) : p \in Points}

MCValues == {Str(s) : s \in Strings} \cup Simple \cup Nested \cup Runs \cup Sensors \cup Others

Cancel == Ascii("{\"type\":\"cancel\"}")

MCGarbage == {
    Cancel \o Ascii(" x"), Cancel \o Cancel, Ascii("{\"type\":\"cancel\",\"n\":1-2}"),
    Ascii("{\"type\":\"cancel\",\"n\":") \o <<Quote, Newline, Quote>> \o Ascii("}"),
    Ascii("{\"type\":\"cancel\",}"), Ascii("{type:\"cancel\"}"), Ascii("[1,]"), Ascii("-"), Ascii("+"),
    Ascii("nul"), Ascii("\"\\u00g0\""), Ascii("\"\\u00"), Ascii("\"\\x\""), Ascii("\""), Ascii("\"\\"), <<>>, <<200>>}

Where == <<<<"startOffset", 0>>, <<"endOffset", 12>>>>

MCReports == {<<>>} \cup {<<[severity |-> "error", message |-> m, span |-> Where]>> : m \in {<<200>>, <<7, 34>>, <<92>>}}
                    \cup {<<[severity |-> "warning", message |-> <<10>>, span |-> Where],
                            [severity |-> "error", message |-> <<>>, span |-> Where]>>}
=============================================================================
