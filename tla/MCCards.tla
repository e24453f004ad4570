------------------------------ MODULE MCCards ------------------------------
(***************************************************************************)
(* Instance of Cards for TLC: every form with operands of every sort, few  *)
(* and many, alone and inside others, and two edits of what is on display. *)
(***************************************************************************)
EXTENDS Cards

MCNumerals == {"0", "1", "4", "40", "90", "1000"}

A(name) == Atom(name)

F(name, items) == Form(name, items)

MCDefault == <<F("repeat", <<A("4"), F("drive", <<A("40"), A("1000")>>), F("turn-right", <<A("90")>>)>>)>>

Sensor == F("distance-cm", <<>>)

Compare == F("<", <<Sensor, A("1")>>)

Headed == List(<<List(<<A("f"), A("1")>>), A("x")>>)

Operands == {<<>>, <<A("1")>>, <<A("x")>>, <<A("true"), A("1")>>, <<A("x"), A("1")>>, <<A("red"), Compare>>,
             <<Compare, F("beep", <<>>)>>, <<Headed, F("stop", <<>>)>>, <<A("x"), A("y")>>,
             <<List(<<A("f"), A("x")>>), F("wait", <<A("x")>>)>>, <<List(<<>>), A("1")>>,
             <<List(<<A("f"), A("1")>>), A("1")>>, <<Sensor, F("beep", <<>>), F("set!", <<A("x"), A("1")>>)>>,
             <<Compare, F("do", <<F("beep", <<>>), F("stop", <<>>)>>), F("if", <<A("x"), F("beep", <<>>), F("f", <<>>)>>)>>,
             <<Compare, F("f", <<>>), F("stop", <<>>), F("beep", <<>>)>>}

Heads == {"do", "repeat", "when", "while", "if", "define", "set!", "drive", "wait", "stop", "and", "f"}

Statements == {F(h, ops) : h \in Heads, ops \in Operands} \cup {A("x"), A("1"), List(<<>>), Headed, List(<<A("1"), A("1")>>)}

MCPrograms == {<<s>> : s \in Statements}

(* One program for each item of the list in                                *)
(* docs/superpowers/specs/2026-06-07-cardcode-ui-design.md:143-154.        *)
MCLanguage ==
    {<<F("define", <<A("x"), A("0")>>), F("set!", <<A("x"), A("1")>>)>>,
     <<F("define", <<List(<<A("f"), A("x")>>), F("wait", <<A("x")>>)>>), F("f", <<A("1")>>)>>,
     <<F("do", <<F("when", <<Compare, F("beep", <<>>)>>), F("if", <<A("true"), F("stop", <<>>), F("light", <<A("red")>>)>>)>>)>>}

MCInputs == {A("1"), A("x"), A("true"), Compare, Headed}
=============================================================================
