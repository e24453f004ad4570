------------------------------- MODULE MCText -------------------------------
(***************************************************************************)
(* Instance of CompileText and PageParser for TLC.  A word of a text is    *)
(* one character here, so that short texts are whole programs: the names   *)
(* of the language are letters, "a" is just some name.  The texts are all  *)
(* short ones over a character of each sort, longer ones over the          *)
(* characters that nest, longer numbers, programs, and comments with a     *)
(* character of two bytes, u1 and u2.                                      *)
(***************************************************************************)
EXTENDS PageParser

Words == {"do", "when", "define", "beep", "wait", "f", "x"}

MCLetters == Words \cup {"a"}

MCSpelling(w) == IF Len(w) = 1 /\ w[1] \in Words THEN w[1] ELSE "x"

TextsOver(chars, length) == UNION {[1 .. n -> chars] : n \in 0 .. length}

Numbers == {<<"-">> \o w : w \in TextsOver({"0", "1", "5", "6"}, 4)} \cup TextsOver({"0", "1", "5", "6", "-"}, 4)

Comments == {<<";">> \o c \o <<"nl">> : c \in {<<>>, <<"u1", "u2">>, <<"ff", ")">>, <<"a", "u1", "u2", ";">>}}

WithComments == {c \o <<"(", "a">> \o d \o <<"6", ")">> \o e \o <<"(", ")">> : c, d, e \in Comments}

Sp == <<" ">>

Beep == <<"(", "beep", ")">>

Wait(x) == <<"(", "wait", " ", x, ")">>

Statement == {Beep, Wait("9"), Wait("x"), <<"(", "f", " ", "1", ")">>, <<"(", "do">> \o Beep \o Beep \o <<")">>,
              <<"(", "when", "(", "f", " ", "x", ")", "(", "beep", ")", ")">>,
              <<"x">>, <<"9", "9", "9">>, <<"(", "do", ")">>, <<"(", "wait", "(", "wait", " ", "1", ")", ")">>}

Function == <<"(", "define", "(", "f", " ", "x", ")">> \o Wait("x") \o <<")">>

WholePrograms ==
    {a \o b : a, b \in Statement}
        \cup {Function \o <<"nl">> \o a \o <<";", "nl">> \o b : a, b \in Statement}
        \cup {<<"(", "do", " ">> \o a \o Sp \o b \o <<")">> : a, b \in Statement}
        \cup {<<"(", "do", " ">> \o a \o Function \o <<"%", ")">> : a \in Statement}

MCTexts ==
    TextsOver({"(", ")", "6", "-", "a", ";", "nl", " ", "%", "ff"}, 4)
        \cup TextsOver({"(", ")", "beep"}, 7)
        \cup TextsOver({"(", ")", "beep", "9"}, 5)
        \cup {<<c, "(", "tab", ")", "cr", d>> : c, d \in {"(", ")", "a", ";", "nl"}}
        \cup Numbers \cup WithComments \cup WholePrograms
=============================================================================
