------------------------------- MODULE Cards -------------------------------
(***************************************************************************)
(* The card editor of the page: projection.js makes cards of the parsed    *)
(* program, generator.js writes the program back from cards, edit.js       *)
(* changes them, and app.js does all three for every edit of a card.       *)
(*                                                                         *)
(* A program is a sequence of expressions; layout, comments and spans are  *)
(* left out, and a numeral stands for its value.                           *)
(***************************************************************************)
EXTENDS Integers, Sequences, SequencesExt

CONSTANTS
    DefaultProgram,   \* DEFAULT_SOURCE
    Programs,         \* the programs the student may type
    Numerals,         \* atoms that are integers
    Inputs,           \* the expressions the student may type into a card
    MaxEdits          \* bound on the edits

VARIABLES
    source,   \* the text shown, parsed, or Garbled
    cards,    \* the cards shown
    edits     \* how many edits there were

cardVars == <<source, cards, edits>>

-----------------------------------------------------------------------------
(***************************************************************************)
(* Expressions (parser.js), values and cards (projection.js).              *)
(***************************************************************************)
Atom(value) ==
    [type |-> IF value \in Numerals THEN "integer" ELSE "symbol", value |-> value, children |-> <<>>]

List(children) == [type |-> "list", value |-> "", children |-> children]

(* A text that does not parse.                                             *)
Garbled == <<[type |-> "garbled", value |-> "", children |-> <<>>]>>

Value(type, name, args) == [type |-> type, name |-> name, args |-> args]

Text(name) == Value("string", name, <<>>)

Card(id, cardId, form, params) ==
    [id |-> id, cardId |-> cardId, form |-> form, params |-> params, children |-> <<>>, branches |-> <<>>]

Reserved == {"true", "false", "off", "red", "green", "blue", "yellow", "white"}

(* The cards with a fixed number of parameters and no cards inside.        *)
ParamCount ==
    [f \in {"drive", "backward", "set!"} |-> 2] @@ [f \in {"turn-left", "turn-right", "wait", "light"} |-> 1]
        @@ [f \in {"stop", "beep"} |-> 0]

Sequenced == {"do", "repeat", "when", "while"}

(* How many items of a form stand before its statements.                   *)
Before(form) == IF form = "do" THEN 1 ELSE 2

(* An expression inside a card.  A list that starts with a list loses it:  *)
(* only atoms have a value.                                                *)
RECURSIVE projectValue(_)
projectValue(expr) ==
    CASE expr.type = "integer" -> Value("number", expr.value, <<>>)
      [] expr.type = "symbol"  -> Value(IF expr.value \in Reserved THEN "string" ELSE "var", expr.value, <<>>)
      [] OTHER                 ->
            IF expr.children = <<>> THEN Value("call", "", <<>>)
            ELSE Value("call", Head(expr.children).value,
                       [i \in DOMAIN Tail(expr.children) |-> projectValue(expr.children[i + 1])])

Values(exprs) == [i \in DOMAIN exprs |-> projectValue(exprs[i])]

genericExpressionCard(expr, id) ==
    LET named == expr.children # <<>> /\ Head(expr.children).type = "symbol"
    IN  Card(id, "generic", IF named THEN Head(expr.children).value ELSE "expr",
             IF expr.type # "list" THEN <<projectValue(expr)>>
             ELSE IF expr.children = <<>> THEN <<>> ELSE Values(Tail(expr.children)))

RECURSIVE projectStatement(_, _)

Project(exprs, id) == [i \in DOMAIN exprs |-> projectStatement(exprs[i], Append(id, i))]

AllSymbols(exprs) == \A i \in DOMAIN exprs : exprs[i].type = "symbol"

Names(exprs) == [i \in DOMAIN exprs |-> Text(exprs[i].value)]

projectDefine(expr, id) ==
    LET items == expr.children
        head  == items[2]
    IN  CASE Len(items) >= 3 /\ head.type = "list" /\ head.children # <<>> /\ AllSymbols(head.children) ->
               [Card(id, "define-func", "define",
                     <<Text(Head(head.children).value), Value("symbols", "", Names(Tail(head.children)))>>)
                EXCEPT !.children = Project(SubSeq(items, 3, Len(items)), id)]
          [] Len(items) = 3 /\ head.type = "symbol" ->
               Card(id, "define-var", "define", <<Text(head.value), projectValue(items[3])>>)
          [] OTHER -> genericExpressionCard(expr, id)

projectSequenceCard(expr, id, form) ==
    LET before == Before(form)
    IN  IF Len(expr.children) < before THEN genericExpressionCard(expr, id)
        ELSE [Card(id, form, form, Values(SubSeq(expr.children, 2, before)))
              EXCEPT !.children = Project(SubSeq(expr.children, before + 1, Len(expr.children)), id)]

Then == -1
Else == -2

(* Mutant: the cards of the two branches are numbered alike.               *)
BranchCardsAlike(id, condition, then, else) ==
    [Card(id, "if", "if", <<projectValue(condition)>>)
     EXCEPT !.branches = <<Project(then, Append(id, Then)), Project(else, Append(id, Then))>>]

BranchCards(id, condition, then, else) ==
    [Card(id, "if", "if", <<projectValue(condition)>>)
     EXCEPT !.branches = <<Project(then, Append(id, Then)), Project(else, Append(id, Else))>>]

(* Mutant: a form without an else branch is given one.                     *)
projectIfTwoArmed(expr, id) ==
    LET items == expr.children
    IN  IF Len(items) \notin {3, 4} THEN genericExpressionCard(expr, id)
        ELSE BranchCards(id, items[2], <<items[3]>>, SubSeq(items, 4, Len(items)))

projectIf(expr, id) ==
    LET items == expr.children
    IN  IF Len(items) # 4 THEN genericExpressionCard(expr, id)
        ELSE BranchCards(id, items[2], <<items[3]>>, <<items[4]>>)

projectStatement(expr, id) ==
    LET form == Head(expr.children).value
    IN  IF expr.children = <<>> \/ Head(expr.children).type # "symbol" THEN genericExpressionCard(expr, id)
        ELSE CASE form = "define"         -> projectDefine(expr, id)
               [] form \in Sequenced      -> projectSequenceCard(expr, id, form)
               [] form = "if"             -> projectIf(expr, id)
               [] form \in DOMAIN ParamCount /\ Len(expr.children) = ParamCount[form] + 1 ->
                     Card(id, form, form, Values(Tail(expr.children)))
               [] OTHER                   -> genericExpressionCard(expr, id)

projectProgram(exprs) == Project(exprs, <<>>)

-----------------------------------------------------------------------------
(***************************************************************************)
(* generator.js: the program that cards stand for.                         *)
(***************************************************************************)
RECURSIVE emitValue(_), writeCard(_)

EmitAll(values) == [i \in DOMAIN values |-> emitValue(values[i])]

emitValue(value) ==
    IF value.type = "call" THEN List((IF value.name = "" THEN <<>> ELSE <<Atom(value.name)>>) \o EmitAll(value.args))
    ELSE Atom(value.name)

(* A value put into a text as it is: an object becomes "[object Object]".  *)
Written(value) ==
    IF value.type \in {"var", "call"} THEN <<Atom("[object"), Atom("Object]")>> ELSE <<Atom(value.name)>>

WriteCards(written) == [i \in DOMAIN written |-> writeCard(written[i])]

Form(name, items) == List(<<Atom(name)>> \o items)

writeBranch(written) ==
    IF Len(written) = 1 THEN writeCard(written[1]) ELSE Form("do", WriteCards(written))

writeFunction(card) ==
    Form("define", <<List(Written(card.params[1]) \o EmitAll(card.params[2].args))>> \o WriteCards(card.children))

writeCard(card) ==
    LET params == card.params
    IN  CASE card.cardId \in Sequenced         -> Form(card.form, EmitAll(params) \o WriteCards(card.children))
          [] card.cardId = "if"                -> Form("if", EmitAll(params) \o [b \in 1 .. 2 |-> writeBranch(card.branches[b])])
          [] card.cardId = "define-func"       -> writeFunction(card)
          [] card.cardId \in {"define-var", "set!"} ->
                Form(card.form, Written(params[1]) \o EmitAll(Tail(params)))
          [] OTHER                             -> Form(card.form, EmitAll(params))

generateProgram(written) == WriteCards(written)

-----------------------------------------------------------------------------
(***************************************************************************)
(* edit.js and the actions of app.js.                                      *)
(***************************************************************************)
Number(n) == Value("number", n, <<>>)

(* The parameters a new card has, from the manifest.                       *)
Defaults ==
    [do |-> <<>>, repeat |-> <<Number("4")>>, when |-> <<Text("true")>>, while |-> <<Text("true")>>,
     stop |-> <<>>, beep |-> <<>>, wait |-> <<Number("1000")>>, light |-> <<Text("red")>>,
     drive |-> <<Number("40"), Number("1000")>>, backward |-> <<Number("40"), Number("1000")>>]
    @@ [f \in {"turn-left", "turn-right"} |-> <<Number("90")>>]
    @@ [f \in {"define-var", "set!"} |-> <<Text("x"), Number("0")>>]
    @@ [f \in {"define-func"} |-> <<Text("my-function"), Value("symbols", "", <<>>)>>]
    @@ [f \in {"if"} |-> <<Text("true")>>]

buildCardFromManifest(cardId) ==
    [Card(<<>>, cardId, IF cardId \in {"define-var", "define-func"} THEN "define" ELSE cardId, Defaults[cardId])
     EXCEPT !.branches = IF cardId = "if" THEN <<<<>>, <<>>>> ELSE <<>>]

(* The card with an identity, which no other card has, is looked up in     *)
(* the cards, their children and branches.                                 *)
RECURSIVE AllCards(_)
AllCards(shown) ==
    UNION {{shown[i]} \cup AllCards(shown[i].children)
              \cup UNION {AllCards(shown[i].branches[b]) : b \in DOMAIN shown[i].branches} : i \in DOMAIN shown}

(* The cards with the one of that identity replaced, by none or by one.    *)
RECURSIVE Replaced(_, _, _)
Replaced(shown, id, new) ==
    FlattenSeq([i \in DOMAIN shown |->
        IF shown[i].id = id THEN new
        ELSE <<[shown[i] EXCEPT !.children = Replaced(@, id, new),
                                !.branches = [b \in DOMAIN @ |-> Replaced(@[b], id, new)]]>>])

deleteCardById(shown, id) == Replaced(shown, id, <<>>)

updateParamValue(shown, card, k, value) ==
    Replaced(shown, card.id, <<[card EXCEPT !.params[k] = value]>>)

(* branch is 0 for the children of the card.                               *)
insertIntoCard(shown, parent, branch, new) ==
    Replaced(shown, parent.id,
             <<IF branch = 0 THEN [parent EXCEPT !.children = Append(@, new)]
               ELSE [parent EXCEPT !.branches[branch] = Append(@, new)]>>)

(* The text is shown as it was typed, with the cards of it; when it does   *)
(* not parse, the cards stay.                                              *)
EditSource(program) ==
    /\ edits < MaxEdits /\ edits' = edits + 1
    /\ source' = program
    /\ cards' = IF program = Garbled THEN cards ELSE projectProgram(program)

(* applySource(..., { canonicalize: true })                                *)
Canonical(program) == generateProgram(projectProgram(program))

MutateTree(tree) ==
    /\ edits < MaxEdits /\ edits' = edits + 1
    /\ source' = Canonical(generateProgram(tree))
    /\ cards' = projectProgram(source')

Containers == Sequenced \cup {"define-func"}

InsertAtTop(cardId) == MutateTree(Append(cards, buildCardFromManifest(cardId)))

InsertCard(parent, branch, cardId) ==
    /\ IF branch = 0 THEN parent.cardId \in Containers ELSE branch \in DOMAIN parent.branches
    /\ MutateTree(insertIntoCard(cards, parent, branch, buildCardFromManifest(cardId)))

DeleteCard(card) == MutateTree(deleteCardById(cards, card.id))

(* setParam and setParamExpression: a name is taken as it is typed, an     *)
(* expression is parsed.                                                   *)
NewValues(cardId, k) ==
    CASE cardId = "define-func" /\ k = 2                          -> {Value("symbols", "", <<Text("x"), Text("y")>>)}
      [] cardId \in {"define-func", "define-var", "set!"} /\ k = 1 -> {Text("y")}
      [] OTHER                                                    -> {projectValue(input) : input \in Inputs}

SetParam(card, k, value) ==
    /\ card.cardId # "generic" /\ value \in NewValues(card.cardId, k)
    /\ MutateTree(updateParamValue(cards, card, k, value))

Init ==
    /\ source = Canonical(DefaultProgram) /\ cards = projectProgram(source)
    /\ edits = 0

Resting == edits = MaxEdits /\ UNCHANGED cardVars

EditCard ==
    \/ \E cardId \in DOMAIN Defaults : InsertAtTop(cardId)
    \/ \E card \in AllCards(cards) :
           \/ \E branch \in 0 .. 2, cardId \in DOMAIN Defaults : InsertCard(card, branch, cardId)
           \/ DeleteCard(card)
           \/ \E k \in DOMAIN card.params : \E value \in NewValues(card.cardId, k) : SetParam(card, k, value)

Next == (\E program \in Programs \cup {Garbled} : EditSource(program)) \/ EditCard \/ Resting

Spec == Init /\ [][Next]_cardVars

-----------------------------------------------------------------------------
(***************************************************************************)
(* Properties.                                                             *)
(***************************************************************************)
(* Where the statements in a statement begin, by the grammar of the        *)
(* language (README.md), and 0 where there are none.                       *)
FirstStatement(expr) ==
    LET items == expr.children
        form  == IF items = <<>> THEN "" ELSE items[1].value
    IN  CASE form = "do"                                              -> 2
          [] form \in {"repeat", "when", "while"} /\ Len(items) >= 2  -> 3
          [] form = "if" /\ Len(items) = 4                            -> 3
          [] form = "define" /\ Len(items) >= 3 /\ items[2].children # <<>> /\ AllSymbols(items[2].children) -> 3
          [] OTHER                                                    -> Len(items) + 1

(* A list that begins with a list, anywhere.                               *)
RECURSIVE Headless(_)
Headless(expr) ==
    \E i \in DOMAIN expr.children :
        Headless(expr.children[i]) \/ (i = 1 /\ expr.children[1].type = "list")

(* What cards cannot express: a statement that is no form, an assignment   *)
(* to a variable, and a list that begins with a list.                      *)
RECURSIVE Inexpressible(_)
Inexpressible(expr) ==
    LET items == expr.children
    IN  \/ items = <<>> \/ items[1].type # "symbol"
        \/ /\ items[1].value = "set!" /\ Len(items) = 3
           /\ items[2].type = "list" \/ (items[2].type = "symbol" /\ items[2].value \notin Reserved)
        \/ \E i \in DOMAIN items :
               IF i >= FirstStatement(expr) THEN Inexpressible(items[i]) ELSE Headless(items[i])

Expressible(program) == \A i \in DOMAIN program : ~Inexpressible(program[i])

Parsed == source # Garbled

(* The program the cards stand for is the one that is shown, for every     *)
(* form of the language, complete or not, except those that cards cannot   *)
(* express; and for those it is not (projection.js:8-108,                  *)
(* generator.js:10-98).                                                    *)
KeptExactly == Parsed => (generateProgram(cards) = source <=> Expressible(source))

(* "Advanced forms that do not yet have polished visual editors still      *)
(* round-trip through generic cards"                                       *)
(* (docs/superpowers/specs/2026-06-07-cardcode-ui-design.md:156-157).      *)
RoundTrips == Parsed => generateProgram(cards) = source

(* Where the expression of a card is: the identity counts cards, a path    *)
(* counts items.                                                           *)
RECURSIVE Place(_, _, _)
Place(exprs, id, before) ==
    LET i == Head(id) + before
    IN  IF Len(id) = 1 THEN <<i>>
        ELSE IF id[2] < 0
          THEN <<i>> \o Place(exprs[i].children, <<-id[2]>> \o SubSeq(id, 4, Len(id)), 2)
          ELSE <<i>> \o Place(exprs[i].children, Tail(id), FirstStatement(exprs[i]) - 1)

(* The program with other expressions at a place.                          *)
RECURSIVE Put(_, _, _)
Put(exprs, path, new) ==
    LET i == Head(path)
    IN  IF Len(path) = 1 THEN SubSeq(exprs, 1, i - 1) \o new \o SubSeq(exprs, i + 1, Len(exprs))
        ELSE [exprs EXCEPT ![i].children = Put(@, Tail(path), new)]

RECURSIVE ExprAt(_, _)
ExprAt(exprs, path) ==
    IF Len(path) = 1 THEN exprs[path[1]] ELSE ExprAt(exprs[path[1]].children, Tail(path))

InBranch(card) == Len(card.id) > 1 /\ card.id[Len(card.id) - 1] < 0

PlaceOf(card) == Place(source, card.id, 0)

Deleted(card) == Put(source, PlaceOf(card), IF InBranch(card) THEN <<Form("do", <<>>)>> ELSE <<>>)

New(cardId) == writeCard(buildCardFromManifest(cardId))

Inserted(parent, branch, cardId) ==
    LET expr   == ExprAt(source, PlaceOf(parent))
        grown  == [expr EXCEPT !.children = Append(@, New(cardId))]
        folded == [expr EXCEPT !.children[branch + 2] = Form("do", <<@, New(cardId)>>)]
    IN  Put(source, PlaceOf(parent), <<IF branch = 0 THEN grown ELSE folded>>)

(* A parameter is an item of its form, but for those of a function, which  *)
(* are together in one.                                                    *)
Reparameterised(card, k, value) ==
    LET signature == PlaceOf(card) \o <<2>>
        function  == ExprAt(source, signature).children
    IN  IF card.cardId # "define-func"
          THEN Put(source, PlaceOf(card) \o <<k + 1>>, <<emitValue(value)>>)
        ELSE IF k = 1
          THEN Put(source, signature \o <<1>>, <<emitValue(value)>>)
          ELSE Put(source, signature, <<List(<<function[1]>> \o EmitAll(value.args))>>)

(* An edit of one card, at any depth, changes the program at the place of  *)
(* that card only, whatever was projected, numbered, cloned and generated  *)
(* in between, twice (app.js:84-89,123-137).                               *)
ChangesTo(program) == Expressible(program) => source' = program

EditIsLocal ==
    [][Parsed /\ Expressible(source) =>
          /\ \A cardId \in DOMAIN Defaults : InsertAtTop(cardId) => ChangesTo(Append(source, New(cardId)))
          /\ \A card \in AllCards(cards) :
                /\ DeleteCard(card) => ChangesTo(Deleted(card))
                /\ \A branch \in 0 .. 2, cardId \in DOMAIN Defaults :
                      InsertCard(card, branch, cardId) => ChangesTo(Inserted(card, branch, cardId))
                /\ \A k \in DOMAIN card.params : \A value \in NewValues(card.cardId, k) :
                      SetParam(card, k, value) => ChangesTo(Reparameterised(card, k, value))]_cardVars
=============================================================================
