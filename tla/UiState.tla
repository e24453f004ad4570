------------------------------ MODULE UiState ------------------------------
(***************************************************************************)
(* app/src/state.js: the state of the page and reduceState, which computes *)
(* the next one.  Left out are the telemetry list, the sensor display and  *)
(* the wording of the status line, which nothing else depends on.          *)
(***************************************************************************)
EXTENDS FiniteSetsExt, Integers

CONSTANTS
    Cards,   \* text -> its cards, as [id, from, to], for the texts the page can parse
    Span     \* node -> where it is in its text, as [from, to]

Overlaps(a, b) == a.from < b.to /\ b.from < a.to

SameSpan(a, b) == a.from = b.from /\ a.to = b.to

ContainsSpan(a, b) == a.from <= b.from /\ a.to >= b.to

SpanSize(a) == a.to - a.from

CardsForSpan(cards, span) == {card \in cards : Overlaps(card, span)}

(* The cards with exactly this span, or else the smallest around it.       *)
CardsForNodeSpan(cards, span) ==
    LET hits == CardsForSpan(cards, span)
        exact == {card \in hits : SameSpan(card, span)}
        around == {card \in hits : ContainsSpan(card, span)}
    IN  IF exact # {} THEN exact
        ELSE {card \in around : \A other \in around : SpanSize(card) <= SpanSize(other)}

Ids(cards) == {card.id : card \in cards}

(* What the diagnostics shown are about: nothing, the host's answer for a  *)
(* text, what the page itself found in a text, or the connection.          *)
Shown(by, text) == [by |-> by, text |-> text]

InitialState(text) ==
    [source |-> text,        \* what is in the code view
     cards |-> text,         \* the text whose cards are shown
     diagnostics |-> Shown("nobody", text),
     connected |-> FALSE, running |-> FALSE, active |-> {}, errored |-> {}]

Connection(state, connected) == [state EXCEPT !.connected = connected]

(* Mutant: the highlights of the old cards stay.                           *)
EditKeepsActive(state, text) ==
    [state EXCEPT !.source = text, !.cards = text, !.diagnostics = Shown("nobody", text),
                  !.errored = {}]

Edit(state, text) ==
    [state EXCEPT !.source = text, !.cards = text, !.diagnostics = Shown("nobody", text),
                  !.active = {}, !.errored = {}]

ApplyNode(state, m) ==
    LET hits == Ids(CardsForNodeSpan(Cards[state.cards], Span[m.node]))
    IN  CASE m.type = "nodeStart"                    -> [state EXCEPT !.active = @ \cup hits]
          [] m.type \in {"nodeDone", "nodeSkipped"}  -> [state EXCEPT !.active = @ \ hits]
          [] m.type = "nodeError"                    -> [state EXCEPT !.errored = @ \cup hits]

(* Mutant: only the regular end of a program and error are looked at.      *)
ApplyWithoutProgramError(state, m) ==
    CASE m.type = "diagnostics" -> [state EXCEPT !.diagnostics = Shown("host", m.source)]
      [] m.type = "programStart" -> [state EXCEPT !.running = TRUE, !.active = {}, !.errored = {}]
      [] m.type \in {"programDone", "error"} -> [state EXCEPT !.running = FALSE, !.active = {}]
      [] m.type \in {"nodeStart", "nodeDone", "nodeSkipped", "nodeError"} -> ApplyNode(state, m)
      [] OTHER -> state

ApplyRuntimeMessage(state, m) ==
    CASE m.type = "diagnostics" -> [state EXCEPT !.diagnostics = Shown("host", m.source)]
      [] m.type = "programStart" -> [state EXCEPT !.running = TRUE, !.active = {}, !.errored = {}]
      [] m.type \in {"programDone", "programError", "error"} ->
            [state EXCEPT !.running = FALSE, !.active = {}]
      [] m.type \in {"nodeStart", "nodeDone", "nodeSkipped", "nodeError"} -> ApplyNode(state, m)
      [] OTHER -> state
=============================================================================
