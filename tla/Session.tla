------------------------------ MODULE Session ------------------------------
(***************************************************************************)
(* The page (app/src/app.js with the state of UiState and the client of    *)
(* app/src/transport.js) connected to a host.  The page is one thread: a   *)
(* click, a key, a timer or an event of a socket is handled from beginning *)
(* to end.  Between two of them the host goes on, messages travel in both  *)
(* directions, and a socket that was replaced still has events to report.  *)
(* Each connection has a harness of its own (tools/dev-server.js).         *)
(***************************************************************************)
EXTENDS Host, UiState

CONSTANTS
    Texts,         \* what may be typed
    MaxEdits, MaxClicks, MaxConnects,   \* bounds: what the student does
    MaxSteps,      \* bound: what a program does, as RUN_LIMITS bounds it
    MaxQueue       \* bound: messages on the way to the page

DefaultText == CHOOSE text \in DOMAIN Compiled : TRUE

ASSUME SessionAssumption == DOMAIN Compiled \subseteq DOMAIN Cards /\ DOMAIN Cards \subseteq Texts

VARIABLES
    state,       \* the state of the page
    timer,       \* compileTimer is set
    socket,      \* readyState of client.socket, or "none"
    old,         \* events that replaced sockets have still to report
    steps,       \* what the running program has done: nodes entered or skipped, commands
    budget,      \* what is left of the student's edits, clicks and connects
    seen,        \* history: the nodes reported as started and not yet as done
    refused,     \* history: an error was reported since the last program started
    told         \* history: the page was told of a program or an error on this connection

page == <<state, timer>>

network == <<socket, old>>

history == <<seen, refused, told>>

sessionVars == <<host, page, network, steps, budget, history>>

Spend(what) == budget[what] > 0 /\ budget' = [budget EXCEPT ![what] = @ - 1]

-----------------------------------------------------------------------------
(***************************************************************************)
(* callRuntime(() => client.send(m)): a send on a socket that is not open  *)
(* throws, and the page shows that instead.                                *)
(***************************************************************************)
Call(m) ==
    IF socket = "open"
      THEN Receive(m) /\ UNCHANGED state
      ELSE state' = [state EXCEPT !.diagnostics = Shown("socket", state.source)] /\ UNCHANGED host

(* applySource: a text the page cannot parse keeps the old cards, and does *)
(* not touch the timer.                                                    *)
EditSource(text) ==
    /\ text # state.source /\ Spend("edits")
    /\ IF text \in DOMAIN Cards
         THEN state' = Edit(state, text) /\ timer' = TRUE
         ELSE /\ state' = [state EXCEPT !.source = text, !.diagnostics = Shown("page", text),
                                        !.active = {}, !.errored = {}]
              /\ UNCHANGED timer
    /\ UNCHANGED <<host, network, steps, history>>

(* Mutant: nothing is compiled while a program is running.                 *)
TimerFiresIdle ==
    /\ timer /\ timer' = FALSE
    /\ IF state.connected /\ ~state.running
         THEN Call([type |-> "compile", source |-> state.source])
         ELSE UNCHANGED <<state, host>>
    /\ UNCHANGED <<network, steps, budget, history>>

(* 250 ms after the last edit or the opening of the connection.            *)
TimerFires ==
    /\ timer /\ timer' = FALSE
    /\ IF state.connected
         THEN Call([type |-> "compile", source |-> state.source])
         ELSE UNCHANGED <<state, host>>
    /\ UNCHANGED <<network, steps, budget, history>>

Click ==
    /\ Spend("clicks")
    /\ \/ Call([type |-> "run", source |-> state.source])
       \/ Call([type |-> "cancel"])
    /\ UNCHANGED <<timer, network, steps, history>>

(* Everything a replaced socket would still report, in order.              *)
Remaining == IF socket \in {"connecting", "open"} THEN Append(out, [type |-> "close"]) ELSE <<>>

(* Its harness is killed, and the next connection has one of its own: what *)
(* was heard of the old one is history.                                    *)
NewHost ==
    /\ out' = <<>> /\ phase' = "over" /\ open' = <<>> /\ inbox' = <<>> /\ busy' = FALSE
    /\ worker' = "idle" /\ job' = "none" /\ UNCHANGED program
    /\ seen' = <<>> /\ refused' = FALSE /\ told' = FALSE

(* connect(url): the old socket is closed and forgotten, then a new one is *)
(* made; the constructor throws if the URL is no URL.                      *)
Connect ==
    /\ Spend("connects")
    /\ old' = old \o Remaining
    /\ \/ socket' = "connecting" /\ UNCHANGED state
       \/ /\ socket' = "none"
          /\ state' = [state EXCEPT !.diagnostics = Shown("socket", state.source)]
    /\ NewHost
    /\ UNCHANGED <<timer, steps>>

-----------------------------------------------------------------------------
(***************************************************************************)
(* The callbacks of a socket.                                              *)
(***************************************************************************)
OnOpen ==
    /\ socket = "connecting" /\ socket' = "open"
    /\ state' = Connection(state, TRUE)
    /\ timer' = TRUE
    /\ UNCHANGED <<host, old, steps, budget, history>>

(* The connection ends, or does not come about; what was on the way is     *)
(* lost, and the relay kills the harness.  The page keeps running and the  *)
(* highlights as they were.                                                *)
OnClose ==
    /\ socket \in {"connecting", "open"} /\ socket' = "closed"
    /\ \/ state' = Connection(state, FALSE)
       \/ state' = [Connection(state, FALSE) EXCEPT !.diagnostics = Shown("socket", state.source)]
    /\ NewHost
    /\ UNCHANGED <<timer, old, steps, budget>>

(* The messages that the page takes for the start or the end of a program. *)
Endings == {"programDone", "programError", "error"}

RunTypes == {"programStart"} \cup Endings

Witness(nodes, m) ==
    CASE m.type \in {"programStart", "programDone", "programError"} -> <<>>
      [] m.type = "nodeStart" -> Append(nodes, m.node)
      [] m.type = "nodeDone"  -> SubSeq(nodes, 1, Len(nodes) - 1)
      [] OTHER -> nodes

OnMessage ==
    /\ socket = "open" /\ out # <<>>
    /\ out' = Tail(out)
    /\ state' = ApplyRuntimeMessage(state, Head(out))
    /\ seen' = Witness(seen, Head(out))
    /\ refused' = (Head(out).type = "error" \/ (refused /\ Head(out).type # "programStart"))
    /\ told' = (told \/ Head(out).type \in RunTypes)
    /\ UNCHANGED <<program, phase, open, inbox, busy, worker, job, timer, network, steps, budget>>

(* Mutant: the callbacks do not ask which socket is the current one.       *)
OnOldHeard ==
    /\ old # <<>> /\ old' = Tail(old)
    /\ state' = IF Head(old).type = "close" THEN Connection(state, FALSE)
                                            ELSE ApplyRuntimeMessage(state, Head(old))
    /\ UNCHANGED <<timer, host, socket, steps, budget, history>>

(* this.socket # socket: whatever a replaced socket reports is ignored.    *)
OnOld ==
    /\ old # <<>> /\ old' = Tail(old)
    /\ UNCHANGED <<page, host, socket, steps, budget, history>>

-----------------------------------------------------------------------------
(***************************************************************************)
(* The host at the other end.                                              *)
(***************************************************************************)
HostHandles ==
    /\ Len(out) < MaxQueue
    /\ HandleNext
    /\ UNCHANGED <<page, network, steps, budget, history>>

HostWorks ==
    /\ Len(out) < MaxQueue
    /\ Diagnose \/ Clear \/ Execute
    /\ steps' = IF worker # "execute" THEN 0
                  ELSE steps + (IF phase' = "running" /\ Len(open') >= Len(open) THEN 1 ELSE 0)
    /\ steps' <= MaxSteps
    /\ UNCHANGED <<page, network, budget, history>>

SessionInit ==
    /\ HostInit /\ program = Compiled[DefaultText]
    /\ state = InitialState(DefaultText) /\ timer = TRUE
    /\ socket = "none" /\ old = <<>> /\ steps = 0
    /\ seen = <<>> /\ refused = FALSE /\ told = FALSE
    /\ budget = [edits |-> MaxEdits, clicks |-> MaxClicks, connects |-> MaxConnects]

Student == Click \/ Connect \/ \E text \in Texts : EditSource(text)

(* The student may leave it at that, and nothing else is to be done.       *)
Resting == ~timer /\ out = <<>> /\ old = <<>> /\ inbox = <<>> /\ ~busy /\ socket # "connecting"

AtRest == Resting /\ UNCHANGED sessionVars

SessionNext ==
    Student \/ TimerFires \/ OnOpen \/ OnClose \/ OnMessage \/ OnOld \/ HostHandles \/ HostWorks \/ AtRest

(* The event loop of the page starves neither its timer nor its socket;    *)
(* both threads of the host run.  Nothing is assumed of the student and    *)
(* the network.                                                            *)
SessionSpec ==
    /\ SessionInit /\ [][SessionNext]_sessionVars
    /\ WF_sessionVars(TimerFires) /\ WF_sessionVars(OnMessage)
    /\ WF_sessionVars(HostHandles) /\ WF_sessionVars(HostWorks)

-----------------------------------------------------------------------------
(***************************************************************************)
(* Properties.                                                             *)
(***************************************************************************)
(* A card is only highlighted while a node it stands for is reported as    *)
(* running ...                                                             *)
ActiveJustified ==
    state.active \subseteq
        UNION {Ids(CardsForNodeSpan(Cards[state.cards], Span[seen[k]])) : k \in DOMAIN seen}

(* ... the page only shows that a program runs while one does, or was lost *)
(* with its process, or while the end of one has still to be heard ...     *)
RunningTrue ==
    state.running =>
        \/ phase \in {"ready", "running", "failed", "stopped", "gone"}
        \/ \E i \in 1 .. Len(out) : out[i].type \in Endings

(* ... and a page that has heard of everything knows that a program runs,  *)
(* unless an error was answered since, which the page takes for the end of *)
(* the program (state.js:44-45).                                           *)
RunningKnown ==
    socket = "open" /\ out = <<>> /\ phase \in {"ready", "running", "failed", "stopped"} =>
        state.running \/ refused

(* From the first time a connection tells the page of a program or of an   *)
(* error, what the page shows of a program is so, whatever is edited or    *)
(* refused meanwhile (state.js:26,34-69).  Not so before: state.js:24      *)
(* leaves running and the highlights alone when a connection ends, so a    *)
(* page without a connection, and one with a new connection on which       *)
(* nothing was said of a program, shows the run that ended with the old.   *)
RunShown == (told => ActiveJustified /\ RunningTrue) /\ RunningKnown

(* Once a connection is made, or not, the page says so, whatever the       *)
(* sockets before it still report (transport.js:13-23, app.js:23-33).  Not *)
(* so after a URL that is none: the socket before it is gone by then, and  *)
(* with its callbacks the news that it is (transport.js:10-11).            *)
ConnectedSettles == socket \in {"open", "closed"} => (state.connected <=> socket = "open")

(* After an edit, and after connecting, the host's diagnostics of the text *)
(* arrive, unless it is edited again or the connection ends, and although  *)
(* the timer is set and cleared in between, may fire while nothing is      *)
(* connected, and is not touched by a text that the page cannot parse      *)
(* (app.js:31,108-121,160-166).                                            *)
DiagnosticsArrive ==
    \A text \in DOMAIN Cards :
        (timer /\ state.source = text /\ socket = "open")
            ~> (state.diagnostics = Shown("host", text) \/ state.source # text \/ socket # "open")

(* A run that the page shows comes to an end that the page shows, if the   *)
(* connection stays (state.js:38-46).                                      *)
RunEnds ==
    (state.running /\ socket = "open" /\ phase = "running") ~> (~state.running \/ socket # "open")

=============================================================================
