# CardCode: a verification project

CardCode is a small educational robot language.  A text such as
`(repeat 3 (drive 50 1000) (turn-right 90))` is compiled to a syntax tree, the
tree is interpreted next to a robot, and a page in the browser shows the program
as cards and follows the run through a stream of messages.  This directory holds
TLA+ modules translated from the sources, TLC configurations that check them on
small instances, and theorems about them that TLAPS checks for every instance.

    tlc -config MCEngine.cfg MCEngine.tla
    tlapm EngineProofs.tla

`PROJECT.json` lists the runs, the source lines behind every definition, the
hazards, the mutants that show that each property can fail, and the findings.

## 1. Inventory

| Part | Source | State | Operations | Modules |
|---|---|---|---|---|
| Lexer, parser | `src/lexer.cpp`, `src/parser.cpp` | position, expressions, diagnostics | `lex`, `parse`, recovery after an error | `Lexer`, `Parser` |
| Compiler | `src/compiler.cpp` | arity table, diagnostics, the nodes built so far | `compile`, `assign_node_ids` | `Compiler`, `CompileText` |
| Syntax tree, values | `include/cardcode/ast.hpp`, `value.hpp` | none | `is_highlightable`, `truthy` | `Ast` |
| Engine | `src/engine.cpp` | `ExecState` (steps, call depth, error, cancelled), scopes, the C++ stack | `execute`, `eval`, `call_function`, `compile_and_run` | `Engine`, `RunStream`, `CompileAndRun` |
| Command line runner | `tools/cardcode_run.cpp` | commands printed so far | compile, execute, print | `Runner` |
| Forwarding robot host | `harness/forwarding_host.hpp` | four sensor atomics | commands to messages, `set_*`, `reset` | `Engine`, `Bridge` (partly) |
| Protocol bridge | `harness/protocol_bridge.hpp` | `running_`, `cancel_`, worker thread | `handle`, `do_run`, `do_compile`, `do_set_sensor`, destructor | `Bridge`, `Host`, `ControlMessages` |
| JSON reader | `harness/json.hpp` | position in the text | value to text, text to value | `Json` |
| Harness main, event sink | `harness/main.cpp`, `json_event_sink.hpp` | output mutex, socket, the line being read | accept, read in chunks, cut into lines, write, close | `Harness` (partly) |
| UI state | `app/src/state.js`, `app.js` | program shown, running card, connection, debounce timer | `reducer`, client callbacks, scheduled compile | `UiState`, `Session` (partly) |
| Runtime client | `app/src/transport.js` | current socket, status | connect, send, callbacks | `Session` (partly) |
| Card editor data | `app/src/parser.js`, `projection.js`, `generator.js`, `edit.js`, `manifest.js` | none | text to cards, cards to text, edits | `PageParser`, `Cards` (partly) |
| Dev server relay | `tools/dev-server.js` | frame buffer, line buffer, child process | relay both ways, exit | not modelled |
| Card rendering, stand-alone prototype | `app/src/render.js`, `cardcode_editor.html` | none of interest | presentation | not modelled |

"Partly" is explained in section 5.

**How they interact.** The page sends control messages (`compile`, `run`,
`cancel`, `setSensor`, `reset`) over a WebSocket to the relay, which starts one
harness for each connection and writes them as lines to it.  The control thread
of the harness hands each line to `ProtocolBridge::handle`.  A `run` starts a worker
thread that calls `compile` and `execute`.  The engine calls the robot host and the
event sink; both turn the call into a line of output.  Control thread and worker
share the flag `cancel_`, the flag `running_`, the sensor atomics, and the output
under a mutex held for one line.  The page keeps a parser of its own: it draws
cards from what that one reads, and finds the card of a node of the host by the
node's place in the text.

**What is hard, and what correctness means.**

- *Lexer, parser, compiler*: an error returns through every open list, a null
  child has to be noticed by every form, calls may precede definitions, and the
  engine relies on operand counts it does not check.  Correct means: places
  and numbers are exact, nothing is lost without an error, a complete tree.
- *Engine*: some thirty early returns, each of which must leave call depth, scopes and
  the event stream right; a cancel flag raised by another thread between any two
  reads.  Correct means: a properly nested stream that ends in exactly one way,
  bounds on every command, at most one command after a cancel, scopes that
  never leak, termination.
- *Bridge*: two threads and a client.  Correct means: one program at a time,
  every request answered once, a cancel that reaches its own run and no other,
  a control thread that is never kept from reading a cancel, an orderly end.
- *Server*: bytes in chunks of any size, two writers on a socket, the socket of
  one client closed while the worker of the last still runs.
- *Page*: messages of an earlier text, of a refused run, of a replaced
  connection.  Correct means: what it shows of a run, of a connection and of the text is so;
  of a run it is not from the end of a connection until the next one tells of a program.
- *Cards*: every edit of a card rewrites the whole program from the cards.
  Correct means: nothing is lost, and no other card changes.

## 2. Modules and how they follow the code

    text        Lexer ── Parser ── CompileText ── PageParser ─────────── MCText
                                        │ instance
    tree        Ast ──────────────── Compiler                            MCCompiler
                 │                      │ instance
    execution   Engine ──────────── CompileAndRun ── Runner              MCCompileAndRun
                 │  │                                                    MCEngine
    harness      │ Bridge                                                MCBridge
    promises    RunStream ── Host                  Json ── ControlMessages  MCControlMessages
                               │                   Harness
    page                     Session ── UiState    Cards                 MCSession, MCCards

    proofs      SequenceFacts ─┬─ EngineProofs ─┬─ BridgeProofs
                               │                └─ RunProofs
                               ├─ CompilerProofs · · · ┘ instance
                               │        · instance
                               ├─ TextProofs
                               ├─ HarnessProofs
                               └─ SessionProofs

`Engine` implements `RunStream` and `Bridge` implements `Host` (checked and proved); `Session` runs
the page against `Host`.  `SourceTerms` lets two instances write sources as terms.

**`Ast`** is the vocabulary: node kinds, values, 64-bit arithmetic with a
width parameter (`MaxInt`), and the tree in the variable `program` as a function
from node identities to records.  `WellFormed` states what the engine assumes of
a tree; the compiler's `OutputWellFormed` discharges it.

**`Lexer`** and **`Parser`** take one step per turn of a loop of `lex()` and per token
of `parse()`; the parser's recursion is a stack of open lists, and an error drops
all of it.  **`CompileText`** hands the result to `Compiler`.  **`PageParser`** is
`app/src/parser.js`, as functions on the same text: the host counts bytes, the page
characters, and they do not agree on what a blank is.

**`Compiler`** is `compile()` in small steps.  Every expression has an identity and
its node takes it over.  `frames` is the recursion of `compile_expr`.  The checks of
all forms are gathered in three predicates by their effect: a form is *accepted*
or refused (`WrongCount`, `Unknown`, `BadTarget`: an error and a null node), and an
accepted form may be *questionable* (an error, and compilation goes on).
`RefuseForm` is a null node, `OpenForm` the start of an accepted form, `CloseForm` its
`return`, with a node or, when an argument turned out null, without.  Errors are
the set `blamed` of expressions they are about.

**`Engine`** is `execute()` in small steps.  The C++ recursion is the variable
`stack`; a frame records the node, the stage of its evaluation, the operands
collected, the position, and the index of its scope in `env`.  `pc` names the
place in `eval`: `enter` (the poll of the cancel flag), `begin` (step limit and
`NodeStart`), `inner` (`eval_inner`), `leave` (`NodeDone` and the return).  Each case of
the switch is an action or an operator of one.  `RequestCancel` is the other
thread; it may happen between any two steps, which is all that an atomic flag
promises.  Overflow of `+ - *`, undefined in C++, wraps, as it does in the builds
the project describes; for the quotient that does not fit, the outcomes
the builds can produce are a wrapped value and a trap, and the model has both.

**`RunStream`** is the abstract specification of one run: the messages so far, a
phase, and the nodes open.  It knows nothing of values, scopes or limits.  A node event names the node
by its place, which is its identity in the models, and carries an id beside it: `IdOf` is the node itself
if it is highlightable, and otherwise the root (0 on the wire; the first numbered node, should the root have
no number).  What starts and is done is highlightable.  What is skipped or fails need not be: `Skip` and
`Fail` follow the code there, against `protocol.md` (section 6).

**`CompileAndRun`** composes compiler and engine as `compile_and_run` does; **`Runner`** adds
`cardcode-run`: `commands` is what the recording robot was told, `emitted` how many of them were
printed; its sink prints events at once and commands when a later event shows that they are over.

**`Bridge`** adds the client, the control thread and the worker.  One action per
handler, split where another thread can see the middle: `HandleRun` is
`running_.exchange(true)`, `Launch` is what follows the join; `Store` is one
atomic store of a reset; `ClearRunning` comes after the last message of `execute()`
and before the thread ends.  The worker's `ExecuteJob` is an engine step
whose sensors answer what the atomics hold.  **`Host`** is what a client may rely on:
requests handled in order, one program at a time, each a run of `RunStream`.

**`Json`** and **`ControlMessages`** are the bytes of one line: what `json.hpp` writes, what
`json_parse` reads, and what `handle` takes it for, limits included (read through a
double and cast to 32 bits, here to `UintSize`).

**`Harness`** is the TCP server with the bridge reduced to what it does to a
connection: a line that is answered at once, or one that starts a worker.
Reads return a chunk of any size, writes take any part of what they are given.

**`UiState`** is the reducer as functions; **`Session`** is `app.js` and `transport.js` around it,
connected to `Host`.  The page is one thread, so each click, timer and socket event is
one action; `old` holds the events that replaced sockets have still to report.  The end of a connection ends its harness
(`NewHost`) and with it what the page has heard of it: the history variables `seen` (the nodes reported
as running), `refused` (an error was answered since) and `told` (a program or an error was reported) start again.

**`Cards`** is the card editor: `Project`, `Generate` and the edits of `edit.js` as
functions on expressions, and each edit of a card as `app.js` makes it:
change the cards, generate the text, parse and project it again.

## 3. Runs

| Run | Instance | What is checked |
|---|---|---|
| `engine` | 32 programs with every construct and every runtime error; two sets of limits; sensors that answer anything; a cancel at any moment | `TypeOK`, `IInv`, `CommandsSafe`, `LateCommandBound`, `StackBound`, `ImplementsStream`, `ScopeIsolation`, `Termination` |
| `compiler` | about 2000 sources: every form with up to two operands of six sorts, nested forms, duplicate and misplaced functions | `IInv`, `OutputWellFormed`, `NothingLost` |
| `text` | every text of up to 4 characters of 10 sorts, longer ones of brackets and commands, numbers, comments, whole programs | `TokensExact`, `TreeExact`, `SourceIsLegal`, `NodesFollowText`, `PageAgrees`, `Compiled` |
| `compile_and_run` | about 300 sources: every form with a range, literals in and out of it, computed operands, calls of every shape | `ErrorsDoNotStart`, `LiteralsNeverFail`, `CallsNeverFail`, `PrintedUnderIssuer` |
| `bridge` | three messages of any kind, two of them in flight, a hang-up at any moment, two programs and a text that is none | `CancelIsForThisRun`, `JoinIsShort`, `CancelNotLost`, `ImplementsHost`, `Answered`, `TearDown` |
| `control_messages` | every message with values of every type, in any order of members, written in six ways; broken lines | `ReadsWhatWasWritten`, `RepliesAreLines`, `LimitsAsAsked` |
| `harness` | two clients, two lines, a worker that writes two lines, a close at any moment | `LinesArriveWhole`, `LinesNeverMix`, `NobodyElsesLines`, `Served` |
| `session` | an edit, two clicks, two connections, four texts; messages and socket events in any order | `RunShown`, `ConnectedSettles`, `DiagnosticsArrive`, `RunEnds` |
| `cards` | every form with operands of every sort, and two edits | `KeptExactly`, `EditIsLocal` |
| `engine_trap`, `harness_hangup`, `cards_round_trip` | as `engine`, `harness`, `cards` | the three disagreements of section 6 |

What the less obvious ones say:

- `TreeExact`, `TokensExact`, `PageAgrees` compare the loops of the code with a definition that
  has none: a token is its characters at its place, a tree is the brackets
  that match.  `Compiled` says that a text comes to an end as a tree or an error.
- `NodesFollowText`: identities are the order in the text, and no two highlightable nodes
  have one place, since the page knows a node by its place only.
- `NothingLost`: without an error every expression of the text is in the tree; without a tree there is an error.
- `LiteralsNeverFail`, `CallsNeverFail`: what the compiler has checked never fails again
  in the engine, although each has its own checks of the forms and its own table of functions.  The
  numbers themselves (`compiler.cpp:14-19`, `engine.cpp:220-244`), equal in the code, are one constant
  here, so that they should ever differ is beyond these runs.
- `JoinIsShort`: when the control thread joins the worker, the worker has nothing
  left to do that needs anybody.
- `RunShown`: once a connection has told the page of a program or of an error, a card is highlighted only
  while a node it stands for is reported as running, and the page shows a run only while there is one or its end is
  still to be heard; a page that has heard of everything knows that a program runs, unless an error
  was answered since.  The condition is needed: `state.js:24` keeps `running` and the highlights when the
  connection ends.
- `KeptExactly`: the program generated from the cards is the program, exactly when it is
  `Expressible` (no bare statement, no `set!` of a variable, no list headed by a list);
  `EditIsLocal`: an edit of one card changes the program at its place and nowhere else.

**Bounds.** `MaxInt` is 7 in the engine's instance: small enough for every overflow
to happen with two additions, large enough to tell a safe argument from an
unsafe one.  The limits are such that each of them is hit by some program
and missed by another.  A recursion of depth 3 shows a call below a call below a
call; the properties of scopes and depth relate neighbouring levels.
`MaxRequests = 3` in the bridge suffices for a run, a cancel and a second run, the
shortest sequence in which a flag of one run can reach another.  The compiler's
checks look at one form and its table of signatures, never further, so all forms
with two operands and some with more are enough.  Integers in `text` have up to
five digits around a largest one of 155: longer than it, equal to it, past it in the
last digit only.  Errors of the parser depend on the depth and on what follows, so seven
characters of brackets and a command give three levels and something behind them.
`ControlMessages` has 16 unsigned and 8 signed numbers: limits below, at and above both
ends.  In `Harness` a line is a few bytes and the buffer four, so a chunk holds a
part of a line, exactly one, and the end of one with the start of the next; two
clients are enough for one to inherit the other's socket.  `Session` has one edit, since two
edits without an event between them are one, two clicks (a run and a second run
or a cancel), two connections (one replaced), and `MaxQueue = 1` message
under way: the page handles them in order, and a longer queue only delays it.
`MaxEdits = 2` in `Cards`: one edit that changes the numbering, one that relies on it.

**Fairness.** The engine assumes `WF(EngineStep)`: the thread runs; a cancel is never
assumed.  `BridgeSpec` has weak fairness of each of the two threads, which the
operating system schedules independently; nothing is assumed of the client, who may stop
sending and never hang up.  `HarnessSpec` likewise: the main thread and the worker.
`SessionSpec` assumes that the event loop of the page starves neither timer nor
socket (`TimerFires`, `OnMessage`) and that both threads of the host run
(`HostHandles`, `HostWorks`); nothing of the student and of the network, whose end of a
connection every property allows for.  `TextSpec`: the caller runs.
`Termination`, `TearDown` and `Answered` except the process that trapped.

**Deadlock** is checked everywhere; what is over stutters explicitly (`Gone`, `Returned`, `AtRest`,
the engine's `over` state ...), so a deadlock is something stuck in the middle.

## 4. What is proved

The theorems hold for every value of the constants under the named assumptions
at the end of this section.  Each proof module states an inductive invariant,
proves it step by step (one lemma per group of actions), and draws the properties from it.
The invariants were checked by TLC on the instances of section 3 before they were proved.  Of the 40
properties the passing runs check, 27 are theorems; the other 13 are named below, with the reason.

**`EngineProofs`**: `execute()`, for all well-formed programs, all limits, all sensor
values, every `MaxInt >= 5`.

- `Inductive: Spec => []IInv`.  `IInv` is `InterpreterOK` (shapes) and `StackOK`.  The shapes
  alone are not inductive: that a value popped from a frame exists, and that a scope is
  there to bind it, depends on how the frames relate.  `StackOK` says so:
  each frame below the top waits for the one above, each function body on the
  stack accounts for one scope and one level of call depth, the operands a frame
  has collected are those it has evaluated.  Pushing, popping and replacing the top
  frame are lemmas of their own.
- `TypeCorrect: []TypeOK`: every value stays in the width of its type, every message is well formed.
- `SafeCommands: []CommandsSafe`: no program makes the robot exceed the
  bounds on speed, duration and angle, whatever it computes.
- `LateCommands: []LateCommandBound`: at most one command after the
  cancel flag went up.  The argument (`LateOK`): a late command returns
  `None`; every way on from there passes `eval` and its poll, or yields a
  Boolean, and neither is accepted as an operand of a second command.

- `StreamImplemented: Spec => ImplementsStream`: every step of the interpreter is a step of
  `RunStream` or none.  `StreamInv` says in addition that a frame sits on a child of the frame below
  it, the one at the position that frame has reached (`OnPath`): that makes the open nodes
  a path of the tree, so the child announced next is one `RunStream` allows.
- `ScopesIsolated: Spec => ScopeIsolation`.  Every assignment goes to the scope of the top frame or to
  the global one, and by `IInv` the former is the last of `env`.
- `StackBounded: []StackBound`.  The height of the node of a frame falls from frame to frame except
  below a call, of which there are `callDepth`, and a call starts again at a height no larger
  than that of a function.  It needs that a program has heights at all, `TreeAssumption`.

**`CompilerProofs`**: `compile()`, for all sources made of integers, symbols and lists.

- `CompilerInductive: Spec => []IInv`.  A node refers only to nodes that exist
  and has as many arguments as the engine takes from it; an expression under
  compilation has passed its checks; while nothing is blamed, none of them was
  merely questionable.  `CloseForm` makes a node only when the
  arguments it collected number `ArgCount`, what `Accepted` lets through has a
  fixed `ArgCount` for each kind of node (for calls the arity table, which
  the engine does not need), and a symbol that is not reserved is a name.
- `OutputIsWellFormed: []OutputWellFormed`.  A tree that `compile()` returns
  without an error satisfies `WellFormed`: `engine.cpp` may take `args[0]` to `args[2]` unchecked.
- `NothingIsLost: []NothingLost`.  While nothing is blamed, a frame has received a node for
  each operand it is past, in their order, and waits for the form of the frame above (`FramesGather`).
- For use elsewhere: what begins with `Fresh` (a legal source, nothing done) stays within these
  invariants, whichever set the source is from; and `Adopted`, that no node is left over: each is an operand of
  another node, of a form still open, or is the root.

**`TextProofs`**: from the characters on, for all texts over any alphabet.  What recursive functions
of the model compute (`Level`, `Decimal`, `PreOrder`) is within reach: `RecursionExists` and `FromZeroOn`, drawn from
`MinProperties`, replace the induction the library has no usable form of.

- The lexer, `Lexed`: up to `Consumed` every character is in one token, in a comment or
  blank, or is complained about (`Covered`); tokens stand where the line breaks before them say
  (`PlaceOK`; `AdvancedPlace` is the step of one character); the digits of a word give its value or a complaint
  (`MagnitudeExact` relates the overflow check of the loop to the exact value); and each complaint answers one fault,
  so `Complains` can count them.
- The parser, `ParseOK`: tokens have a level of nesting, by a recursion on them.  The expressions
  that are `Complete` so far have the lists, spans and values their parentheses call for (`Tree`), and
  the open list number *i* holds the complete elements behind its parenthesis on level *i* (`Lists`).
  After an error returned through every open list, `Dropped`, what is kept is what stood before the outermost of them.
- `TextInductive: []TextInv` joins both with the invariants of `CompilerProofs` about the source parsed.
- `TokensAreExact: []TokensExact`, `TreeIsExact: []TreeExact`, `SourcesAreLegal: []SourceIsLegal`;
  `TextsCompile`: `OutputWellFormed` and `NothingLost` of any text, with no assumption left about the source.
- `NodesAreFound: []NodesFollowText`.  Expressions on one level end before the next begins, and elements end before
  their list (`EndsBefore`, `EndsWithin`: between a parenthesis and its match everything is
  deeper), so places tell nodes apart; the `do` around a program is one of the nodes only if no node takes up
  the whole program (`BelowWhole`).  The preorder of the ids visits every node, by `Adopted`, and operands
  have larger numbers than their form (`Numbered`), so it is the order of the text.

**`RunProofs`**: compiler and engine together, from any source (`RunnerSpec`).

- `RunInductive: []RunInv`.  The compiler's invariants hold throughout, strengthened by `Faithful` (each
  node is of the kind, name and arity its text says); after `execute()` was called the engine's
  hold as well, and `OperandsOK`: the operands of a form with a range are evaluated
  one by one in order, so the value of a literal arrives at the place where the compiler checked it.
  What the engine assumes of a program is here not an assumption but a consequence of `OkWellFormed`.
- `NoErrorStarts: []ErrorsDoNotStart`; `SafeFromSource: []CommandsSafe`.
- `CallsSucceed: []CallsNeverFail`: a call that compiled is to a signature, the define of a
  signature is a node below the root (nothing is lost), and all of that name have its arity since
  duplicates are errors; so the engine finds one, and whichever it finds fits.
- `LiteralsSucceed: []LiteralsNeverFail`: `OperandsOK` and the ranges the compiler has checked.
- `UnderTheirIssuer: []PrintedUnderIssuer`.  `PrintInv`: each highlightable node that is open has its start in what is
  printed, and from there on never fewer nodes were open than now stand from it inwards (`Nest`); and all
  commands are printed, or all but the last, whose node is about to report it, or to be left with the event that
  will print it (`Issued`).  That the open nodes are nested is `StreamInv`.

**`BridgeProofs`**: the two threads of the host, for every client, set of texts, limits and
interleaving.

- `BridgeInductive: []BridgeInv`.  `IInv` and `StreamInv` hold of each run of the worker, and `ThreadsOK`:
  `running_` is up from the acceptance of a request until its job has nothing left
  to do, so whoever finds it down finds no job, and only a launch, which finds none either, lowers the
  cancel flag.
- `CancelForThisRun`, `JoinsAreShort`, `CancelStays` follow.
- `HostImplemented: BridgeSpec => ImplementsHost`: each step is one of `Host`, or none.  The steps of a
  program are steps of `RunStream` by the lemmas of `EngineProofs`.

**`HarnessProofs`**: the server, for any number of clients, lines, buffer sizes and cuts.

- `HarnessInductive: []HarnessInv`: a thread works only for the client that is
  served (`ServesOne`), what it has left is a whole line or the second piece of one it holds
  the mutex for (`RestOK`), and the last thing a listening client got is a first piece exactly then (`HalfLine`).
- `LinesStayWhole: []LinesNeverMix`, `LinesStayApart: []NobodyElsesLines`.
- `WholeLinesArrive: []LinesArriveWhole` from `ArriveInv`: for each client, the bytes nobody has taken yet, in the
  connection and in the server's buffer, are letters with line breaks behind them (`Shaped`), and what `handle()` was given
  with the lines those bytes still yield is what the client sent (`ClientOK`); before the server reads on or gives the
  connection up it has taken every line that had ended (`CutsOK`).

**`SessionProofs`**: the page and its client, for all texts, bounds and orders of events.

- `SessionInductive: []SessionInv`.  `Reported`: replaying the messages under way on what the page
  has seen gives the nodes the host has open, highlightable ones only, and no message
  closes another than the last one.  `Announced`: while a program runs, the last
  message about runs that is under way, or else the page's state, says so or answers something else.
  `EndsAfter` and `Ended`: where no program runs but the page says so, a message that ends it is under
  way.  `ActiveTold`: from the first message about a program on, the highlights are those of the nodes in `seen`.
  `HostOK`: what the host does between two messages agrees with the phase of its program.
- `ShownIsTrue: []RunShown`, `ConnectionShown: []ConnectedSettles`.

**Assumptions.**  TLC evaluates each of them on some run.

- `BoundsAssumption`: the bounds on commands fit the width of an integer.
- `EngineAssumption`: programs are well formed, which `OutputIsWellFormed` shows of what compiles;
  limits and sensor values are numbers.
- `TreeAssumption` (used by `StackBounded` only): a program is a finite tree, so the recursion
  `HeightIn` is defined on it and falls from a node to what it owns.  In C++ it
  is one by `unique_ptr`.  That the recursion has a value cannot be derived here (induction over data).
- `CompilerAssumption`, `RunAssumption`: sources consist of integers, symbols and lists, which
  `SourcesAreLegal` shows of what the parser returns; limits are numbers; two string literals are
  strings, which the provers do not know.
- `LexerAssumption`, `TextAssumption`: a text is a finite sequence of characters, letters are
  neither blank nor brackets, and a word spells a name or a reserved word.
- `BridgeAssumption`: what a handler reads of a message is an integer or a flag; compiled texts are programs.
- `HarnessAssumption`: the buffer has a size, and there is a name for nobody.
- `SessionAssumption` is evaluated, and no proof needs it.

`SequenceFacts` holds what the proofs share: sequences of any elements, cutting a
sequence in two, and `MinProperties`, that a set of numbers has a least one.  The library has no usable
induction for the latter, so it is drawn from the finiteness of intervals.

**What the proofs found in the model.**  `CASE` expressions whose guards overlapped (TLA+ lets either
branch apply where the code takes the first), in `Engine` and `Cards`; an instance in which a
symbol of the sources was not among the names (`RunAssumption`); a type invariant that
mentioned the set of programs and so could not hold of a program that was just compiled; a bridge whose
unused initial program need not be one that compiles.  No proof needed a change to a property.

**Model-checked only.**

- Liveness: `Termination`, `Answered`, `TearDown`, `Compiled`, `Served`, `DiagnosticsArrive`, `RunEnds`.  The prover
  has no rule for fairness.
- `PageAgrees`, `ReadsWhatWasWritten`, `RepliesAreLines`, `LimitsAsAsked`, `KeptExactly`, `EditIsLocal`: the page's parser, the
  JSON reader and the card functions are mutually recursive on trees and strings, as the JavaScript and C++ they
  translate, and the prover does not take `RECURSIVE` operators.

## 5. Not modelled

- *Dev server relay.* What is hard in it, the order of the child's last output, its exit
  and the socket's close, is decided by node.js, and no source here says
  how; WebSocket framing is bit layout.  `Session` takes from it that a connection has
  one harness.
- *Card rendering, `cardcode_editor.html`.* Presentation; the latter does not talk to an engine.
- *Harness*: arguments of `main()`, a port that cannot be bound.  `run_stdio` reads whole
  lines, which is `Bridge`.
- *Forwarding host*: real-time waiting delays and does not reorder.
- *Page*: telemetry list, sensor panel, wording of the status.  *Client*: `reset` and `setSensor` are never
  sent, and a host that writes no JSON is not considered.  *Cards*: the spans of generated cards
  and reading the manifest.
- *JSON*: surrogates, and numbers of more digits than the bounds allow; a double is a
  decimal number.
- Message texts and formatting everywhere; `max_runtime_ms`, which the engine never reads; the
  synchronous mode of the bridge, used by tests only.
- Exhaustion of the native stack by deeply nested text: the recursion of parser
  and compiler has no bound in the code; `StackBound` relates the
  engine's recursion to the height of the tree, which the text determines.

## 6. Findings

1. `engine_trap`: `README.md:145-147` says arithmetic errors are runtime errors.
   The smallest integer divided by -1 is undefined and can end the process.
2. `harness_hangup`: `harness/main.cpp:7-8` has a server for one client after the other.  A
   write to a connection that was reset raises SIGPIPE, which nothing handles, and
   the server ends.
3. `cards_round_trip`: the design of the page says that `set!` is among the forms that
   round-trip.  Its card keeps the name as an object, and any edit of a card in such a
   program writes `(set! [object Object] 1)`.

Met while modelling, part of the models, and without a run of their own:

- Node events are not only about highlightable nodes.  `protocol.md:113-115` says "Only highlightable nodes appear
  here ... operators and literals never do", and `README.md:79` that they "get no IDs and evaluate
  silently".  But a statement or branch that is skipped is reported whatever it is
  (`engine.cpp:115-117`), a node that fails likewise (`engine.cpp:49-53`), and with id 0, which is the root's.  This is
  a disagreement of code and document; `RunStream` states it as the exception under which
  `ImplementsStream` and `ImplementsHost` hold.
- A cancel after the last node was entered is not noticed, and the run ends with
  `programDone` rather than `programError` (`protocol.md:59-60`).
- `running_` is lowered after `programDone` is out, so a prompt next run is refused although nothing
  runs (`protocol.md:52-53`).
- `json_parse` accepts text behind the value, numbers such as `1-2` and bare line breaks in
  strings (`protocol.md:165-166` promises an error for malformed lines).
- The page takes any error for the end of the program (`state.js:44`): after a refused run it
  shows the running one as stopped.  The end of an expression inside a card clears the highlight
  of the card (`state.js:65`).  Late diagnostics of an older text replace the page's own parse
  error (`state.js:36`).  After a URL that is none it still shows "connected" (`transport.js:10-11`).
- When a connection ends, its harness is killed (`dev-server.js:215-217`), but the page goes on
  showing the run and the highlighted cards (`state.js:24`), on a new connection too, until a message about a
  program or an error comes.  No document says what it should show; `RunShown` excepts it.
- Host and page count places in bytes and in characters; behind a character of
  several bytes highlights are off.
- A bare `x` becomes the card `(expr x)`, a list headed by a list loses its head, and
  editing a card while the text does not parse replaces what was typed.

## 7. Plan

Done: text to tree, tree to run, threads and lines of the harness, page and cards, the two
abstract specifications and their refinements, and the safety of all that is not a recursive
computation on trees (section 4).  What is left:

1. The relay, once its order of events is written down; the synchronous mode of the bridge.
2. `PageAgrees` from a page parser with an explicit stack, as `Parser` has one, related to `Level`.
