------------------------------ MODULE Harness ------------------------------
(***************************************************************************)
(* harness/main.cpp: the server on a TCP port.  One process serves one     *)
(* connection after the other; for each of them serve_client reads chunks  *)
(* of bytes, cuts them into lines and hands the lines to a new bridge,     *)
(* whose worker thread writes to the same socket.  The bridge is reduced   *)
(* to what it does to the connection: a line is an "ask" that is answered  *)
(* at once, or a "run" that starts a worker, or is refused while it works. *)
(***************************************************************************)
EXTENDS Integers, SequencesExt, Functions

CONSTANTS
    Clients,     \* those that may connect, each of them once
    Nobody,      \* no client
    Output,      \* how many lines the worker of a run writes
    ChunkSize,   \* the size of the buffer given to read() (4096)
    MaxLines     \* bound: lines the clients send altogether

ASSUME HarnessAssumption ==
    /\ Nobody \notin Clients
    /\ ChunkSize \in Nat \ {0} /\ Output \in Nat /\ MaxLines \in Nat

VARIABLES
    conn,       \* client -> "new", "queued", "served" or "over"
    closed,     \* the clients that have closed their side
    reset,      \* those of them whose system has refused what was written since
    toHost,     \* client -> bytes sent and not yet read
    toClient,   \* client -> bytes it was sent
    lines,      \* history: client -> the lines it has sent
    handled,    \* history: client -> the lines given to handle()
    alive,      \* the process exists
    main,       \* the main thread: "accept", "read", "split" or "close"
    serving,    \* the client whose connection it serves
    buf,        \* what was read and not yet cut into lines
    worker,     \* the worker thread: "none", "busy" or "done"
    runner,     \* history: the client for whom it runs
    left,       \* the lines it has still to write
    mutex,      \* the thread that holds out_mu
    rest        \* thread -> the bytes of its current line not yet written

peers == <<conn, closed, toHost, lines>>

server == <<handled, alive, main, serving, buf, worker, runner, left>>

output == <<reset, toClient, mutex, rest>>

harnessVars == <<peers, server, output>>

Threads == {"main", "worker"}

Kinds == {"ask", "run"}

Line(kind) == <<kind, "-", "nl">>

(* The line a thread writes, in two pieces, and whom it is meant for.      *)
OutLine(thread, client, n) == [part \in 1 .. 2 |-> [by |-> thread, for |-> client, n |-> n, part |-> part]]

-----------------------------------------------------------------------------
(***************************************************************************)
(* The clients.                                                            *)
(***************************************************************************)
Connect(c) ==
    /\ conn[c] = "new"
    /\ conn' = [conn EXCEPT ![c] = "queued"]
    /\ UNCHANGED <<closed, toHost, lines, server, output>>

Sent == FoldFunction(LAMBDA ls, n : n + Len(ls), 0, lines)

Send(c) ==
    /\ conn[c] \in {"queued", "served"} /\ c \notin closed /\ Sent < MaxLines
    /\ \/ \E kind \in Kinds :
             /\ toHost' = [toHost EXCEPT ![c] = @ \o Line(kind)]
             /\ lines' = [lines EXCEPT ![c] = Append(@, kind)]
       \/ /\ Last(<<"-">> \o toHost[c]) # "nl"      \* an empty line
          /\ toHost' = [toHost EXCEPT ![c] = Append(@, "nl")]
          /\ UNCHANGED lines
    /\ UNCHANGED <<conn, closed, server, output>>

(* The client closes the socket, perhaps in the middle of a line.          *)
HangUp(c) ==
    /\ conn[c] \in {"queued", "served"} /\ c \notin closed
    /\ closed' = closed \cup {c}
    /\ \E piece \in {<<>>, <<"run">>} : toHost' = [toHost EXCEPT ![c] = @ \o piece]
    /\ UNCHANGED <<conn, lines, server, output>>

-----------------------------------------------------------------------------
(***************************************************************************)
(* The main thread.                                                        *)
(***************************************************************************)
MainAt(pc) == alive /\ main = pc /\ rest["main"] = <<>>

Accept ==
    /\ MainAt("accept")
    /\ \E c \in Clients :
          /\ conn[c] = "queued"
          /\ conn' = [conn EXCEPT ![c] = "served"]
          /\ serving' = c
    /\ main' = "read" /\ buf' = <<>>
    /\ UNCHANGED <<closed, toHost, lines, handled, alive, worker, runner, left, output>>

Taken(n) ==
    /\ n \in 1 .. Min({ChunkSize, Len(toHost[serving])})
    /\ toHost' = [toHost EXCEPT ![serving] = SubSeq(@, n + 1, Len(@))]
    /\ main' = "split"
    /\ UNCHANGED <<conn, closed, lines, handled, alive, serving, worker, runner, left, output>>

(* Mutant: every chunk is looked at on its own.                            *)
ReadChunkAlone ==
    /\ MainAt("read") /\ toHost[serving] # <<>>
    /\ \E n \in 1 .. ChunkSize : Taken(n) /\ buf' = SubSeq(toHost[serving], 1, n)

(* read() returns some of the bytes that are there.                        *)
ReadChunk ==
    /\ MainAt("read") /\ toHost[serving] # <<>>
    /\ \E n \in 1 .. ChunkSize : Taken(n) /\ buf' = buf \o SubSeq(toHost[serving], 1, n)

Breaks == {i \in 1 .. Len(buf) : buf[i] = "nl"}

(* handle() of a line: asking, or running while a program runs, is         *)
(* answered by this thread; otherwise a worker is started.                 *)
Handle(kind) ==
    /\ handled' = [handled EXCEPT ![serving] = Append(@, kind)]
    /\ IF kind = "run" /\ worker # "busy"
         THEN worker' = "busy" /\ runner' = serving /\ left' = Output /\ UNCHANGED rest
         ELSE /\ rest' = [rest EXCEPT !["main"] = OutLine("main", serving, Len(handled'[serving]))]
              /\ UNCHANGED <<worker, runner, left>>

TakeLine ==
    /\ MainAt("split") /\ Breaks # {}
    /\ buf' = SubSeq(buf, Min(Breaks) + 1, Len(buf))
    /\ IF Min(Breaks) = 1
         THEN UNCHANGED <<handled, worker, runner, left, rest>>
         ELSE Handle(buf[1])
    /\ UNCHANGED <<peers, alive, main, serving, reset, toClient, mutex>>

NoMoreLines ==
    /\ MainAt("split") /\ Breaks = {}
    /\ main' = "read"
    /\ UNCHANGED <<peers, handled, alive, serving, buf, worker, runner, left, output>>

(* Mutant: only an error ends the loop, the end of the input does not.     *)
ReadEndOnError ==
    /\ MainAt("read") /\ toHost[serving] = <<>> /\ serving \in closed
    /\ main' = IF serving \in reset THEN "close" ELSE "read"
    /\ UNCHANGED <<peers, handled, alive, serving, buf, worker, runner, left, output>>

(* read() returns 0: the loop ends, what is left in buf is dropped.        *)
ReadEnd ==
    /\ MainAt("read") /\ toHost[serving] = <<>> /\ serving \in closed
    /\ main' = "close"
    /\ UNCHANGED <<peers, handled, alive, serving, buf, worker, runner, left, output>>

Leave ==
    /\ conn' = [conn EXCEPT ![serving] = "over"]
    /\ serving' = Nobody /\ buf' = <<>> /\ main' = "accept"
    /\ UNCHANGED <<closed, toHost, lines, handled, alive, runner, left, output>>

(* Mutant: the worker is not joined when the bridge goes.                  *)
CloseDetached ==
    /\ MainAt("close")
    /\ Leave /\ UNCHANGED worker

(* The bridge is destroyed, which joins the worker, then the socket.       *)
Close ==
    /\ MainAt("close") /\ worker # "busy"
    /\ Leave /\ worker' = "none"

-----------------------------------------------------------------------------
(***************************************************************************)
(* The worker thread, and writing, which both threads do.                  *)
(***************************************************************************)
WorkerLine ==
    /\ alive /\ worker = "busy" /\ rest["worker"] = <<>> /\ left > 0
    /\ rest' = [rest EXCEPT !["worker"] = OutLine("worker", runner, left)]
    /\ left' = left - 1
    /\ UNCHANGED <<peers, handled, alive, main, serving, buf, worker, runner, reset, toClient, mutex>>

WorkerEnds ==
    /\ alive /\ worker = "busy" /\ rest["worker"] = <<>> /\ left = 0
    /\ worker' = "done"
    /\ UNCHANGED <<peers, handled, alive, main, serving, buf, runner, left, output>>

(* Mutant: out_mu is not taken.                                            *)
LockNothing(t) ==
    /\ alive /\ rest[t] # <<>> /\ mutex # t
    /\ mutex' = t
    /\ UNCHANGED <<peers, server, reset, toClient, rest>>

(* The lambda emit: out_mu is held until the whole line is written.        *)
Lock(t) ==
    /\ alive /\ rest[t] # <<>> /\ mutex = "free"
    /\ mutex' = t
    /\ UNCHANGED <<peers, server, reset, toClient, rest>>

Written(t, n) ==
    /\ rest' = [rest EXCEPT ![t] = SubSeq(@, n + 1, Len(@))]
    /\ mutex' = IF n = Len(rest[t]) THEN "free" ELSE mutex

(* write_all: write() takes some of the bytes; those for a client that has *)
(* closed get lost, and its system answers with a reset.                   *)
Write(t) ==
    /\ alive /\ mutex = t /\ serving # Nobody /\ serving \notin reset
    /\ \E n \in 1 .. Len(rest[t]) :
          /\ Written(t, n)
          /\ IF serving \in closed
               THEN UNCHANGED toClient /\ \E r \in {reset, reset \cup {serving}} : reset' = r
               ELSE /\ toClient' = [toClient EXCEPT ![serving] = @ \o SubSeq(rest[t], 1, n)]
                    /\ UNCHANGED reset
    /\ UNCHANGED <<peers, server>>

(* The first write after the reset may report it, and write_all gives up.  *)
WriteFails(t) ==
    /\ alive /\ mutex = t /\ serving \in reset
    /\ Written(t, Len(rest[t]))
    /\ UNCHANGED <<peers, server, reset, toClient>>

(* Any other raises SIGPIPE, which nothing in the harness handles.         *)
BrokenPipe(t) ==
    /\ alive /\ mutex = t /\ serving \in reset
    /\ alive' = FALSE
    /\ UNCHANGED <<peers, handled, main, serving, buf, worker, runner, left, output>>

-----------------------------------------------------------------------------
HarnessInit ==
    /\ conn = [c \in Clients |-> "new"] /\ closed = {} /\ reset = {}
    /\ toHost = [c \in Clients |-> <<>>] /\ toClient = [c \in Clients |-> <<>>]
    /\ lines = [c \in Clients |-> <<>>] /\ handled = [c \in Clients |-> <<>>]
    /\ alive = TRUE /\ main = "accept" /\ serving = Nobody /\ buf = <<>>
    /\ worker = "none" /\ runner = Nobody /\ left = 0
    /\ mutex = "free" /\ rest = [t \in Threads |-> <<>>]

Emit(t) == Lock(t) \/ Write(t) \/ WriteFails(t) \/ BrokenPipe(t)

MainStep == Accept \/ ReadChunk \/ TakeLine \/ NoMoreLines \/ ReadEnd \/ Close \/ Emit("main")

WorkerStep == WorkerLine \/ WorkerEnds \/ Emit("worker")

ClientStep == \E c \in Clients : Connect(c) \/ Send(c) \/ HangUp(c)

(* Nothing is left to do: the server waits in accept(), or it is gone.     *)
Idle ==
    /\ ~alive \/ (main = "accept" /\ \A c \in Clients : conn[c] = "over")
    /\ UNCHANGED harnessVars

HarnessNext == MainStep \/ WorkerStep \/ ClientStep \/ Idle

HarnessSpec ==
    /\ HarnessInit /\ [][HarnessNext]_harnessVars
    /\ WF_harnessVars(MainStep) /\ WF_harnessVars(WorkerStep)

-----------------------------------------------------------------------------
(***************************************************************************)
(* Properties.                                                             *)
(***************************************************************************)
(* A line break ends a line unless it follows another one.                 *)
LineEnds(bytes) == {i \in 3 .. Len(bytes) : bytes[i] = "nl" /\ bytes[i - 1] # "nl"}

(* These are the lines that end in the bytes, one for each end, in order.  *)
AreLinesOf(ls, bytes) ==
    \E ends \in [DOMAIN ls -> LineEnds(bytes)] :
        /\ Range(ends) = LineEnds(bytes)
        /\ \A j, k \in DOMAIN ls : j < k => ends[j] < ends[k]
        /\ \A k \in DOMAIN ls : ls[k] = bytes[ends[k] - 2]

(* What c has sent and nobody has taken a line from, and the lines that    *)
(* are owed to it.                                                         *)
Untaken(c) == (IF serving = c THEN buf ELSE <<>>) \o toHost[c]

Owed(c) == SubSeq(lines[c], Len(handled[c]) + 1, Len(lines[c]))

(* However the bytes arrive in chunks, handle() gets exactly the lines the *)
(* client has sent, whole, once and in order, and never the piece of a     *)
(* line that the client did not finish (main.cpp:63-75).                   *)
LinesArriveWhole ==
    \A c \in Clients : lines[c] = handled[c] \o Owed(c) /\ AreLinesOf(Owed(c), Untaken(c))

(* The lines of the two threads are never mixed: behind the first piece of *)
(* a line comes its second (main.cpp:55-60, docs: "one line per message"). *)
LinesNeverMix ==
    \A c \in Clients :
        LET got == toClient[c]
        IN  \A i \in 1 .. Len(got) :
                IF got[i].part = 1
                  THEN i < Len(got) => got[i + 1] = [got[i] EXCEPT !.part = 2]
                  ELSE i > 1 /\ got[i - 1] = [got[i] EXCEPT !.part = 1]

(* Nobody receives what belongs to another connection, although the socket *)
(* of the next client may have the number of the last one's: the bridge is *)
(* gone, its worker with it, before the socket is closed (main.cpp:62-76,  *)
(* 99-100, protocol_bridge.hpp:36-39).                                     *)
NobodyElsesLines ==
    \A c \in Clients : \A i \in 1 .. Len(toClient[c]) : toClient[c][i].for = c

(* A client that waits is served in the end, unless the one before it      *)
(* stays for ever, or the process is gone.                                 *)
Served ==
    \A c \in Clients :
        conn[c] = "queued" ~>
            (conn[c] # "queued" \/ ~alive \/ (serving # Nobody /\ serving \notin closed))

(* main.cpp:7-8 promises a server for one client at a time and its loop    *)
(* has no end; a client that hangs up while its program still writes takes *)
(* the process with it.                                                    *)
ServerOutlivesClients == alive
=============================================================================
