---------------------------- MODULE HarnessProofs ----------------------------
(***************************************************************************)
(* What holds of the server for every number of clients, every length of a *)
(* run and every way the bytes are cut into reads and writes.              *)
(***************************************************************************)
EXTENDS Harness, SequenceFacts

-----------------------------------------------------------------------------
(***************************************************************************)
(* The inductive invariant.                                                *)
(***************************************************************************)
Bytes == Kinds \cup {"-", "nl"}

Pieces == [by : Threads, for : Clients, n : Nat, part : 1 .. 2]

HarnessTypeOK ==
    /\ conn \in [Clients -> {"new", "queued", "served", "over"}]
    /\ closed \subseteq Clients /\ reset \subseteq Clients
    /\ toHost \in [Clients -> Seq(Bytes)] /\ handled \in [Clients -> Seq(Bytes)]
    /\ buf \in Seq(Bytes)
    /\ main \in {"accept", "read", "split", "close"} /\ worker \in {"none", "busy", "done"}
    /\ serving \in Clients \cup {Nobody} /\ left \in Nat
    /\ mutex \in Threads \cup {"free"}
    /\ toClient \in [Clients -> Seq(Pieces)] /\ rest \in [Threads -> Seq(Pieces)]

(* A thread works for the client that is served, and for no other: the     *)
(* worker is joined before the connection is given up.                     *)
ServesOne ==
    /\ main = "accept" <=> serving = Nobody
    /\ serving # Nobody => conn[serving] = "served"
    /\ worker = "busy" => serving # Nobody /\ runner = serving
    /\ rest["worker"] # <<>> => worker = "busy"
    /\ rest["main"] # <<>> => main = "split"
    /\ \A c \in Clients : toClient[c] # <<>> => conn[c] \in {"served", "over"}

Second(piece) == [piece EXCEPT !.part = 2]

(* What a thread has left of a line is all of it or its second piece.      *)
RestOK ==
    \A t \in Threads : rest[t] # <<>> =>
        /\ \A i \in 1 .. Len(rest[t]) : rest[t][i].for = serving
        /\ \/ Len(rest[t]) = 2 /\ rest[t][1].part = 1 /\ rest[t][2] = Second(rest[t][1])
           \/ Len(rest[t]) = 1 /\ rest[t][1].part = 2 /\ mutex = t

(* Who holds out_mu is not done with its line.                             *)
LockOK == mutex # "free" => rest[mutex] # <<>>

(* While a client listens, the last thing it got is the first piece of a   *)
(* line exactly when the thread with out_mu has the second one left.       *)
HalfLine ==
    serving # Nobody /\ serving \notin closed =>
        LET got  == toClient[serving]
            half == mutex # "free" /\ Len(rest[mutex]) = 1
        IN  /\ got # <<>> /\ Last(got).part = 1 => half
            /\ half => got # <<>> /\ Last(got).part = 1 /\ rest[mutex][1] = Second(Last(got))

HarnessInv ==
    /\ HarnessTypeOK /\ ServesOne /\ RestOK /\ LockOK
    /\ reset \subseteq closed
    /\ HalfLine /\ LinesNeverMix /\ NobodyElsesLines

-----------------------------------------------------------------------------
(***************************************************************************)
(* Lines and pieces of lines.                                              *)
(***************************************************************************)
(* A new line has two pieces, both for the one it is meant for.            *)
LEMMA OutLineFacts ==
    ASSUME NEW t \in Threads, NEW c \in Clients, NEW n \in Nat
    PROVE  LET line == OutLine(t, c, n)
           IN  /\ line \in Seq(Pieces) /\ line # <<>> /\ Len(line) = 2
               /\ \A i \in 1 .. Len(line) : line[i].for = c
               /\ line[1].part = 1 /\ line[2] = Second(line[1])
<1> DEFINE line == OutLine(t, c, n)
           P(k) == [by |-> t, for |-> c, n |-> n, part |-> k]
<1>1. \A k \in 1 .. 2 : P(k) \in Pieces /\ P(k).for = c /\ P(k).part = k
  BY DEF Pieces
<1>2. P(2) = Second(P(1))
  BY DEF Second
<1>3. line = [k \in 1 .. 2 |-> P(k)]
  BY DEF OutLine
<1> HIDE DEF P
<1>4. line \in Seq(Pieces) /\ Len(line) = 2 /\ line[1] = P(1) /\ line[2] = P(2)
  BY <1>1, <1>3
<1> HIDE DEF line
<1>5. line # <<>>
  BY <1>4, EmptySeq, 2 # 0
<1>6. \A i \in 1 .. Len(line) : line[i].for = c
  BY <1>1, <1>4
<1>7. line[1].part = 1 /\ line[2] = Second(line[1])
  BY <1>1, <1>2, <1>4
<1> QED
  BY <1>4, <1>5, <1>6, <1>7 DEF line

LEMMA BytesFacts ==
    ASSUME NEW s \in Seq(Bytes)
    PROVE  /\ \A kind \in Kinds : s \o Line(kind) \in Seq(Bytes)
           /\ Append(s, "nl") \in Seq(Bytes)
           /\ s \o <<"run">> \in Seq(Bytes) /\ s \o <<>> \in Seq(Bytes)
<1>1. \A kind \in Kinds : Line(kind) \in Seq(Bytes)
  BY DEF Line, Bytes, Kinds
<1>2. "nl" \in Bytes /\ <<"run">> \in Seq(Bytes) /\ <<>> \in Seq(Bytes)
  BY DEF Bytes, Kinds
<1> QED
  BY <1>1, <1>2, ConcatProperties, AppendProperties

-----------------------------------------------------------------------------
(***************************************************************************)
(* Initial states, and the steps that write nothing.                       *)
(***************************************************************************)
LEMMA HarnessStart == HarnessInit => HarnessInv
<1> SUFFICES ASSUME HarnessInit PROVE HarnessInv
  OBVIOUS
<1>1. \A S : <<>> \in Seq(S)
  OBVIOUS
<1>2. HarnessTypeOK
  BY <1>1 DEF HarnessInit, HarnessTypeOK
<1>3. ServesOne /\ RestOK /\ LockOK /\ reset \subseteq closed /\ HalfLine
  BY DEF HarnessInit, ServesOne, RestOK, LockOK, HalfLine, Threads
<1>4. \A c \in Clients : toClient[c] = <<>> /\ Len(toClient[c]) = 0
  BY DEF HarnessInit
<1>5. LinesNeverMix /\ NobodyElsesLines
  BY <1>4 DEF LinesNeverMix, NobodyElsesLines
<1> QED
  BY <1>2, <1>3, <1>5 DEF HarnessInv

(* What a step must show that neither writes nor begins a line: whom the   *)
(* connection belongs to stays as it is as long as there is a line.        *)
LEMMA Quiet ==
    ASSUME HarnessInv, HarnessTypeOK', ServesOne', UNCHANGED output,
           closed \subseteq closed', serving' = serving
    PROVE  HarnessInv'
<1>1. UNCHANGED <<reset, toClient, mutex, rest>>
  BY DEF output
<1>2. RestOK' /\ LockOK' /\ (reset \subseteq closed)'
  BY <1>1 DEF HarnessInv, RestOK, LockOK
<1>3. HalfLine'
  BY <1>1 DEF HarnessInv, HalfLine
<1>4. LinesNeverMix' /\ NobodyElsesLines'
  BY <1>1 DEF HarnessInv, LinesNeverMix, NobodyElsesLines
<1> QED
  BY <1>2, <1>3, <1>4 DEF HarnessInv

LEMMA InvClients ==
    ASSUME HarnessInv, ClientStep
    PROVE  HarnessInv'
<1>1. PICK c \in Clients : Connect(c) \/ Send(c) \/ HangUp(c)
  BY DEF ClientStep
<1>2. toHost[c] \in Seq(Bytes)
  BY DEF HarnessInv, HarnessTypeOK
<1>3. /\ UNCHANGED <<server, output>> /\ closed \subseteq closed' /\ closed' \subseteq Clients
      /\ conn' = conn \/ (conn[c] = "new" /\ conn' = [conn EXCEPT ![c] = "queued"])
      /\ toHost' = toHost \/ (\E s \in Seq(Bytes) : toHost' = [toHost EXCEPT ![c] = s])
  <2>1. CASE Connect(c)
    BY <2>1 DEF Connect, HarnessInv, HarnessTypeOK
  <2>2. CASE Send(c)
    BY <1>2, <2>2, BytesFacts DEF Send, HarnessInv, HarnessTypeOK
  <2>3. CASE HangUp(c)
    BY <1>2, <2>3, BytesFacts DEF HangUp, HarnessInv, HarnessTypeOK
  <2> QED
    BY <1>1, <2>1, <2>2, <2>3
<1>4. HarnessTypeOK'
  BY <1>3 DEF HarnessInv, HarnessTypeOK, server, output
<1>5. ServesOne'
  BY <1>3 DEF HarnessInv, HarnessTypeOK, ServesOne, server, output
<1> QED
  BY <1>3, <1>4, <1>5, Quiet DEF server

LEMMA InvSame ==
    ASSUME HarnessInv, UNCHANGED <<peers, output>>,
           UNCHANGED <<handled, serving, buf, runner, left>>,
           UNCHANGED <<main, worker>> \/ (main # "accept" /\ main' \in {"read", "close"} /\ rest["main"] = <<>> /\ UNCHANGED worker)
             \/ (worker' = "done" /\ rest["worker"] = <<>> /\ UNCHANGED main)
    PROVE  HarnessInv'
<1>1. HarnessTypeOK'
  BY DEF HarnessInv, HarnessTypeOK, peers, output
<1>2. ServesOne'
  BY DEF HarnessInv, HarnessTypeOK, ServesOne, peers, output
<1> QED
  BY <1>1, <1>2, Quiet DEF peers

(* The steps that only move a thread on, or end the process.               *)
LEMMA InvMoves ==
    ASSUME HarnessInv,
           NoMoreLines \/ ReadEnd \/ WorkerEnds \/ (\E t \in Threads : BrokenPipe(t))
             \/ Idle \/ UNCHANGED harnessVars
    PROVE  HarnessInv'
<1> USE DEF MainAt
<1>1. CASE NoMoreLines
  BY <1>1, InvSame DEF NoMoreLines
<1>2. CASE ReadEnd
  BY <1>2, InvSame DEF ReadEnd
<1>3. CASE WorkerEnds
  BY <1>3, InvSame DEF WorkerEnds
<1>4. CASE \E t \in Threads : BrokenPipe(t)
  BY <1>4, InvSame DEF BrokenPipe
<1>5. CASE Idle \/ UNCHANGED harnessVars
  BY <1>5, InvSame DEF Idle, harnessVars, server
<1> QED
  BY <1>1, <1>2, <1>3, <1>4, <1>5

LEMMA InvRead == ASSUME HarnessInv, ReadChunk PROVE HarnessInv'
<1>1. main = "read" /\ rest["main"] = <<>>
  BY DEF ReadChunk, MainAt
<1>2. serving \in Clients /\ toHost[serving] \in Seq(Bytes)
  BY <1>1 DEF HarnessInv, HarnessTypeOK, ServesOne
<1>3. PICK n \in 1 .. ChunkSize : Taken(n) /\ buf' = buf \o SubSeq(toHost[serving], 1, n)
  BY DEF ReadChunk
<1>4. n \in 1 .. Len(toHost[serving])
  <2> DEFINE both == {ChunkSize, Len(toHost[serving])}
  <2>1. both \in SUBSET Nat /\ both # {}
    BY <1>2, HarnessAssumption
  <2>2. n <= Min(both)
    BY <1>3, <2>1, MinProperties DEF Taken
  <2> HIDE DEF both
  <2>3. Min(both) <= Len(toHost[serving])
    BY <2>1, MinProperties DEF both
  <2>4. Min(both) \in Nat
    BY <2>1, MinProperties
  <2> QED
    BY <1>2, <2>2, <2>3, <2>4
<1>5. /\ SubSeq(toHost[serving], 1, n) \in Seq(Bytes)
      /\ SubSeq(toHost[serving], n + 1, Len(toHost[serving])) \in Seq(Bytes)
  BY <1>2, <1>4, CutProperties
<1>6. buf' \in Seq(Bytes)
  BY <1>3, <1>5, ConcatProperties DEF HarnessInv, HarnessTypeOK
<1>7. HarnessTypeOK'
  BY <1>3, <1>5, <1>6 DEF Taken, HarnessInv, HarnessTypeOK, output
<1>8. ServesOne'
  BY <1>1, <1>2, <1>3 DEF Taken, HarnessInv, HarnessTypeOK, ServesOne, output
<1> QED
  BY <1>3, <1>7, <1>8, Quiet DEF Taken

-----------------------------------------------------------------------------
(***************************************************************************)
(* The steps that begin and end a connection, and those that begin a line. *)
(***************************************************************************)
(* While nobody is served, no line is on its way and nobody has out_mu.    *)
LEMMA Silence ==
    ASSUME HarnessInv, rest["main"] = <<>>, worker # "busy"
    PROVE  mutex = "free" /\ \A t \in Threads : rest[t] = <<>>
<1>1. \A t \in Threads : rest[t] = <<>>
  BY DEF HarnessInv, ServesOne, Threads
<1> QED
  BY <1>1 DEF HarnessInv, HarnessTypeOK, LockOK

LEMMA InvTurn ==
    ASSUME HarnessInv, Accept \/ Close
    PROVE  HarnessInv'
<1>1. rest["main"] = <<>> /\ worker # "busy"
  BY DEF Accept, Close, MainAt, HarnessInv, ServesOne
<1>2. mutex = "free" /\ \A t \in Threads : rest[t] = <<>>
  BY <1>1, Silence
<1>3. UNCHANGED <<closed, reset, toClient, mutex, rest>>
  BY DEF Accept, Close, Leave, output
<1>4. HarnessTypeOK' /\ ServesOne'
  <2>1. CASE Accept
    <3>1. PICK c \in Clients : conn[c] = "queued" /\ conn' = [conn EXCEPT ![c] = "served"] /\ serving' = c
      BY <2>1 DEF Accept
    <3>2. HarnessTypeOK'
      BY <2>1, <3>1 DEF Accept, HarnessInv, HarnessTypeOK, output
    <3>3. ServesOne'
      BY <1>1, <1>2, <1>3, <2>1, <3>1, HarnessAssumption
      DEF Accept, HarnessInv, HarnessTypeOK, ServesOne, Threads
    <3> QED
      BY <3>2, <3>3
  <2>2. CASE Close
    <3>1. serving \in Clients
      BY <2>2 DEF Close, MainAt, HarnessInv, HarnessTypeOK, ServesOne
    <3>2. HarnessTypeOK'
      BY <2>2, <3>1 DEF Close, Leave, HarnessInv, HarnessTypeOK, output
    <3>3. ServesOne'
      BY <1>1, <1>2, <1>3, <2>2, <3>1 DEF Close, Leave, HarnessInv, HarnessTypeOK, ServesOne, Threads
    <3> QED
      BY <3>2, <3>3
  <2> QED
    BY <2>1, <2>2
<1>5. RestOK' /\ LockOK' /\ (reset \subseteq closed)'
  BY <1>2, <1>3 DEF HarnessInv, RestOK, LockOK
<1>6. HalfLine'
  <2>1. ASSUME serving' # Nobody, serving' \notin closed, toClient[serving'] # <<>> PROVE FALSE
    BY <2>1 DEF Accept, Close, Leave, HarnessInv, ServesOne
  <2> QED
    BY <1>2, <1>3, <2>1 DEF HalfLine
<1>7. LinesNeverMix' /\ NobodyElsesLines'
  BY <1>3 DEF HarnessInv, LinesNeverMix, NobodyElsesLines
<1> QED
  BY <1>4, <1>5, <1>6, <1>7 DEF HarnessInv

(* A thread that has no line left begins one for the client it works for.  *)
LEMMA Begun ==
    ASSUME HarnessInv, HarnessTypeOK', ServesOne',
           NEW t \in Threads, NEW n \in Nat, rest[t] = <<>>, serving \in Clients,
           rest' = [rest EXCEPT ![t] = OutLine(t, serving, n)],
           UNCHANGED <<closed, reset, serving, toClient, mutex>>
    PROVE  HarnessInv'
<1> DEFINE line == OutLine(t, serving, n)
<1>1. /\ line # <<>> /\ Len(line) = 2 /\ \A i \in 1 .. Len(line) : line[i].for = serving
      /\ line[1].part = 1 /\ line[2] = Second(line[1])
  BY OutLineFacts
<1> HIDE DEF line
<1>2. rest'[t] = line /\ (\A u \in Threads \ {t} : rest'[u] = rest[u]) /\ mutex # t
  <2>1. rest \in [Threads -> Seq(Pieces)]
    BY DEF HarnessInv, HarnessTypeOK
  <2>2. rest'[t] = line /\ \A u \in Threads \ {t} : rest'[u] = rest[u]
    BY <2>1 DEF line
  <2>3. mutex # t
    BY DEF HarnessInv, LockOK, Threads
  <2> QED
    BY <2>2, <2>3
<1>3. RestOK'
  BY <1>1, <1>2 DEF HarnessInv, RestOK
<1>4. LockOK' /\ (reset \subseteq closed)'
  BY <1>2 DEF HarnessInv, HarnessTypeOK, LockOK
<1>5. HalfLine'
  <2>1. mutex # "free" => mutex \in Threads \ {t}
    BY <1>2 DEF HarnessInv, HarnessTypeOK
  <2> QED
    BY <1>2, <2>1 DEF HarnessInv, HalfLine
<1>6. LinesNeverMix' /\ NobodyElsesLines'
  BY DEF HarnessInv, LinesNeverMix, NobodyElsesLines
<1> QED
  BY <1>3, <1>4, <1>5, <1>6 DEF HarnessInv

LEMMA InvWorkerLine == ASSUME HarnessInv, WorkerLine PROVE HarnessInv'
<1>1. /\ worker = "busy" /\ serving \in Clients /\ runner = serving
      /\ rest["worker"] = <<>> /\ left \in Nat /\ left - 1 \in Nat
  BY DEF WorkerLine, HarnessInv, HarnessTypeOK, ServesOne
<1>2. OutLine("worker", serving, left) \in Seq(Pieces) /\ "worker" \in Threads
  BY <1>1, OutLineFacts DEF Threads
<1>3. /\ rest' = [rest EXCEPT !["worker"] = OutLine("worker", serving, left)]
      /\ UNCHANGED <<peers, handled, main, serving, buf, worker, runner, reset, toClient, mutex>>
      /\ left' = left - 1
  BY <1>1 DEF WorkerLine
<1>4. HarnessTypeOK'
  BY <1>1, <1>2, <1>3 DEF HarnessInv, HarnessTypeOK, peers
<1>5. ServesOne'
  BY <1>1, <1>2, <1>3 DEF HarnessInv, HarnessTypeOK, ServesOne, peers
<1> QED
  BY <1>1, <1>2, <1>3, <1>4, <1>5, Begun DEF peers

LEMMA InvTakeLine == ASSUME HarnessInv, TakeLine PROVE HarnessInv'
<1> DEFINE first == Min(Breaks)
<1>1. /\ main = "split" /\ rest["main"] = <<>> /\ serving \in Clients
      /\ buf \in Seq(Bytes) /\ Len(buf) \in Nat /\ handled[serving] \in Seq(Bytes)
  BY DEF TakeLine, MainAt, HarnessInv, HarnessTypeOK, ServesOne
<1>2. first \in 1 .. Len(buf)
  <2>1. Breaks \in SUBSET Nat /\ Breaks # {} /\ Breaks \subseteq 1 .. Len(buf)
    BY <1>1 DEF TakeLine, Breaks
  <2> QED
    BY <2>1, MinProperties
<1>3. buf[1] \in Bytes
  BY <1>1, <1>2, ElementOfSeq
<1>4. /\ buf' = SubSeq(buf, first + 1, Len(buf))
      /\ UNCHANGED <<peers, alive, main, serving, reset, toClient, mutex>>
      /\ UNCHANGED <<handled, worker, runner, left, rest>> \/ Handle(buf[1])
  BY DEF TakeLine
<1>5. buf' \in Seq(Bytes)
  BY <1>1, <1>2, <1>4, CutProperties
<1> HIDE DEF first
<1>6. CASE UNCHANGED <<handled, worker, runner, left, rest>>
  <2>1. HarnessTypeOK'
    BY <1>4, <1>5, <1>6 DEF HarnessInv, HarnessTypeOK, peers
  <2>2. ServesOne'
    BY <1>4, <1>6 DEF HarnessInv, HarnessTypeOK, ServesOne, peers
  <2> QED
    BY <1>4, <1>6, <2>1, <2>2, Quiet DEF peers, output
<1>7. CASE Handle(buf[1])
  <2>1. /\ handled' = [handled EXCEPT ![serving] = Append(@, buf[1])]
        /\ Append(handled[serving], buf[1]) \in Seq(Bytes)
        /\ Len(handled'[serving]) \in Nat
    <3>1. Append(handled[serving], buf[1]) \in Seq(Bytes)
      BY <1>1, <1>3, AppendProperties
    <3>2. handled' = [handled EXCEPT ![serving] = Append(@, buf[1])]
      BY <1>7 DEF Handle
    <3>3. handled'[serving] = Append(handled[serving], buf[1])
      BY <1>1, <3>2 DEF HarnessInv, HarnessTypeOK
    <3> QED
      BY <3>1, <3>2, <3>3, LenProperties
  <2> DEFINE line == OutLine("main", serving, Len(handled'[serving]))
  <2>2. line \in Seq(Pieces) /\ "main" \in Threads
    BY <1>1, <2>1, OutLineFacts DEF Threads
  <2>3. CASE worker' = "busy" /\ runner' = serving /\ left' = Output /\ UNCHANGED rest
    <3>1. HarnessTypeOK'
      BY <1>4, <1>5, <2>1, <2>3, HarnessAssumption DEF HarnessInv, HarnessTypeOK, peers
    <3>2. ServesOne'
      BY <1>1, <1>4, <2>3, HarnessAssumption DEF HarnessInv, HarnessTypeOK, ServesOne, peers
    <3> QED
      BY <1>4, <2>3, <3>1, <3>2, Quiet DEF peers, output
  <2>4. CASE rest' = [rest EXCEPT !["main"] = line] /\ UNCHANGED <<worker, runner, left>>
    <3> HIDE DEF line
    <3>1. HarnessTypeOK'
      BY <1>4, <1>5, <2>1, <2>2, <2>4 DEF HarnessInv, HarnessTypeOK, peers
    <3>2. ServesOne'
      BY <1>1, <1>4, <2>2, <2>4 DEF HarnessInv, HarnessTypeOK, ServesOne, peers
    <3> QED
      BY <1>1, <1>4, <2>1, <2>2, <2>4, <3>1, <3>2, Begun DEF peers, line
  <2> QED
    BY <1>7, <2>3, <2>4 DEF Handle
<1> QED
  BY <1>4, <1>6, <1>7

-----------------------------------------------------------------------------
(***************************************************************************)
(* Writing.                                                                *)
(***************************************************************************)
Paired(got) ==
    \A i \in 1 .. Len(got) :
        IF got[i].part = 1
          THEN i < Len(got) => got[i + 1] = [got[i] EXCEPT !.part = 2]
          ELSE i > 1 /\ got[i - 1] = [got[i] EXCEPT !.part = 1]

Ours(got, c) == \A i \in 1 .. Len(got) : got[i].for = c

Whole(got) == got # <<>> => Last(got).part = 2

(* The next piece keeps what a client got in pairs if it begins a line     *)
(* behind a whole one, or is what its last line lacks.                     *)
LEMMA OneMore ==
    ASSUME NEW got \in Seq(Pieces), NEW piece \in Pieces, NEW c, Paired(got), Ours(got, c),
           piece.for = c,
           \/ piece.part = 1 /\ Whole(got)
           \/ piece.part = 2 /\ got # <<>> /\ Last(got).part = 1 /\ piece = Second(Last(got))
    PROVE  LET more == Append(got, piece)
           IN  /\ more \in Seq(Pieces) /\ more # <<>> /\ Last(more) = piece
               /\ Paired(more) /\ Ours(more, c)
<1> DEFINE more == Append(got, piece)
<1>1. /\ more \in Seq(Pieces) /\ Len(got) \in Nat /\ Len(more) = Len(got) + 1
      /\ \A i \in 1 .. Len(got) : more[i] = got[i] /\ got[i] \in Pieces
      /\ more[Len(got) + 1] = piece
  BY AppendProperties, ElementOfSeq
<1> HIDE DEF more
<1>2. more # <<>> /\ Last(more) = piece
  <2>1. Len(more) # 0
    BY <1>1
  <2> QED
    BY <1>1, <2>1, EmptySeq DEF Last
<1>3. Ours(more, c)
  BY <1>1 DEF Ours
<1>4. got # <<>> => Len(got) \in Nat \ {0} /\ Last(got) = got[Len(got)]
  BY EmptySeq DEF Last
<1>5. Len(got) = 0 \/ got # <<>>
  BY <1>1, EmptySeq
<1>6. CASE piece.part = 1 /\ Whole(got)
  <2>1. Len(got) # 0 => got[Len(got)].part = 2
    BY <1>4, <1>5, <1>6 DEF Whole
  <2> QED
    BY <1>1, <1>2, <1>3, <1>6, <2>1 DEF Paired, more
<1>7. CASE piece.part = 2 /\ got # <<>> /\ Last(got).part = 1 /\ piece = Second(Last(got))
  <2>1. Len(got) \in Nat \ {0} /\ got[Len(got)] \in Pieces /\ got[Len(got)].part = 1
    BY <1>1, <1>4, <1>7
  <2>2. piece = [got[Len(got)] EXCEPT !.part = 2]
    BY <1>4, <1>7 DEF Second
  <2>3. got[Len(got)] = [piece EXCEPT !.part = 1]
    BY <2>1, <2>2 DEF Pieces
  <2>4. Paired(more)
    <3> SUFFICES ASSUME NEW i \in 1 .. Len(more)
                 PROVE  IF more[i].part = 1
                          THEN i < Len(more) => more[i + 1] = [more[i] EXCEPT !.part = 2]
                          ELSE i > 1 /\ more[i - 1] = [more[i] EXCEPT !.part = 1]
      BY DEF Paired
    <3>1. CASE i < Len(got)
      BY <1>1, <3>1 DEF Paired
    <3>2. CASE i = Len(got)
      BY <1>1, <2>1, <2>2, <3>2
    <3>3. CASE i = Len(got) + 1
      BY <1>1, <1>7, <2>1, <2>3, <3>3
    <3> QED
      BY <1>1, <3>1, <3>2, <3>3
  <2> QED
    BY <1>1, <1>2, <1>3, <2>4 DEF more
<1> QED
  BY <1>6, <1>7

(* The next one or two elements, appended.                                 *)
LEMMA NextElements ==
    ASSUME NEW S, NEW got \in Seq(S), NEW s \in Seq(S)
    PROVE  /\ Len(s) >= 1 => got \o SubSeq(s, 1, 1) = Append(got, s[1])
           /\ Len(s) = 2 => got \o SubSeq(s, 1, 2) = Append(Append(got, s[1]), s[2])
<1>1. Len(s) \in Nat /\ Len(got) \in Nat
  OBVIOUS
<1>2. ASSUME Len(s) >= 1 PROVE got \o SubSeq(s, 1, 1) = Append(got, s[1])
  BY <1>1, <1>2
<1>3. ASSUME Len(s) = 2 PROVE got \o SubSeq(s, 1, 2) = Append(Append(got, s[1]), s[2])
  BY <1>1, <1>3
<1> QED
  BY <1>2, <1>3

LEMMA InvLock ==
    ASSUME HarnessInv, NEW t \in Threads, Lock(t)
    PROVE  HarnessInv'
<1>1. /\ mutex = "free" /\ mutex' = t /\ rest[t] # <<>>
      /\ UNCHANGED <<peers, server, reset, toClient, rest>>
  BY DEF Lock
<1>2. HarnessTypeOK' /\ ServesOne'
  BY <1>1 DEF HarnessInv, HarnessTypeOK, ServesOne, peers, server
<1>3. \A u \in Threads : u # "free" /\ (rest[u] # <<>> => Len(rest[u]) = 2)
  BY <1>1 DEF HarnessInv, RestOK, Threads
<1>4. RestOK' /\ LockOK' /\ (reset \subseteq closed)'
  BY <1>1, <1>3 DEF HarnessInv, RestOK, LockOK, peers, server
<1>5. HalfLine'
  BY <1>1, <1>3 DEF HarnessInv, HalfLine, peers, server
<1>6. LinesNeverMix' /\ NobodyElsesLines'
  BY <1>1 DEF HarnessInv, LinesNeverMix, NobodyElsesLines
<1> QED
  BY <1>2, <1>4, <1>5, <1>6 DEF HarnessInv

(* What Written leaves of a line.                                          *)
LEMMA LeftOver ==
    ASSUME HarnessInv, NEW t \in Threads, mutex = t, NEW n \in 1 .. Len(rest[t]), Written(t, n),
           HarnessTypeOK', ServesOne', UNCHANGED <<serving, closed>>, reset' \subseteq closed
    PROVE  /\ RestOK' /\ LockOK' /\ (reset \subseteq closed)'
           /\ rest[t] # <<>>
           /\ \/ mutex' = "free" /\ n = Len(rest[t])
              \/ mutex' = t /\ Len(rest[t]) = 2 /\ n = 1 /\ Len(rest'[t]) = 1 /\ rest'[t][1] = rest[t][2]
<1>1. /\ rest[t] \in Seq(Pieces) /\ Len(rest[t]) \in Nat /\ rest[t] # <<>> /\ t # "free"
  BY DEF HarnessInv, HarnessTypeOK, LockOK, Threads
<1> DEFINE over == SubSeq(rest[t], n + 1, Len(rest[t]))
<1>2. /\ over \in Seq(Pieces) /\ Len(over) = Len(rest[t]) - n
      /\ \A i \in 1 .. Len(rest[t]) - n : over[i] = rest[t][n + i]
  BY <1>1, CutProperties
<1> HIDE DEF over
<1>3. rest'[t] = over /\ \A u \in Threads \ {t} : rest'[u] = rest[u]
  BY DEF Written, over, HarnessInv, HarnessTypeOK
<1>4. Len(over) = 0 <=> over = <<>>
  BY <1>2, EmptySeq
<1>5. mutex' = IF n = Len(rest[t]) THEN "free" ELSE t
  BY DEF Written
<1>6. CASE n = Len(rest[t])
  <2>1. over = <<>> /\ mutex' = "free"
    BY <1>2, <1>4, <1>5, <1>6
  <2> QED
    BY <1>1, <1>3, <1>6, <2>1 DEF HarnessInv, RestOK, LockOK
<1>7. CASE n # Len(rest[t])
  <2>1. Len(rest[t]) = 2 /\ n = 1 /\ rest[t][2] = Second(rest[t][1]) /\ rest[t][2].for = serving
    BY <1>1, <1>7 DEF HarnessInv, RestOK
  <2>2. Len(over) = 1 /\ over[1] = rest[t][2] /\ mutex' = t /\ over # <<>>
    BY <1>2, <1>4, <1>5, <2>1, EmptySeq
  <2>3. rest[t][1] \in Pieces
    BY <1>1, <2>1, ElementOfSeq
  <2>4. over[1].part = 2
    BY <2>1, <2>2, <2>3 DEF Second, Pieces
  <2>5. RestOK'
    BY <1>3, <2>1, <2>2, <2>4 DEF HarnessInv, RestOK
  <2> QED
    BY <1>1, <1>3, <2>1, <2>2, <2>5 DEF HarnessInv, LockOK
<1> QED
  BY <1>6, <1>7

LEMMA Pairs ==
    /\ LinesNeverMix <=> \A c \in Clients : Paired(toClient[c])
    /\ NobodyElsesLines <=> \A c \in Clients : Ours(toClient[c], c)
BY DEF LinesNeverMix, NobodyElsesLines, Paired, Ours

LEMMA PairsNext ==
    /\ LinesNeverMix' <=> \A c \in Clients : Paired(toClient'[c])
    /\ NobodyElsesLines' <=> \A c \in Clients : Ours(toClient'[c], c)
BY DEF LinesNeverMix, NobodyElsesLines, Paired, Ours

LEMMA WrittenTypes ==
    ASSUME HarnessInv, NEW t \in Threads, mutex = t, NEW n \in 1 .. Len(rest[t]), Written(t, n)
    PROVE  rest' \in [Threads -> Seq(Pieces)] /\ mutex' \in Threads \cup {"free"}
             /\ \A u \in Threads : rest'[u] # <<>> => rest[u] # <<>>
<1>1. rest \in [Threads -> Seq(Pieces)] /\ rest[t] # <<>>
  BY DEF HarnessInv, HarnessTypeOK, LockOK, Threads
<1>2. SubSeq(rest[t], n + 1, Len(rest[t])) \in Seq(Pieces)
  BY <1>1, CutProperties
<1> QED
  BY <1>1, <1>2 DEF Written, HarnessInv, HarnessTypeOK

(* A write to a client that has closed, and one that fails.                *)
LEMMA InvLost ==
    ASSUME HarnessInv, NEW t \in Threads, mutex = t, NEW n \in 1 .. Len(rest[t]), Written(t, n),
           UNCHANGED <<peers, server, toClient>>, serving \in closed,
           reset' \in {reset, reset \cup {serving}}
    PROVE  HarnessInv'
<1>1. HarnessTypeOK'
  BY WrittenTypes DEF HarnessInv, HarnessTypeOK, peers, server
<1>2. ServesOne'
  BY WrittenTypes DEF HarnessInv, ServesOne, Threads, peers, server
<1>3. RestOK' /\ LockOK' /\ (reset \subseteq closed)'
  BY <1>1, <1>2, LeftOver DEF HarnessInv, peers, server
<1>4. HalfLine'
  BY DEF HalfLine, peers, server
<1>5. LinesNeverMix' /\ NobodyElsesLines'
  BY DEF HarnessInv, LinesNeverMix, NobodyElsesLines
<1> QED
  BY <1>1, <1>2, <1>3, <1>4, <1>5 DEF HarnessInv

LEMMA OneOrTwo ==
    ASSUME NEW m, NEW n \in 1 .. m, m = 1 \/ m = 2
    PROVE  n = 1 \/ (n = 2 /\ m = 2)
OBVIOUS

(* After the last piece of a line nobody has anything left of it.          *)
LEMMA WholeLine ==
    ASSUME NEW got, toClient'[serving] = got, serving' = serving, Last(got).part = 2, mutex' = "free"
    PROVE  HalfLine'
BY DEF HalfLine

(* A write that reaches the client.                                        *)
LEMMA InvReaches ==
    ASSUME HarnessInv, NEW t \in Threads, mutex = t, NEW n \in 1 .. Len(rest[t]), Written(t, n),
           UNCHANGED <<peers, server, reset>>, serving \in Clients, serving \notin closed,
           toClient' = [toClient EXCEPT ![serving] = @ \o SubSeq(rest[t], 1, n)]
    PROVE  HarnessInv'
<1> DEFINE got   == toClient[serving]
           line  == rest[t]
           more  == Append(got, line[1])
           whole == Append(more, line[2])
<1>1. /\ got \in Seq(Pieces) /\ line \in Seq(Pieces) /\ Len(line) \in Nat
      /\ Paired(got) /\ Ours(got, serving)
      /\ t # "free" /\ line # <<>>
  BY Pairs DEF HarnessInv, HarnessTypeOK, LockOK, Threads
<1>2. /\ line[1] \in Pieces /\ line[1].for = serving
      /\ \/ Len(line) = 2 /\ line[1].part = 1 /\ line[2] = Second(line[1])
         \/ Len(line) = 1 /\ line[1].part = 2
  <2>1. Len(line) >= 1
    BY <1>1, EmptySeq
  <2> QED
    BY <1>1, <2>1, ElementOfSeq DEF HarnessInv, RestOK
<1>3. /\ got # <<>> /\ Last(got).part = 1 => Len(line) = 1
      /\ Len(line) = 1 => got # <<>> /\ Last(got).part = 1 /\ line[1] = Second(Last(got))
  BY <1>1, HarnessAssumption DEF HarnessInv, HalfLine
<1>4. Len(line) = 2 => Whole(got)
  <2>1. got # <<>> => Last(got) \in Pieces
    BY <1>1, FrontProperties
  <2> QED
    BY <1>3, <2>1 DEF Whole, Pieces
<1>0. n \in 1 .. Len(line)
  OBVIOUS
<1> HIDE DEF got, line
<1>5. more \in Seq(Pieces) /\ more # <<>> /\ Last(more) = line[1] /\ Paired(more) /\ Ours(more, serving)
  BY <1>1, <1>2, <1>3, <1>4, OneMore
<1>6. ASSUME Len(line) = 2
      PROVE  /\ line[2] \in Pieces /\ line[2].part = 2
             /\ whole \in Seq(Pieces) /\ whole # <<>> /\ Last(whole) = line[2]
             /\ Paired(whole) /\ Ours(whole, serving)
  <2>1. line[2] \in Pieces /\ line[2].part = 2 /\ line[2].for = serving
    BY <1>2, <1>6 DEF Second, Pieces
  <2> HIDE DEF more
  <2> QED
    BY <1>2, <1>5, <1>6, <2>1, OneMore
<1>7. PICK now \in {more, whole} :
           /\ toClient' = [toClient EXCEPT ![serving] = now]
           /\ now = more => n = 1
           /\ now = whole /\ now # more => n = 2 /\ Len(line) = 2
  <2>1. n = 1 \/ (n = 2 /\ Len(line) = 2)
    <3>1. Len(line) = 1 \/ Len(line) = 2
      BY <1>2
    <3> QED
      BY <1>0, <3>1, OneOrTwo
  <2>2. n = 1 => got \o SubSeq(line, 1, n) = more
    BY <1>1, <1>2, NextElements
  <2>3. n = 2 /\ Len(line) = 2 => got \o SubSeq(line, 1, n) = whole
    BY <1>1, NextElements
  <2>4. toClient' = [toClient EXCEPT ![serving] = got \o SubSeq(line, 1, n)]
    BY DEF got, line
  <2>5. CASE n = 1
    <3>1. toClient' = [toClient EXCEPT ![serving] = more]
      BY <2>2, <2>4, <2>5
    <3> QED
      BY <2>5, <3>1
  <2>6. CASE n = 2 /\ Len(line) = 2
    <3>1. toClient' = [toClient EXCEPT ![serving] = whole]
      BY <2>3, <2>4, <2>6
    <3>2. whole # more
      <4>1. Len(more) \in Nat /\ Len(whole) = Len(more) + 1
        BY <1>5, <1>6, <2>6, AppendProperties
      <4> QED
        BY <4>1
    <3> QED
      BY <2>6, <3>1, <3>2
  <2> QED
    BY <2>1, <2>5, <2>6
<1> HIDE DEF more, whole
<1>8. /\ now \in Seq(Pieces) /\ now # <<>> /\ Paired(now) /\ Ours(now, serving)
      /\ Last(now) = line[n]
  BY <1>5, <1>6, <1>7
<1>9. toClient'[serving] = now /\ \A c \in Clients \ {serving} : toClient'[c] = toClient[c]
  BY <1>7 DEF HarnessInv, HarnessTypeOK
<1>10. HarnessTypeOK'
  BY <1>7, <1>8, WrittenTypes DEF HarnessInv, HarnessTypeOK, peers, server
<1>11. ServesOne'
  BY <1>9, WrittenTypes, HarnessAssumption DEF HarnessInv, ServesOne, Threads, peers, server
<1>12. /\ RestOK' /\ LockOK' /\ (reset \subseteq closed)'
       /\ \/ mutex' = "free" /\ n = Len(line)
          \/ mutex' = t /\ Len(line) = 2 /\ n = 1 /\ Len(rest'[t]) = 1 /\ rest'[t][1] = line[2]
  BY <1>10, <1>11, LeftOver DEF HarnessInv, peers, server, line
<1>13. HalfLine'
  <2>1. CASE mutex' = "free" /\ n = Len(line)
    <3>1. Last(now).part = 2
      BY <1>2, <1>6, <1>8, <2>1
    <3> QED
      BY <1>9, <2>1, <3>1, WholeLine DEF server
  <2>2. CASE mutex' = t /\ Len(line) = 2 /\ n = 1 /\ Len(rest'[t]) = 1 /\ rest'[t][1] = line[2]
    <3>1. Last(now).part = 1 /\ line[2] = Second(Last(now))
      BY <1>2, <1>8, <2>2
    <3> QED
      BY <1>1, <1>8, <1>9, <2>2, <3>1 DEF HalfLine, peers, server
  <2> QED
    BY <1>12, <2>1, <2>2
<1>14. LinesNeverMix' /\ NobodyElsesLines'
  BY <1>8, <1>9, Pairs, PairsNext DEF HarnessInv
<1> QED
  BY <1>10, <1>11, <1>12, <1>13, <1>14 DEF HarnessInv

LEMMA InvWrite ==
    ASSUME HarnessInv, NEW t \in Threads, Write(t) \/ WriteFails(t)
    PROVE  HarnessInv'
<1>1. CASE Write(t)
  <2>1. mutex = t /\ serving \in Clients /\ UNCHANGED <<peers, server>>
    BY <1>1 DEF Write, HarnessInv, HarnessTypeOK
  <2>2. PICK n \in 1 .. Len(rest[t]) :
          /\ Written(t, n)
          /\ IF serving \in closed
               THEN UNCHANGED toClient /\ \E r \in {reset, reset \cup {serving}} : reset' = r
               ELSE /\ toClient' = [toClient EXCEPT ![serving] = @ \o SubSeq(rest[t], 1, n)]
                    /\ UNCHANGED reset
    BY <1>1 DEF Write
  <2> QED
    BY <2>1, <2>2, InvLost, InvReaches
<1>2. CASE WriteFails(t)
  <2>1. mutex = t /\ serving \in closed /\ UNCHANGED <<peers, server, reset, toClient>>
    BY <1>2 DEF WriteFails, HarnessInv
  <2>2. Len(rest[t]) \in 1 .. Len(rest[t])
    <3>1. rest[t] \in Seq(Pieces) /\ rest[t] # <<>>
      BY <2>1 DEF HarnessInv, HarnessTypeOK, LockOK, Threads
    <3> QED
      BY <3>1, EmptySeq
  <2>3. Written(t, Len(rest[t]))
    BY <1>2 DEF WriteFails
  <2> QED
    BY <2>1, <2>2, <2>3, InvLost
<1> QED
  BY <1>1, <1>2

-----------------------------------------------------------------------------
(***************************************************************************)
(* Bytes and the lines in them.                                            *)
(***************************************************************************)
(* A line break follows another one, or the two bytes of a line that in    *)
(* its turn follows one; or it is one of the first.                        *)
Shaped(bytes) ==
    \A i \in 1 .. Len(bytes) : bytes[i] = "nl" =>
        \/ i = 1 \/ bytes[i - 1] = "nl"
        \/ /\ i >= 3 /\ bytes[i - 1] = "-" /\ bytes[i - 2] \in Kinds
           /\ i = 3 \/ bytes[i - 3] = "nl"

Ended(bytes) == Len(bytes) > 0 => bytes[Len(bytes)] = "nl"

(* What is left behind some bytes.                                         *)
Rest(bytes, n, left0) ==
    Len(left0) = Len(bytes) - n /\ \A i \in 1 .. Len(left0) : left0[i] = bytes[i + n]

(* Behind a line break everything is as it was, n places further on.       *)
LEMMA BehindBreak ==
    ASSUME NEW b \in Seq(Bytes), NEW d \in Seq(Bytes), NEW n \in 1 .. Len(b),
           Shaped(b), b[n] = "nl", Rest(b, n, d)
    PROVE  /\ Shaped(d) /\ (Ended(b) => Ended(d))
           /\ \A i \in LineEnds(d) : i + n \in LineEnds(b) /\ d[i - 2] = b[i + n - 2]
           /\ \A i \in LineEnds(b) : i > n => i - n \in LineEnds(d)
<1>1. /\ Len(b) \in Nat /\ Len(d) \in Nat /\ n \in Nat /\ n >= 1 /\ Len(b) = Len(d) + n
      /\ \A i \in 1 .. Len(d) : d[i] = b[i + n]
  BY DEF Rest
<1>2. "nl" \notin Kinds /\ "nl" # "-"
  BY DEF Kinds
<1>3. ASSUME NEW i \in 1 .. Len(d), d[i] = "nl"
      PROVE  \/ i = 1 \/ d[i - 1] = "nl"
             \/ /\ i >= 3 /\ d[i - 1] = "-" /\ d[i - 2] \in Kinds
                /\ i = 3 \/ d[i - 3] = "nl"
  <2>1. i + n \in 1 .. Len(b) /\ b[i + n] = "nl"
    BY <1>1, <1>3
  <2>2. \/ i + n = 1 \/ b[i + n - 1] = "nl"
        \/ /\ i + n >= 3 /\ b[i + n - 1] = "-" /\ b[i + n - 2] \in Kinds
           /\ i + n = 3 \/ b[i + n - 3] = "nl"
    BY <2>1 DEF Shaped
  <2>3. CASE i = 2
    <3>1. i + n - 1 = n + 1 /\ i + n - 2 = n /\ d[1] = b[n + 1] /\ i - 1 = 1 /\ i + n # 1
      BY <1>1, <2>3
    <3> QED
      BY <1>2, <2>2, <3>1
  <2>4. CASE i > 2
    <3>1. /\ d[i - 1] = b[i + n - 1] /\ d[i - 2] = b[i + n - 2] /\ i + n # 1 /\ i + n # 3 /\ i >= 3
          /\ i > 3 => d[i - 3] = b[i + n - 3]
      <4>1. i - 1 \in 1 .. Len(d) /\ i - 2 \in 1 .. Len(d) /\ (i > 3 => i - 3 \in 1 .. Len(d))
        BY <2>4
      <4>2. d[i - 1] = b[i - 1 + n] /\ d[i - 2] = b[i - 2 + n] /\ (i > 3 => d[i - 3] = b[i - 3 + n])
        BY <1>1, <4>1
      <4>3. /\ i - 1 + n = i + n - 1 /\ i - 2 + n = i + n - 2 /\ i - 3 + n = i + n - 3
            /\ i + n # 1 /\ i + n # 3 /\ i >= 3
        BY <1>1, <2>4
      <4> QED
        BY <4>2, <4>3
    <3> QED
      BY <2>2, <3>1
  <2> QED
    BY <2>3, <2>4
<1>4. Shaped(d)
  BY <1>3 DEF Shaped
<1>5. Ended(b) => Ended(d)
  BY <1>1 DEF Ended
<1>6. ASSUME NEW i \in LineEnds(d)
      PROVE  i + n \in LineEnds(b) /\ d[i - 2] = b[i + n - 2]
  <2>1. i \in 3 .. Len(d) /\ d[i] = "nl" /\ d[i - 1] # "nl"
    BY DEF LineEnds
  <2>2. i - 1 \in 1 .. Len(d) /\ i - 2 \in 1 .. Len(d) /\ i \in 1 .. Len(d)
    BY <1>1, <2>1
  <2>3. /\ d[i] = b[i + n] /\ d[i - 1] = b[(i + n) - 1] /\ d[i - 2] = b[i + n - 2]
        /\ i + n \in 3 .. Len(b)
    <3>1. d[i] = b[i + n] /\ d[i - 1] = b[i - 1 + n] /\ d[i - 2] = b[i - 2 + n]
      BY <1>1, <2>2
    <3>2. i - 1 + n = (i + n) - 1 /\ i - 2 + n = i + n - 2 /\ i + n \in 3 .. Len(b)
      BY <1>1, <2>1
    <3> QED
      BY <3>1, <3>2
  <2> QED
    BY <2>1, <2>3 DEF LineEnds
<1>7. ASSUME NEW i \in LineEnds(b), i > n
      PROVE  i - n \in LineEnds(d)
  <2>1. i \in 3 .. Len(b) /\ b[i] = "nl" /\ b[i - 1] # "nl"
    BY DEF LineEnds
  <2>2. b[i - 2] \in Kinds
    BY <1>1, <2>1 DEF Shaped
  <2>3. i # n + 1 /\ i # n + 2
    BY <1>1, <1>2, <2>1, <2>2
  <2>4. i - n \in 3 .. Len(d) /\ i - n - 1 \in 1 .. Len(d) /\ i - n \in 1 .. Len(d)
    BY <1>1, <1>7, <2>1, <2>3
  <2>5. d[i - n] = b[i] /\ d[i - n - 1] = b[i - 1]
    BY <1>1, <2>1, <2>4
  <2> QED
    BY <2>1, <2>4, <2>5 DEF LineEnds
<1> QED
  BY <1>4, <1>5, <1>6, <1>7

(* The first line break of some bytes is an empty line or ends their first *)
(* line; the other lines are those of the bytes behind it.                 *)
LEMMA FirstLine ==
    ASSUME NEW b \in Seq(Bytes), NEW d \in Seq(Bytes), NEW n \in 1 .. Len(b),
           Shaped(b), b[n] = "nl", Rest(b, n, d), \A i \in 1 .. n - 1 : b[i] # "nl",
           NEW ls \in Seq(Kinds), AreLinesOf(ls, b)
    PROVE  \/ n = 1 /\ AreLinesOf(ls, d)
           \/ n # 1 /\ ls # <<>> /\ b[1] \in Kinds /\ Head(ls) = b[1] /\ AreLinesOf(Tail(ls), d)
<1>1. /\ Len(b) \in Nat /\ n \in Nat /\ n >= 1 /\ n <= Len(b)
      /\ Len(ls) \in Nat /\ DOMAIN ls = 1 .. Len(ls)
  OBVIOUS
<1>2. PICK ends \in [1 .. Len(ls) -> LineEnds(b)] :
        /\ {ends[k] : k \in 1 .. Len(ls)} = LineEnds(b)
        /\ \A j, k \in 1 .. Len(ls) : j < k => ends[j] < ends[k]
        /\ \A k \in 1 .. Len(ls) : ls[k] = b[ends[k] - 2]
  BY <1>1 DEF AreLinesOf, Range
<1>3. \A i \in LineEnds(b) : i \in Nat /\ i >= 3 /\ i >= n
  BY <1>1 DEF LineEnds
<1>4. /\ \A i \in LineEnds(d) : i + n \in LineEnds(b) /\ d[i - 2] = b[i + n - 2]
      /\ \A i \in LineEnds(b) : i > n => i - n \in LineEnds(d)
      /\ \A i \in LineEnds(d) : i \in Nat
  BY BehindBreak DEF LineEnds
<1>5. CASE n = 1
  <2> DEFINE later == [k \in 1 .. Len(ls) |-> ends[k] - 1]
  <2>1. \A k \in 1 .. Len(ls) : ends[k] - 1 \in LineEnds(d) /\ ends[k] \in Nat
    BY <1>2, <1>3, <1>4, <1>5
  <2>2. later \in [1 .. Len(ls) -> LineEnds(d)]
    BY <2>1
  <2>3. {later[k] : k \in 1 .. Len(ls)} = LineEnds(d)
    <3>1. ASSUME NEW i \in LineEnds(d) PROVE \E k \in 1 .. Len(ls) : i = later[k]
      <4>1. PICK k \in 1 .. Len(ls) : ends[k] = i + 1
        BY <1>2, <1>4, <1>5
      <4> QED
        BY <1>4, <4>1
    <3> QED
      BY <2>2, <3>1
  <2>4. \A j, k \in 1 .. Len(ls) : j < k => later[j] < later[k]
    BY <1>2, <2>1
  <2>5. \A k \in 1 .. Len(ls) : ls[k] = d[later[k] - 2]
    <3> TAKE k \in 1 .. Len(ls)
    <3>1. later[k] = ends[k] - 1 /\ ends[k] \in Nat /\ ls[k] = b[ends[k] - 2]
      BY <1>2, <2>1
    <3>2. d[later[k] - 2] = b[later[k] + 1 - 2] /\ later[k] + 1 - 2 = ends[k] - 2
      BY <1>4, <1>5, <2>2, <3>1
    <3> QED
      BY <3>1, <3>2
  <2> HIDE DEF later
  <2> QED
    BY <1>1, <1>5, <2>2, <2>3, <2>4, <2>5 DEF AreLinesOf, Range
<1>6. CASE n # 1
  <2>1. n - 1 \in 1 .. n - 1 /\ n > 1
    BY <1>1, <1>6
  <2>2. n = 3 /\ b[n - 1] # "nl" /\ b[n - 2] \in Kinds
    <3>1. /\ n >= 3 /\ b[n - 1] = "-" /\ b[n - 2] \in Kinds
          /\ n = 3 \/ b[n - 3] = "nl"
      BY <2>1 DEF Shaped
    <3>2. n # 3 => n - 3 \in 1 .. n - 1
      BY <1>1, <3>1
    <3> QED
      BY <2>1, <3>1, <3>2
  <2>3. n \in LineEnds(b)
    BY <1>1, <2>2 DEF LineEnds
  <2>4. PICK first \in 1 .. Len(ls) : ends[first] = n
    BY <1>2, <2>3
  <2>5. first = 1
    <3>1. CASE first > 1
      <4>1. 1 \in 1 .. Len(ls) /\ 1 < first
        BY <1>1, <3>1
      <4>2. ends[1] < n /\ ends[1] \in LineEnds(b)
        BY <1>2, <2>4, <4>1
      <4> QED
        BY <1>1, <1>3, <4>2
    <3> QED
      BY <3>1
  <2>6. Len(ls) >= 1 /\ ls # <<>> /\ Head(ls) = ls[1] /\ ls[1] = b[1]
    <3>0. 1 \in 1 .. Len(ls)
      BY <2>5
    <3>1. Len(ls) >= 1 /\ ls[1] = b[ends[1] - 2]
      BY <1>1, <1>2, <3>0
    <3>2. ends[1] - 2 = 1
      BY <2>2, <2>4, <2>5
    <3>3. ls # <<>> /\ Head(ls) = ls[1]
      BY <1>1, <3>1
    <3> QED
      BY <3>1, <3>2, <3>3
  <2>7. /\ Tail(ls) \in Seq(Kinds) /\ Len(Tail(ls)) = Len(ls) - 1 /\ Len(ls) - 1 \in Nat
        /\ DOMAIN Tail(ls) = 1 .. Len(ls) - 1
        /\ \A k \in 1 .. Len(ls) - 1 : Tail(ls)[k] = ls[k + 1]
    BY <1>1, <2>6, HeadTailProperties, LenProperties
  <2> DEFINE m == Len(ls) - 1
             later == [k \in 1 .. m |-> ends[k + 1] - n]
  <2>8. \A k \in 1 .. m : k + 1 \in 1 .. Len(ls) /\ ends[k + 1] - n \in LineEnds(d) /\ ends[k + 1] \in Nat
    <3> TAKE k \in 1 .. m
    <3>1. k + 1 \in 1 .. Len(ls) /\ 1 \in 1 .. Len(ls) /\ 1 < k + 1
      BY <1>1, <2>6
    <3>2. ends[k + 1] > n /\ ends[k + 1] \in LineEnds(b)
      BY <1>1, <1>2, <1>3, <2>4, <2>5, <3>1
    <3> QED
      BY <1>3, <1>4, <3>1, <3>2
  <2>9. later \in [1 .. m -> LineEnds(d)]
    BY <2>8
  <2>10. {later[k] : k \in 1 .. m} = LineEnds(d)
    <3>1. ASSUME NEW i \in LineEnds(d) PROVE \E k \in 1 .. m : i = later[k]
      <4>1. PICK k \in 1 .. Len(ls) : ends[k] = i + n
        BY <1>2, <1>4
      <4>2. k # 1
        BY <1>1, <1>4, <2>4, <2>5, <4>1, <3>1 DEF LineEnds
      <4>3. k - 1 \in 1 .. m /\ (k - 1) + 1 = k
        BY <1>1, <4>2
      <4>4. later[k - 1] = i
        BY <1>1, <1>4, <4>1, <4>3
      <4> QED
        BY <4>3, <4>4
    <3>2. \A k \in 1 .. m : later[k] \in LineEnds(d)
      BY <2>9
    <3> HIDE DEF later, m
    <3> QED
      BY <3>1, <3>2
  <2>11. \A j, k \in 1 .. m : j < k => later[j] < later[k]
    <3> TAKE j, k \in 1 .. m
    <3> HAVE j < k
    <3>1. ends[j + 1] < ends[k + 1]
      BY <1>2, <2>8
    <3> QED
      BY <1>1, <2>8, <3>1
  <2>12. \A k \in 1 .. m : Tail(ls)[k] = d[later[k] - 2]
    <3> TAKE k \in 1 .. m
    <3>1. later[k] = ends[k + 1] - n /\ ends[k + 1] \in Nat /\ Tail(ls)[k] = b[ends[k + 1] - 2]
      BY <1>2, <2>7, <2>8
    <3>2. d[later[k] - 2] = b[later[k] + n - 2]
      BY <1>4, <2>9
    <3>3. later[k] + n - 2 = ends[k + 1] - 2
      BY <1>1, <3>1
    <3> QED
      BY <3>1, <3>2, <3>3
  <2> HIDE DEF later
  <2>13. AreLinesOf(Tail(ls), d)
    BY <2>7, <2>9, <2>10, <2>11, <2>12 DEF AreLinesOf, Range
  <2> QED
    BY <1>6, <2>2, <2>6, <2>13
<1> QED
  BY <1>5, <1>6

(* Bytes are appended: the ends of lines that there were stay.             *)
Longer(bytes, more) ==
    Len(more) >= Len(bytes) /\ \A i \in 1 .. Len(bytes) : more[i] = bytes[i]

LEMMA SameLines ==
    ASSUME NEW b \in Seq(Bytes), NEW d \in Seq(Bytes), Longer(b, d),
           LineEnds(d) = LineEnds(b), NEW ls \in Seq(Kinds), AreLinesOf(ls, b)
    PROVE  AreLinesOf(ls, d)
<1>1. \A i \in LineEnds(b) : d[i - 2] = b[i - 2]
  <2> TAKE i \in LineEnds(b)
  <2>1. i \in 3 .. Len(b)
    BY DEF LineEnds
  <2>2. i - 2 \in 1 .. Len(b)
    BY <2>1
  <2> QED
    BY <2>2 DEF Longer
<1> QED
  BY <1>1 DEF AreLinesOf

(* A further byte that ends no line.                                       *)
LEMMA AddedByte ==
    ASSUME NEW b \in Seq(Bytes), NEW byte \in Bytes, Shaped(b), byte = "nl" => Ended(b)
    PROVE  LET d == Append(b, byte)
           IN  /\ d \in Seq(Bytes) /\ Shaped(d) /\ (byte = "nl" => Ended(d))
               /\ \A ls \in Seq(Kinds) : AreLinesOf(ls, b) => AreLinesOf(ls, d)
<1> DEFINE d == Append(b, byte)
<1>1. /\ d \in Seq(Bytes) /\ Len(b) \in Nat /\ Len(d) = Len(b) + 1 /\ d[Len(b) + 1] = byte
      /\ \A i \in 1 .. Len(b) : d[i] = b[i]
  BY AppendProperties
<1> HIDE DEF d
<1>2. ASSUME NEW i \in 1 .. Len(d), d[i] = "nl"
      PROVE  \/ i = 1 \/ d[i - 1] = "nl"
             \/ /\ i >= 3 /\ d[i - 1] = "-" /\ d[i - 2] \in Kinds
                /\ i = 3 \/ d[i - 3] = "nl"
  <2>1. CASE i = Len(b) + 1
    <3>1. i = 1 \/ (Len(b) > 0 /\ Len(b) \in 1 .. Len(b) /\ i - 1 = Len(b))
      BY <1>1, <2>1
    <3> QED
      BY <1>1, <1>2, <2>1, <3>1 DEF Ended
  <2>2. CASE i \in 1 .. Len(b) /\ i > 1
    <3>1. b[i] = "nl" /\ d[i - 1] = b[i - 1]
      <4>1. i - 1 \in 1 .. Len(b)
        BY <2>2
      <4> QED
        BY <1>1, <1>2, <2>2, <4>1
    <3>2. \/ b[i - 1] = "nl"
          \/ /\ i >= 3 /\ b[i - 1] = "-" /\ b[i - 2] \in Kinds
             /\ i = 3 \/ b[i - 3] = "nl"
      BY <2>2, <3>1 DEF Shaped
    <3>3. i >= 3 => d[i - 2] = b[i - 2] /\ (i = 3 \/ d[i - 3] = b[i - 3])
      <4>1. i >= 3 => i - 2 \in 1 .. Len(b) /\ (i = 3 \/ i - 3 \in 1 .. Len(b))
        BY <2>2
      <4> QED
        BY <1>1, <4>1
    <3> QED
      BY <3>1, <3>2, <3>3
  <2> QED
    BY <1>1, <2>1, <2>2
<1>3. Shaped(d)
  BY <1>2 DEF Shaped
<1>4. byte = "nl" => Ended(d)
  BY <1>1 DEF Ended
<1>5. LineEnds(d) = LineEnds(b)
  <2>1. ASSUME NEW i \in 3 .. Len(b) PROVE d[i] = b[i] /\ d[i - 1] = b[i - 1]
    <3>1. i \in 1 .. Len(b) /\ i - 1 \in 1 .. Len(b)
      BY <1>1
    <3> QED
      BY <1>1, <3>1
  <2>2. Len(d) \notin LineEnds(d)
    <3>1. ASSUME Len(d) \in LineEnds(d) PROVE FALSE
      <4>1. Len(d) >= 3 /\ byte = "nl" /\ d[Len(d) - 1] # "nl"
        BY <1>1, <3>1 DEF LineEnds
      <4>2. Len(b) \in 1 .. Len(b) /\ Len(d) - 1 = Len(b) /\ Len(b) > 0
        BY <1>1, <4>1
      <4> QED
        BY <1>1, <4>1, <4>2 DEF Ended
    <3> QED
      BY <3>1
  <2>3. \A i : i \in 3 .. Len(d) <=> i \in 3 .. Len(b) \/ (i = Len(d) /\ i \in 3 .. Len(d))
    BY <1>1
  <2> QED
    BY <2>1, <2>2, <2>3 DEF LineEnds
<1>6. Longer(b, d)
  BY <1>1 DEF Longer
<1> QED
  BY <1>1, <1>3, <1>4, <1>5, <1>6, SameLines DEF d

(* A further line.                                                         *)
LEMMA AddedLine ==
    ASSUME NEW b \in Seq(Bytes), NEW kind \in Kinds, Shaped(b), Ended(b),
           NEW ls \in Seq(Kinds), AreLinesOf(ls, b)
    PROVE  LET d == b \o Line(kind)
           IN  d \in Seq(Bytes) /\ Shaped(d) /\ Ended(d) /\ AreLinesOf(Append(ls, kind), d)
<1> DEFINE d    == b \o Line(kind)
           more == Append(ls, kind)
           n    == Len(b)
           m    == Len(ls)
<1>1. /\ d \in Seq(Bytes) /\ n \in Nat /\ Len(d) = n + 3
      /\ \A i \in 1 .. n : d[i] = b[i]
      /\ d[n + 1] = kind /\ d[n + 2] = "-" /\ d[n + 3] = "nl"
  <2>1. Line(kind) \in Seq(Bytes) /\ Len(Line(kind)) = 3
    BY DEF Line, Bytes, Kinds
  <2>2. Line(kind)[1] = kind /\ Line(kind)[2] = "-" /\ Line(kind)[3] = "nl"
    BY DEF Line
  <2> DEFINE line == Line(kind)
  <2>3. line \in Seq(Bytes)
    BY <2>1
  <2>0. Len(line) = 3 /\ d = b \o line
    BY <2>1
  <2> HIDE DEF line, d
  <2>4. /\ d \in Seq(Bytes) /\ n \in Nat /\ Len(d) = n + 3
        /\ \A i \in 1 .. n : d[i] = b[i]
        /\ \A i \in 1 .. 3 : d[n + i] = line[i]
    <3>1. /\ b \o line \in Seq(Bytes) /\ Len(b) \in Nat /\ Len(b \o line) = Len(b) + Len(line)
          /\ \A i \in 1 .. Len(b) : (b \o line)[i] = b[i]
          /\ \A i \in 1 .. Len(line) : (b \o line)[Len(b) + i] = line[i]
      BY <2>3, JoinProperties
    <3> QED
      BY <2>0, <3>1 DEF n
  <2>5. 1 \in 1 .. 3 /\ 2 \in 1 .. 3 /\ 3 \in 1 .. 3
    OBVIOUS
  <2> HIDE DEF n
  <2> QED
    BY <2>2, <2>4, <2>5 DEF line
<1>2. "nl" \notin Kinds /\ "nl" # "-" /\ "-" \notin Kinds
  BY DEF Kinds
<1>3. /\ more \in Seq(Kinds) /\ m \in Nat /\ Len(more) = m + 1 /\ more[m + 1] = kind
      /\ DOMAIN more = 1 .. m + 1 /\ DOMAIN ls = 1 .. m
      /\ \A k \in 1 .. m : more[k] = ls[k]
  BY AppendProperties, LenProperties
<1>4. PICK ends \in [1 .. m -> LineEnds(b)] :
        /\ {ends[k] : k \in 1 .. m} = LineEnds(b)
        /\ \A j, k \in 1 .. m : j < k => ends[j] < ends[k]
        /\ \A k \in 1 .. m : ls[k] = b[ends[k] - 2]
  BY <1>3 DEF AreLinesOf, Range
<1> HIDE DEF d, more, n, m
<1>5. \A i \in 3 .. n : d[i] = b[i] /\ d[i - 1] = b[i - 1] /\ d[i - 2] = b[i - 2]
  <2> TAKE i \in 3 .. n
  <2>1. i \in 1 .. n /\ i - 1 \in 1 .. n /\ i - 2 \in 1 .. n
    BY <1>1
  <2> QED
    BY <1>1, <2>1
<1>6. Shaped(d)
  <2> SUFFICES ASSUME NEW i \in 1 .. Len(d), d[i] = "nl"
               PROVE  \/ i = 1 \/ d[i - 1] = "nl"
                      \/ /\ i >= 3 /\ d[i - 1] = "-" /\ d[i - 2] \in Kinds
                         /\ i = 3 \/ d[i - 3] = "nl"
    BY DEF Shaped
  <2>1. i \in 1 .. n \/ i = n + 3
    <3>1. i \in 1 .. n \/ i = n + 1 \/ i = n + 2 \/ i = n + 3
      BY <1>1
    <3>2. i # n + 1 /\ i # n + 2
      BY <1>1, <1>2
    <3> QED
      BY <3>1, <3>2
  <2>2. CASE i \in 1 .. n /\ i > 1
    <3>1. b[i] = "nl" /\ d[i - 1] = b[i - 1]
      <4>1. i - 1 \in 1 .. n
        BY <1>1, <2>2
      <4> QED
        BY <1>1, <2>2, <4>1
    <3>2. \/ b[i - 1] = "nl"
          \/ /\ i >= 3 /\ b[i - 1] = "-" /\ b[i - 2] \in Kinds
             /\ i = 3 \/ b[i - 3] = "nl"
      BY <1>1, <2>2, <3>1 DEF Shaped, n
    <3>3. i >= 3 => d[i - 2] = b[i - 2] /\ (i = 3 \/ d[i - 3] = b[i - 3])
      <4>1. i >= 3 => i - 2 \in 1 .. n /\ (i = 3 \/ i - 3 \in 1 .. n)
        BY <1>1, <2>2
      <4> QED
        BY <1>1, <4>1
    <3> QED
      BY <3>1, <3>2, <3>3
  <2>3. CASE i = n + 3
    <3>1. i - 1 = n + 2 /\ i - 2 = n + 1 /\ i >= 3 /\ i - 3 = n
      BY <1>1, <2>3
    <3>2. i = 3 \/ (n > 0 /\ n \in 1 .. n)
      BY <1>1, <2>3
    <3>3. i = 3 \/ d[i - 3] = "nl"
      BY <1>1, <3>1, <3>2 DEF Ended, n
    <3> QED
      BY <1>1, <3>1, <3>3
  <2> QED
    BY <1>1, <2>1, <2>2, <2>3
<1>7. Ended(d)
  BY <1>1 DEF Ended
<1>8. LineEnds(d) = LineEnds(b) \cup {n + 3}
  <2>1. ASSUME NEW i \in 3 .. n PROVE i \in LineEnds(d) <=> i \in LineEnds(b)
    BY <1>1, <1>5, <2>1 DEF LineEnds, n
  <2>2. n + 3 \in LineEnds(d)
    <3>1. n + 3 - 1 = n + 2
      BY <1>1
    <3> QED
      BY <1>1, <1>2, <3>1 DEF LineEnds
  <2>3. ASSUME NEW i \in LineEnds(d) PROVE i \in 3 .. n \/ i = n + 3
    <3>1. i \in 3 .. n + 3 /\ d[i] = "nl"
      BY <1>1 DEF LineEnds
    <3>2. i # n + 1 /\ i # n + 2
      BY <1>1, <1>2, <3>1
    <3> QED
      BY <1>1, <3>1, <3>2
  <2>4. LineEnds(b) \subseteq 3 .. n
    BY DEF LineEnds, n
  <2> QED
    BY <2>1, <2>2, <2>3, <2>4
<1> DEFINE now == [k \in 1 .. m + 1 |-> IF k = m + 1 THEN n + 3 ELSE ends[k]]
<1>9. /\ now[m + 1] = n + 3
      /\ \A k \in 1 .. m : now[k] = ends[k] /\ ends[k] \in 3 .. n
      /\ now \in [1 .. m + 1 -> LineEnds(d)]
  <2>1. \A k \in 1 .. m : k \in 1 .. m + 1 /\ k # m + 1
    BY <1>3
  <2>2. LineEnds(b) \subseteq 3 .. n
    BY DEF LineEnds, n
  <2>3. m + 1 \in 1 .. m + 1 /\ \A k \in 1 .. m + 1 : k = m + 1 \/ k \in 1 .. m
    BY <1>3
  <2> QED
    BY <1>4, <1>8, <2>1, <2>2, <2>3
<1>10. {now[k] : k \in 1 .. m + 1} = LineEnds(d)
  <2>1. \A k : k \in 1 .. m + 1 <=> k \in 1 .. m \/ k = m + 1
    BY <1>3
  <2> HIDE DEF now
  <2> QED
    BY <1>4, <1>8, <1>9, <2>1
<1>11. \A j, k \in 1 .. m + 1 : j < k => now[j] < now[k]
  <2> HIDE DEF now
  <2> TAKE j, k \in 1 .. m + 1
  <2> HAVE j < k
  <2>1. j \in 1 .. m /\ (k \in 1 .. m \/ k = m + 1)
    BY <1>3
  <2> QED
    BY <1>1, <1>4, <1>9, <2>1
<1>12. \A k \in 1 .. m + 1 : more[k] = d[now[k] - 2]
  <2> HIDE DEF now
  <2>1. ASSUME NEW k \in 1 .. m PROVE more[k] = d[now[k] - 2]
    BY <1>3, <1>4, <1>5, <1>9
  <2>2. more[m + 1] = d[now[m + 1] - 2]
    <3>1. n + 3 - 2 = n + 1
      BY <1>1
    <3> QED
      BY <1>1, <1>3, <1>9, <3>1
  <2>3. \A k \in 1 .. m + 1 : k = m + 1 \/ k \in 1 .. m
    BY <1>3
  <2> QED
    BY <2>1, <2>2, <2>3
<1> HIDE DEF now
<1>13. AreLinesOf(more, d)
  BY <1>3, <1>9, <1>10, <1>11, <1>12 DEF AreLinesOf, Range
<1> QED
  BY <1>1, <1>6, <1>7, <1>13 DEF d, more

-----------------------------------------------------------------------------
(***************************************************************************)
(* What arrives: the invariant.                                            *)
(***************************************************************************)
Arrives(ls, h, bytes) ==
    \E owed \in Seq(Kinds) : ls = h \o owed /\ AreLinesOf(owed, bytes)

(* The bytes of a client that listens end a line; those nobody has taken   *)
(* hold the lines that handle() has not had.                               *)
ClientOK(c) ==
    /\ Shaped(Untaken(c)) /\ (c \notin closed => Ended(Untaken(c)))
    /\ Arrives(lines[c], handled[c], Untaken(c))

(* Before the server waits for more, or gives up, it has taken all lines.  *)
CutsOK ==
    /\ lines \in [Clients -> Seq(Kinds)] /\ handled \in [Clients -> Seq(Kinds)]
    /\ main \in {"read", "close"} => Breaks = {}
    /\ main = "close" => toHost[serving] = <<>> /\ serving \in closed

ArriveInv == CutsOK /\ \A c \in Clients : ClientOK(c)

(* No bytes, no lines.                                                     *)
LEMMA NoLines ==
    /\ Shaped(<<>>) /\ Ended(<<>>) /\ AreLinesOf(<<>>, <<>>)
<1>1. Len(<<>>) = 0 /\ DOMAIN <<>> = {}
  OBVIOUS
<1>2. LineEnds(<<>>) = {}
  BY <1>1 DEF LineEnds
<1> DEFINE none == [k \in {} |-> 0]
<1>3. none \in [DOMAIN <<>> -> LineEnds(<<>>)] /\ Range(none) = {}
  BY <1>1 DEF Range
<1> HIDE DEF none
<1>4. Shaped(<<>>) /\ Ended(<<>>)
  BY <1>1 DEF Shaped, Ended
<1>5. \A k : k \notin DOMAIN <<>>
  BY <1>1
<1>6. AreLinesOf(<<>>, <<>>)
  BY <1>2, <1>3, <1>5 DEF AreLinesOf
<1> QED
  BY <1>4, <1>6

LEMMA ArriveStart == HarnessInit => ArriveInv
<1> SUFFICES ASSUME HarnessInit PROVE ArriveInv
  OBVIOUS
<1>1. CutsOK
  BY DEF HarnessInit, CutsOK
<1>2. ASSUME NEW c \in Clients PROVE ClientOK(c)
  <2>1. /\ serving # c /\ toHost[c] = <<>> /\ lines[c] = <<>> /\ handled[c] = <<>>
        /\ <<>> \in Seq(Kinds)
    BY HarnessAssumption DEF HarnessInit
  <2>2. Untaken(c) = <<>> /\ <<>> \o <<>> = <<>>
    BY <2>1 DEF Untaken
  <2> QED
    BY <2>1, <2>2, NoLines DEF ClientOK, Arrives
<1> QED
  BY <1>1, <1>2 DEF ArriveInv

LEMMA UntakenType ==
    ASSUME HarnessTypeOK, NEW c \in Clients
    PROVE  /\ Untaken(c) \in Seq(Bytes) /\ toHost[c] \in Seq(Bytes)
           /\ serving # c => Untaken(c) = toHost[c]
<1>1. toHost[c] \in Seq(Bytes) /\ buf \in Seq(Bytes) /\ <<>> \in Seq(Bytes)
  BY DEF HarnessTypeOK
<1>2. <<>> \o toHost[c] = toHost[c] /\ buf \o toHost[c] \in Seq(Bytes)
  BY <1>1, ConcatEmptySeq, ConcatProperties
<1> QED
  BY <1>1, <1>2 DEF Untaken

(* A client whose bytes stay the same ones.                                *)
LEMMA SameClient ==
    ASSUME NEW c \in Clients, ClientOK(c), closed \subseteq closed',
           Untaken(c)' = Untaken(c), lines'[c] = lines[c], handled'[c] = handled[c]
    PROVE  ClientOK(c)'
<1>1. Shaped(Untaken(c)') /\ (c \notin closed' => Ended(Untaken(c)'))
  BY DEF ClientOK
<1>2. Arrives(lines'[c], handled'[c], Untaken(c)')
  BY DEF ClientOK
<1> QED
  BY <1>1, <1>2 DEF ClientOK

LEMMA AppendToJoin ==
    ASSUME NEW S, NEW s \in Seq(S), NEW t \in Seq(S), NEW x \in S
    PROVE  s \o Append(t, x) = Append(s \o t, x)
OBVIOUS

(* The first element of the second sequence moves to the first one.        *)
LEMMA MoveFirst ==
    ASSUME NEW S, NEW s \in Seq(S), NEW t \in Seq(S), t # <<>>
    PROVE  s \o t = Append(s, Head(t)) \o Tail(t)
<1>1. Head(t) \in S /\ Tail(t) \in Seq(S) /\ t = <<Head(t)>> \o Tail(t)
  BY HeadTailProperties
<1>2. Append(s, Head(t)) = s \o <<Head(t)>> /\ <<Head(t)>> \in Seq(S)
  BY <1>1, AppendIsConcat
<1>3. (s \o <<Head(t)>>) \o Tail(t) = s \o (<<Head(t)>> \o Tail(t))
  BY <1>1, <1>2, ConcatAssociative
<1> QED
  BY <1>1, <1>2, <1>3

(* What stands behind the first of two sequences that were joined.         *)
LEMMA BehindPrefix ==
    ASSUME NEW S, NEW s \in Seq(S), NEW t \in Seq(S)
    PROVE  SubSeq(s \o t, Len(s) + 1, Len(s \o t)) = t
OBVIOUS

(* The steps that leave the bytes to the server alone.                     *)
LEMMA ArriveSame ==
    ASSUME ArriveInv, UNCHANGED <<closed, toHost, lines, handled, serving, buf>>,
           \/ main' = main
           \/ main' = "read" /\ Breaks = {}
           \/ main' = "close" /\ main = "read" /\ toHost[serving] = <<>> /\ serving \in closed
    PROVE  ArriveInv'
<1>1. Breaks' = Breaks /\ closed \subseteq closed'
  BY DEF Breaks
<1>2. CutsOK'
  BY <1>1 DEF ArriveInv, CutsOK
<1>3. ASSUME NEW c \in Clients PROVE ClientOK(c)'
  <2>1. Untaken(c)' = Untaken(c)
    BY DEF Untaken
  <2> QED
    BY <1>1, <2>1, SameClient DEF ArriveInv
<1> QED
  BY <1>2, <1>3 DEF ArriveInv

-----------------------------------------------------------------------------
(***************************************************************************)
(* What arrives: the steps.                                                *)
(***************************************************************************)
LEMMA ArriveSend ==
    ASSUME HarnessTypeOK, ArriveInv, NEW c \in Clients, Send(c) \/ HangUp(c)
    PROVE  ArriveInv'
<1> DEFINE pre == IF serving = c THEN buf ELSE <<>>
           b   == Untaken(c)
<1>1. /\ UNCHANGED <<conn, server>> /\ closed \subseteq closed' /\ c \notin closed
      /\ \/ \E kind \in Kinds :
              /\ toHost' = [toHost EXCEPT ![c] = @ \o Line(kind)]
              /\ lines' = [lines EXCEPT ![c] = Append(@, kind)]
              /\ closed' = closed
         \/ /\ toHost' = [toHost EXCEPT ![c] = Append(@, "nl")]
            /\ lines' = lines /\ closed' = closed
         \/ toHost' = [toHost EXCEPT ![c] = @ \o <<>>] /\ lines' = lines /\ closed' = closed \cup {c}
         \/ toHost' = [toHost EXCEPT ![c] = @ \o <<"run">>] /\ lines' = lines /\ closed' = closed \cup {c}
  <2>1. CASE Send(c)
    BY <2>1 DEF Send
  <2>2. CASE HangUp(c)
    BY <2>2 DEF HangUp
  <2> QED
    BY <2>1, <2>2
<1>2. /\ UNCHANGED <<handled, main, serving, buf>>
      /\ Breaks' = Breaks
  BY <1>1 DEF server, Breaks
<1>3. /\ toHost \in [Clients -> Seq(Bytes)] /\ lines \in [Clients -> Seq(Kinds)]
      /\ handled \in [Clients -> Seq(Kinds)]
      /\ pre \in Seq(Bytes) /\ toHost[c] \in Seq(Bytes) /\ b \in Seq(Bytes) /\ b = pre \o toHost[c]
      /\ Untaken(c)' = pre \o toHost'[c]
  <2>1. <<>> \in Seq(Bytes)
    OBVIOUS
  <2> QED
    BY <1>2, <2>1, UntakenType DEF HarnessTypeOK, ArriveInv, CutsOK, Untaken
<1>4. PICK owed \in Seq(Kinds) : lines[c] = handled[c] \o owed /\ AreLinesOf(owed, b)
  BY DEF ArriveInv, ClientOK, Arrives
<1>5. Shaped(b) /\ Ended(b)
  BY <1>1 DEF ArriveInv, ClientOK
<1>6. lines' \in [Clients -> Seq(Kinds)]
  <2>1. \A kind \in Kinds : Append(lines[c], kind) \in Seq(Kinds)
    BY <1>3, AppendProperties
  <2> QED
    BY <1>1, <1>3, <2>1
<1>7. CutsOK'
  <2>1. ASSUME main = "close" PROVE toHost'[serving] = <<>> /\ serving \in closed'
    <3>1. toHost[serving] = <<>> /\ serving \in closed /\ serving # c /\ serving \in Clients
      BY <1>1, <2>1 DEF ArriveInv, CutsOK, HarnessTypeOK
    <3>2. toHost'[serving] = toHost[serving]
      BY <1>1, <1>3, <3>1
    <3> QED
      BY <1>1, <3>1, <3>2
  <2> QED
    BY <1>2, <1>3, <1>6, <2>1 DEF ArriveInv, CutsOK
<1>8. ASSUME NEW d \in Clients \ {c} PROVE ClientOK(d)'
  <2>1. toHost'[d] = toHost[d] /\ lines'[d] = lines[d]
    BY <1>1, <1>3
  <2>2. Untaken(d)' = Untaken(d)
    BY <1>2, <2>1 DEF Untaken
  <2> QED
    BY <1>1, <1>2, <2>1, <2>2, SameClient DEF ArriveInv
<1> HIDE DEF pre, b
<1>9. ClientOK(c)'
  <2>1. CASE \E kind \in Kinds :
              /\ toHost' = [toHost EXCEPT ![c] = @ \o Line(kind)]
              /\ lines' = [lines EXCEPT ![c] = Append(@, kind)]
              /\ closed' = closed
    <3>1. PICK kind \in Kinds :
              /\ toHost'[c] = toHost[c] \o Line(kind)
              /\ lines'[c] = Append(lines[c], kind)
      BY <1>3, <2>1
    <3>2. Line(kind) \in Seq(Bytes)
      BY DEF Line, Bytes, Kinds
    <3>3. Untaken(c)' = b \o Line(kind)
      <4> DEFINE line == Line(kind)
      <4>1. line \in Seq(Bytes) /\ Untaken(c)' = pre \o (toHost[c] \o line)
        BY <1>3, <3>1, <3>2
      <4> HIDE DEF line
      <4>2. (pre \o toHost[c]) \o line = pre \o (toHost[c] \o line)
        BY <1>3, <4>1, ConcatAssociative
      <4> QED
        BY <1>3, <4>1, <4>2 DEF line
    <3>4. lines'[c] = handled'[c] \o Append(owed, kind) /\ Append(owed, kind) \in Seq(Kinds)
      <4>1. handled[c] \in Seq(Kinds) /\ handled'[c] = handled[c]
        BY <1>2, <1>3
      <4>2. handled[c] \o Append(owed, kind) = Append(handled[c] \o owed, kind)
        <5> DEFINE h == handled[c]
        <5>1. h \in Seq(Kinds)
          BY <4>1
        <5> HIDE DEF h
        <5>2. h \o Append(owed, kind) = Append(h \o owed, kind)
          BY <5>1, AppendToJoin
        <5> QED
          BY <5>2 DEF h
      <4>3. Append(owed, kind) \in Seq(Kinds)
        BY AppendProperties
      <4> QED
        BY <1>4, <3>1, <4>1, <4>2, <4>3
    <3>5. Shaped(Untaken(c)') /\ Ended(Untaken(c)') /\ AreLinesOf(Append(owed, kind), Untaken(c)')
      BY <1>3, <1>4, <1>5, <3>3, AddedLine
    <3> QED
      BY <3>4, <3>5 DEF ClientOK, Arrives
  <2>2. CASE toHost' = [toHost EXCEPT ![c] = Append(@, "nl")] /\ lines' = lines /\ closed' = closed
    <3>1. "nl" \in Bytes
      BY DEF Bytes
    <3>2. Untaken(c)' = Append(b, "nl")
      BY <1>3, <2>2, <3>1, AppendToJoin
    <3>3. Shaped(Untaken(c)') /\ Ended(Untaken(c)') /\ AreLinesOf(owed, Untaken(c)')
      BY <1>3, <1>4, <1>5, <3>1, <3>2, AddedByte
    <3> QED
      BY <1>2, <1>4, <2>2, <3>3 DEF ClientOK, Arrives
  <2>3. CASE toHost' = [toHost EXCEPT ![c] = @ \o <<>>] /\ lines' = lines /\ closed' = closed \cup {c}
    <3>1. toHost'[c] = toHost[c]
      BY <1>3, <2>3, ConcatEmptySeq
    <3> QED
      BY <1>1, <1>2, <1>3, <2>3, <3>1, SameClient DEF ArriveInv, b
  <2>4. CASE toHost' = [toHost EXCEPT ![c] = @ \o <<"run">>] /\ lines' = lines /\ closed' = closed \cup {c}
    <3>1. "run" \in Bytes /\ "run" # "nl"
      BY DEF Bytes, Kinds
    <3>2. toHost'[c] = Append(toHost[c], "run")
      BY <1>3, <2>4, <3>1, AppendIsConcat
    <3>3. Untaken(c)' = Append(b, "run")
      BY <1>3, <3>1, <3>2, AppendToJoin
    <3>4. Shaped(Untaken(c)') /\ AreLinesOf(owed, Untaken(c)')
      BY <1>3, <1>4, <1>5, <3>1, <3>3, AddedByte
    <3> QED
      BY <1>2, <1>4, <2>4, <3>4 DEF ClientOK, Arrives
  <2> QED
    BY <1>1, <2>1, <2>2, <2>3, <2>4
<1> QED
  BY <1>7, <1>8, <1>9 DEF ArriveInv

(* read() moves bytes from the socket into buf.                            *)
LEMMA ArriveRead == ASSUME HarnessInv, ArriveInv, ReadChunk PROVE ArriveInv'
<1> DEFINE t == toHost[serving]
<1>1. PICK n \in 1 .. ChunkSize : Taken(n) /\ buf' = buf \o SubSeq(t, 1, n)
  BY DEF ReadChunk
<1>2. /\ serving \in Clients /\ HarnessTypeOK /\ t \in Seq(Bytes) /\ buf \in Seq(Bytes)
      /\ toHost \in [Clients -> Seq(Bytes)]
  BY DEF ReadChunk, MainAt, HarnessInv, HarnessTypeOK, ServesOne
<1>3. n \in 1 .. Len(t)
  <2> DEFINE both == {ChunkSize, Len(t)}
  <2>1. both \in SUBSET Nat /\ both # {}
    BY <1>2, HarnessAssumption
  <2>2. n <= Min(both)
    BY <1>1, <2>1, MinProperties DEF Taken
  <2> HIDE DEF both
  <2>3. Min(both) <= Len(t) /\ Min(both) \in Nat
    BY <2>1, MinProperties DEF both
  <2> QED
    BY <1>2, <2>2, <2>3
<1>4. /\ toHost' = [toHost EXCEPT ![serving] = SubSeq(t, n + 1, Len(t))]
      /\ UNCHANGED <<closed, lines, handled, serving>> /\ main' = "split"
  BY <1>1 DEF Taken
<1>5. CutsOK'
  BY <1>4 DEF ArriveInv, CutsOK
<1> HIDE DEF t
<1>6. Untaken(serving)' = Untaken(serving)
  <2> DEFINE head == SubSeq(t, 1, n)
             tail == SubSeq(t, n + 1, Len(t))
  <2>1. head \in Seq(Bytes) /\ tail \in Seq(Bytes)
    BY <1>2, <1>3, CutProperties
  <2>2. head \o tail = t
    <3>1. 1 \in 1 .. Len(t) + 1 /\ n \in 1 - 1 .. Len(t) /\ Len(t) \in n .. Len(t)
      BY <1>2, <1>3
    <3>2. SubSeq(t, 1, n) \o SubSeq(t, n + 1, Len(t)) = SubSeq(t, 1, Len(t))
      BY <1>2, <3>1, ConcatAdjacentSubSeq
    <3>3. SubSeq(t, 1, Len(t)) = t
      BY <1>2, SubSeqFull
    <3> QED
      BY <3>2, <3>3
  <2>3. Untaken(serving)' = (buf \o head) \o tail
    BY <1>1, <1>2, <1>4 DEF Untaken
  <2> HIDE DEF head, tail
  <2>4. (buf \o head) \o tail = buf \o (head \o tail)
    BY <1>2, <2>1, ConcatAssociative
  <2> QED
    BY <2>2, <2>3, <2>4 DEF Untaken, t
<1>7. ASSUME NEW c \in Clients PROVE ClientOK(c)'
  <2>1. CASE c # serving
    <3>1. toHost'[c] = toHost[c]
      BY <1>2, <1>4, <2>1
    <3>2. Untaken(c)' = Untaken(c)
      BY <1>4, <2>1, <3>1 DEF Untaken
    <3> QED
      BY <1>4, <3>2, SameClient DEF ArriveInv
  <2>2. CASE c = serving
    <3>1. Untaken(c)' = Untaken(c)
      BY <1>4, <1>6, <2>2
    <3> QED
      BY <1>4, <3>1, SameClient DEF ArriveInv
  <2> QED
    BY <2>1, <2>2
<1> QED
  BY <1>5, <1>7 DEF ArriveInv

(* The first line of buf goes to handle(), or an empty one is dropped.     *)
LEMMA ArriveTake == ASSUME HarnessInv, ArriveInv, TakeLine PROVE ArriveInv'
<1> DEFINE n == Min(Breaks)
           t == toHost[serving]
           b == buf \o t
           e == SubSeq(buf, n + 1, Len(buf))
           d == e \o t
<1>1. /\ serving \in Clients /\ HarnessTypeOK /\ t \in Seq(Bytes) /\ buf \in Seq(Bytes)
      /\ main = "split" /\ lines \in [Clients -> Seq(Kinds)] /\ handled \in [Clients -> Seq(Kinds)]
  BY DEF TakeLine, MainAt, HarnessInv, HarnessTypeOK, ServesOne, ArriveInv, CutsOK
<1>2. /\ n \in 1 .. Len(buf) /\ buf[n] = "nl"
      /\ \A i \in 1 .. n - 1 : buf[i] # "nl"
  <2>1. Breaks \in SUBSET Nat /\ Breaks # {}
    BY DEF TakeLine, Breaks
  <2>2. n \in Breaks /\ \A x \in Breaks : n <= x
    BY <2>1, MinProperties
  <2> HIDE DEF n
  <2>3. n \in 1 .. Len(buf) /\ buf[n] = "nl"
    BY <2>2 DEF Breaks
  <2>4. ASSUME NEW i \in 1 .. n - 1 PROVE buf[i] # "nl"
    <3>1. i \in 1 .. Len(buf) /\ ~(n <= i)
      BY <1>1, <2>3
    <3> QED
      BY <2>2, <3>1 DEF Breaks
  <2> QED
    BY <2>3, <2>4
<1>3. /\ buf' = e /\ UNCHANGED <<peers, main, serving>>
      /\ \/ n = 1 /\ UNCHANGED handled
         \/ n # 1 /\ handled' = [handled EXCEPT ![serving] = Append(@, buf[1])]
  BY DEF TakeLine, Handle
<1> HIDE DEF n
<1>4. e \in Seq(Bytes) /\ Len(e) = Len(buf) - n /\ \A i \in 1 .. Len(buf) - n : e[i] = buf[n + i]
  BY <1>1, <1>2, CutProperties
<1> HIDE DEF e, t
<1>5. /\ b \in Seq(Bytes) /\ Len(buf) \in Nat /\ Len(t) \in Nat /\ Len(b) = Len(buf) + Len(t)
      /\ \A i \in 1 .. Len(buf) : b[i] = buf[i]
      /\ \A i \in 1 .. Len(t) : b[Len(buf) + i] = t[i]
  BY <1>1, JoinProperties
<1>6. /\ d \in Seq(Bytes) /\ Len(e) \in Nat /\ Len(d) = Len(e) + Len(t)
      /\ \A i \in 1 .. Len(e) : d[i] = e[i]
      /\ \A i \in 1 .. Len(t) : d[Len(e) + i] = t[i]
  <2>1. e \in Seq(Bytes) /\ t \in Seq(Bytes)
    BY <1>1, <1>4
  <2> QED
    BY <2>1, JoinProperties
<1>7. /\ b = Untaken(serving)
      /\ Untaken(serving)' = d
  BY <1>3 DEF Untaken, peers, t
<1> HIDE DEF b, d
<1>8. n \in 1 .. Len(b) /\ b[n] = "nl" /\ (\A i \in 1 .. n - 1 : b[i] # "nl") /\ b[1] = buf[1]
  <2>1. n \in 1 .. Len(b) /\ 1 \in 1 .. Len(buf) /\ \A i \in 1 .. n - 1 : i \in 1 .. Len(buf)
    BY <1>2, <1>5
  <2> QED
    BY <1>2, <1>5, <2>1
<1>9. Rest(b, n, d)
  <2>1. Len(d) = Len(b) - n
    BY <1>2, <1>4, <1>5, <1>6
  <2>2. ASSUME NEW i \in 1 .. Len(d) PROVE d[i] = b[i + n]
    <3>1. CASE i <= Len(e)
      <4>1. i \in 1 .. Len(e) /\ i \in 1 .. Len(buf) - n /\ n + i \in 1 .. Len(buf) /\ n + i = i + n
        BY <1>2, <1>4, <1>5, <1>6, <3>1
      <4> QED
        BY <1>4, <1>5, <1>6, <4>1
    <3>2. CASE i > Len(e)
      <4> DEFINE j == i - Len(e)
      <4>1. j \in 1 .. Len(t) /\ i = Len(e) + j /\ i + n = Len(buf) + j
        BY <1>2, <1>4, <1>5, <1>6, <3>2
      <4> HIDE DEF j
      <4> QED
        BY <1>5, <1>6, <4>1
    <3> QED
      BY <1>6, <3>1, <3>2
  <2> QED
    BY <2>1, <2>2 DEF Rest
<1>10. PICK owed \in Seq(Kinds) : lines[serving] = handled[serving] \o owed /\ AreLinesOf(owed, b)
  BY <1>1, <1>7 DEF ArriveInv, ClientOK, Arrives
<1>11. Shaped(b) /\ (serving \notin closed => Ended(b))
  BY <1>1, <1>7 DEF ArriveInv, ClientOK
<1>12. Shaped(d) /\ (serving \notin closed => Ended(d))
  BY <1>5, <1>6, <1>8, <1>9, <1>11, BehindBreak
<1>13. \/ n = 1 /\ AreLinesOf(owed, d)
       \/ n # 1 /\ owed # <<>> /\ b[1] \in Kinds /\ Head(owed) = b[1] /\ AreLinesOf(Tail(owed), d)
  BY <1>5, <1>6, <1>8, <1>9, <1>10, <1>11, FirstLine
<1>14. /\ handled' \in [Clients -> Seq(Kinds)]
       /\ Arrives(lines'[serving], handled'[serving], d)
       /\ \A c \in Clients \ {serving} : handled'[c] = handled[c]
  <2>1. lines' = lines
    BY <1>3 DEF peers
  <2>2. CASE n = 1
    BY <1>1, <1>3, <1>10, <1>13, <2>1, <2>2 DEF Arrives
  <2>3. CASE n # 1
    <3>1. handled' = [handled EXCEPT ![serving] = Append(@, b[1])] /\ b[1] \in Kinds
      BY <1>3, <1>8, <1>13, <2>3
    <3>2. Append(handled[serving], b[1]) \in Seq(Kinds)
      BY <1>1, <3>1, AppendProperties
    <3>3. /\ handled' \in [Clients -> Seq(Kinds)] /\ handled'[serving] = Append(handled[serving], b[1])
          /\ \A c \in Clients \ {serving} : handled'[c] = handled[c]
      BY <1>1, <3>1, <3>2
    <3>4. lines[serving] = Append(handled[serving], b[1]) \o Tail(owed) /\ Tail(owed) \in Seq(Kinds)
      <4>1. handled[serving] \in Seq(Kinds) /\ owed # <<>> /\ Head(owed) = b[1]
        BY <1>1, <1>13, <2>3
      <4>2. handled[serving] \o owed = Append(handled[serving], Head(owed)) \o Tail(owed)
        BY <4>1, MoveFirst
      <4>3. Tail(owed) \in Seq(Kinds)
        BY <4>1, HeadTailProperties
      <4> QED
        BY <1>10, <4>1, <4>2, <4>3
    <3> QED
      BY <1>13, <2>1, <2>3, <3>3, <3>4 DEF Arrives
  <2> QED
    BY <2>2, <2>3
<1>15. CutsOK'
  BY <1>1, <1>3, <1>14 DEF CutsOK, peers
<1>16. ASSUME NEW c \in Clients PROVE ClientOK(c)'
  <2>1. CASE c # serving
    <3>1. Untaken(c)' = Untaken(c) /\ handled'[c] = handled[c]
      BY <1>3, <1>14, <2>1 DEF Untaken, peers
    <3> QED
      BY <1>3, <3>1, SameClient DEF ArriveInv, peers
  <2>2. CASE c = serving
    BY <1>3, <1>7, <1>12, <1>14, <2>2 DEF ClientOK, peers
  <2> QED
    BY <2>1, <2>2
<1> QED
  BY <1>15, <1>16 DEF ArriveInv

(* A connection begins with an empty buf, and ends without a whole line    *)
(* in it; what is left of the last line is dropped.                        *)
LEMMA ArriveTurn == ASSUME HarnessInv, ArriveInv, Accept \/ Close PROVE ArriveInv'
<1>1. HarnessTypeOK /\ ServesOne
  BY DEF HarnessInv
<1>2. UNCHANGED <<closed, toHost, lines, handled>> /\ buf' = <<>>
  BY DEF Accept, Close, Leave
<1>3. CutsOK'
  <2>1. Breaks' = {} /\ main' # "close"
    <3>1. Len(<<>>) = 0
      OBVIOUS
    <3>2. Breaks' = {}
      BY <1>2, <3>1 DEF Breaks
    <3> QED
      BY <3>2 DEF Accept, Close, Leave
  <2> QED
    BY <1>2, <2>1 DEF ArriveInv, CutsOK
<1>4. ASSUME NEW c \in Clients PROVE ClientOK(c)'
  <2>1. toHost[c] \in Seq(Bytes) /\ <<>> \o toHost[c] = toHost[c]
    BY <1>1, ConcatEmptySeq DEF HarnessTypeOK
  <2>2. Untaken(c)' = toHost[c]
    BY <1>2, <2>1 DEF Untaken
  <2>3. CASE serving # c
    <3>1. Untaken(c) = toHost[c]
      BY <2>1, <2>3 DEF Untaken
    <3> QED
      BY <1>2, <2>2, <3>1, SameClient DEF ArriveInv
  <2>4. CASE serving = c
    <3>1. main = "close" /\ buf \in Seq(Bytes)
      BY <1>1, <2>4, HarnessAssumption DEF Accept, Close, MainAt, ServesOne, HarnessTypeOK
    <3>2. Breaks = {} /\ toHost[c] = <<>> /\ c \in closed
      BY <2>4, <3>1 DEF ArriveInv, CutsOK
    <3>3. Untaken(c) = buf
      BY <2>4, <3>1, <3>2, ConcatEmptySeq DEF Untaken
    <3>4. LineEnds(buf) = {}
      <4>1. ASSUME NEW i \in LineEnds(buf) PROVE FALSE
        <5>1. i \in 3 .. Len(buf) /\ buf[i] = "nl"
          BY DEF LineEnds
        <5>2. i \in 1 .. Len(buf)
          BY <3>1, <5>1
        <5> QED
          BY <3>2, <5>1, <5>2 DEF Breaks
      <4> QED
        BY <4>1
    <3>5. PICK owed \in Seq(Kinds) : lines[c] = handled[c] \o owed /\ AreLinesOf(owed, buf)
      BY <3>3 DEF ArriveInv, ClientOK, Arrives
    <3>6. owed = <<>>
      <4>1. 1 .. Len(owed) = {} /\ Len(owed) \in Nat
        BY <3>4, <3>5, LenProperties DEF AreLinesOf
      <4>2. Len(owed) = 0
        <5> DEFINE m == Len(owed)
        <5>1. m \in Nat /\ 1 \notin 1 .. m
          BY <4>1
        <5> HIDE DEF m
        <5>2. m = 0
          BY <5>1
        <5> QED
          BY <5>2 DEF m
      <4> QED
        BY <4>2, EmptySeq
    <3> QED
      BY <1>2, <2>2, <3>2, <3>5, <3>6, NoLines DEF ClientOK, Arrives
  <2> QED
    BY <2>3, <2>4
<1> QED
  BY <1>3, <1>4 DEF ArriveInv

LEMMA ArriveStep == HarnessInv /\ ArriveInv /\ [HarnessNext]_harnessVars => ArriveInv'
<1> SUFFICES ASSUME HarnessInv, ArriveInv, [HarnessNext]_harnessVars PROVE ArriveInv'
  OBVIOUS
<1> USE DEF MainAt, peers, server
<1>1. CASE MainStep
  <2>1. CASE NoMoreLines \/ ReadEnd
    BY <2>1, ArriveSame DEF NoMoreLines, ReadEnd
  <2>2. CASE Emit("main")
    BY <2>2, ArriveSame DEF Emit, Lock, Write, WriteFails, BrokenPipe
  <2> QED
    BY <1>1, <2>1, <2>2, ArriveTurn, ArriveRead, ArriveTake DEF MainStep
<1>2. CASE WorkerStep
  BY <1>2, ArriveSame DEF WorkerStep, WorkerLine, WorkerEnds, Emit, Lock, Write, WriteFails, BrokenPipe
<1>3. CASE ClientStep
  <2>1. CASE \E c \in Clients : Connect(c)
    BY <2>1, ArriveSame DEF Connect
  <2> QED
    BY <1>3, <2>1, ArriveSend DEF ClientStep, HarnessInv
<1>4. CASE Idle \/ UNCHANGED harnessVars
  BY <1>4, ArriveSame DEF Idle, harnessVars
<1> QED
  BY <1>1, <1>2, <1>3, <1>4 DEF HarnessNext

(* What is owed is what stands behind the lines that were handled.         *)
LEMMA OwedLines ==
    ASSUME ArriveInv, NEW c \in Clients
    PROVE  lines[c] = handled[c] \o Owed(c) /\ AreLinesOf(Owed(c), Untaken(c))
<1> DEFINE h == handled[c]
<1>1. PICK owed \in Seq(Kinds) : lines[c] = h \o owed /\ AreLinesOf(owed, Untaken(c))
  BY DEF ArriveInv, ClientOK, Arrives
<1>2. h \in Seq(Kinds)
  BY DEF ArriveInv, CutsOK
<1> HIDE DEF h
<1>3. SubSeq(h \o owed, Len(h) + 1, Len(h \o owed)) = owed
  BY <1>2, BehindPrefix
<1>4. Owed(c) = owed
  BY <1>1, <1>3 DEF Owed, h
<1> QED
  BY <1>1, <1>4 DEF h

-----------------------------------------------------------------------------
(***************************************************************************)
(* Theorems.                                                               *)
(***************************************************************************)
LEMMA HarnessStep == HarnessInv /\ [HarnessNext]_harnessVars => HarnessInv'
<1> SUFFICES ASSUME HarnessInv, [HarnessNext]_harnessVars PROVE HarnessInv'
  OBVIOUS
<1> USE DEF Threads
<1>1. CASE MainStep
  BY <1>1, InvTurn, InvRead, InvTakeLine, InvMoves, InvLock, InvWrite DEF MainStep, Emit
<1>2. CASE WorkerStep
  BY <1>2, InvWorkerLine, InvMoves, InvLock, InvWrite DEF WorkerStep, Emit
<1>3. CASE ClientStep
  BY <1>3, InvClients
<1>4. CASE Idle \/ UNCHANGED harnessVars
  BY <1>4, InvMoves
<1> QED
  BY <1>1, <1>2, <1>3, <1>4 DEF HarnessNext

(* Which thread works for whom, and what is left of its line, is as        *)
(* serve_client and ~ProtocolBridge leave it in every reachable state      *)
(* (main.cpp:55-76, protocol_bridge.hpp:36-39).                            *)
THEOREM HarnessInductive == HarnessSpec => []HarnessInv
BY HarnessStart, HarnessStep, PTL DEF HarnessSpec

(* Behind the shape of the bytes that nobody has taken stand the lines     *)
(* that handle() has not had, in every reachable state (main.cpp:63-75).   *)
THEOREM LinesAreKept == HarnessSpec => []ArriveInv
BY HarnessInductive, ArriveStart, ArriveStep, PTL DEF HarnessSpec

(* Whatever read() returns, for any size of the buffer and any number of   *)
(* clients, handle() gets the lines that were sent: whole, once, in order, *)
(* and never what a client left unfinished (main.cpp:63-75).               *)
THEOREM WholeLinesArrive == HarnessSpec => []LinesArriveWhole
<1>1. ArriveInv => LinesArriveWhole
  BY OwedLines DEF LinesArriveWhole
<1> QED
  BY <1>1, LinesAreKept, PTL

(* However often a write is cut short, and whichever thread comes first,   *)
(* every client gets its lines one behind the other (main.cpp:55-60).      *)
THEOREM LinesStayWhole == HarnessSpec => []LinesNeverMix
<1>1. HarnessInv => LinesNeverMix
  BY DEF HarnessInv
<1> QED
  BY <1>1, HarnessInductive, PTL

(* Nobody gets a line of another connection, for any number of clients     *)
(* (main.cpp:62-76, 99-100).                                               *)
THEOREM LinesStayApart == HarnessSpec => []NobodyElsesLines
<1>1. HarnessInv => NobodyElsesLines
  BY DEF HarnessInv
<1> QED
  BY <1>1, HarnessInductive, PTL
=============================================================================
