---------------------------- MODULE SessionProofs ----------------------------
(***************************************************************************)
(* What the page shows, for every text, every program and every order of   *)
(* the student's clicks, the timer and the events of the sockets.          *)
(***************************************************************************)
EXTENDS Session, SequenceFacts

-----------------------------------------------------------------------------
(***************************************************************************)
(* The inductive invariant.                                                *)
(***************************************************************************)
PageOK ==
    DOMAIN state = {"source", "cards", "diagnostics", "connected", "running", "active", "errored"}

(* Without an open connection there is nobody at the other end.            *)
NoHost == phase = "over" /\ out = <<>> /\ inbox = <<>> /\ worker = "idle" /\ ~busy

SocketOK ==
    /\ socket \in {"none", "connecting", "open", "closed"}
    /\ socket # "open" => NoHost

(* How messages change the list of the nodes that were reported as         *)
(* started: from what the page has seen, with every message that a node is *)
(* done about the last of them ...                                         *)
Follows(lists, S, from, messages) ==
    /\ lists \in [0 .. Len(messages) -> Seq(S)] /\ lists[0] = from
    /\ \A i \in 1 .. Len(messages) :
          /\ lists[i] = Witness(lists[i - 1], messages[i])
          /\ messages[i].type = "nodeDone" =>
                lists[i - 1] # <<>> /\ Last(lists[i - 1]) = messages[i].node

(* ... and the list that the open nodes of a tree should make.             *)
Lists(lit, S, nodes, tree) ==
    /\ lit \in [0 .. Len(nodes) -> Seq(S)] /\ lit[0] = <<>>
    /\ \A i \in 1 .. Len(nodes) :
          lit[i] = IF tree[nodes[i]].kind \in HighlightableKinds
                     THEN Append(lit[i - 1], nodes[i]) ELSE lit[i - 1]

(* As long as nodes may still be done, the two end in the same list.       *)
Agree(lists, S, messages, nodes, tree) ==
    \E lit : Lists(lit, S, nodes, tree) /\ lists[Len(messages)] = lit[Len(nodes)]

Reported ==
    /\ phase = "called" => open = <<>>
    /\ \E S :
          /\ open \in Seq(S) /\ \E T : out \in Seq(T)
          /\ \E lists : /\ Follows(lists, S, seen, out)
                        /\ phase \in {"ready", "running"} => Agree(lists, S, out, open, Ast)

(* The last message on the way that the page takes for the start or the    *)
(* end of a program, or else what it shows, tells that the program runs,   *)
(* or is the answer to something else.                                     *)
News == {i \in 1 .. Len(out) : out[i].type \in {"programStart", "programDone", "programError", "error"}}

Announced ==
    phase \in {"ready", "running", "failed", "stopped"} =>
        \/ News = {} /\ (state.running \/ refused)
        \/ \E i \in News : out[i].type \in {"programStart", "error"} /\ \A j \in News : j <= i

(* The host runs nothing without a worker that executes it ...             *)
HostOK ==
    /\ busy <=> worker # "idle"
    /\ worker # "execute" => phase = "over"

(* ... and whatever starts, ends on the way unless it still runs.          *)
Runs == phase \in {"ready", "running", "failed", "stopped", "gone"}

EndsAfter(k) == \E i \in 1 .. Len(out) : i > k /\ out[i].type \in Endings

Ended ==
    /\ told /\ state.running => Runs \/ EndsAfter(0)
    /\ \A k \in 1 .. Len(out) : out[k].type = "programStart" => Runs \/ EndsAfter(k)

ActiveTold == told => ActiveJustified

SessionInv ==
    /\ PageOK /\ SocketOK /\ HostOK /\ ConnectedSettles
    /\ Reported /\ Announced /\ Ended /\ ActiveTold

-----------------------------------------------------------------------------
(***************************************************************************)
(* The lists of nodes.                                                     *)
(***************************************************************************)
(* A message more continues the lists by one.                              *)
LEMMA OneMoreSaid ==
    ASSUME NEW S, NEW T, NEW out0 \in Seq(T), NEW from, NEW lists, Follows(lists, S, from, out0),
           NEW m, NEW R, S \subseteq R, Witness(lists[Len(out0)], m) \in Seq(R),
           m.type = "nodeDone" => lists[Len(out0)] # <<>> /\ Last(lists[Len(out0)]) = m.node
    PROVE  /\ \E U : Append(out0, m) \in Seq(U)
           /\ \E more : /\ Follows(more, R, from, Append(out0, m))
                        /\ more[Len(Append(out0, m))] = Witness(lists[Len(out0)], m)
<1> DEFINE said == Append(out0, m)
           n == Len(out0)
           next == Witness(lists[n], m)
           more == [i \in 0 .. n + 1 |-> IF i = n + 1 THEN next ELSE lists[i]]
<1>1. /\ n \in Nat /\ Len(said) = n + 1 /\ said[n + 1] = m
      /\ \A i \in 1 .. n : said[i] = out0[i]
      /\ \E U : said \in Seq(U)
  <2>1. \E U : out0 \in Seq(U)
    OBVIOUS
  <2>2. DOMAIN said = 1 .. n + 1 /\ \E U : said \in Seq(U)
    BY <2>1, AnySeq
  <2>3. Len(said) = n + 1
    <3>1. Len(said) \in Nat /\ DOMAIN said = 1 .. Len(said) /\ n \in Nat
      BY <2>2, LenProperties
    <3> HIDE DEF said, n
    <3> QED
      BY <2>2, <3>1
  <2> QED
    BY <2>1, <2>2, <2>3, AnySeq
<1>2. \A i \in 0 .. n : lists[i] \in Seq(R)
  BY WiderSeq DEF Follows
<1>3. /\ lists[0] = from
      /\ \A i \in 1 .. n :
            /\ lists[i] = Witness(lists[i - 1], said[i])
            /\ said[i].type = "nodeDone" => lists[i - 1] # <<>> /\ Last(lists[i - 1]) = said[i].node
  BY <1>1 DEF Follows
<1>9. next \in Seq(R) /\ (m.type = "nodeDone" => lists[n] # <<>> /\ Last(lists[n]) = m.node)
  OBVIOUS
<1>10. next = Witness(lists[n], m)
  OBVIOUS
<1> HIDE DEF said, n, next
<1>4. more \in [0 .. n + 1 -> Seq(R)]
  BY <1>1, <1>2, <1>9
<1>5. more[n + 1] = next /\ \A i \in 0 .. n : more[i] = lists[i]
  BY <1>1
<1> HIDE DEF more
<1>6. ASSUME NEW i \in 1 .. n + 1
      PROVE  /\ more[i] = Witness(more[i - 1], said[i])
             /\ said[i].type = "nodeDone" => more[i - 1] # <<>> /\ Last(more[i - 1]) = said[i].node
  <2>1. CASE i = n + 1
    <3>1. i - 1 = n /\ n \in 0 .. n
      BY <1>1, <2>1
    <3> QED
      BY <1>1, <1>5, <1>9, <1>10, <2>1, <3>1
  <2>2. CASE i # n + 1
    <3>1. i \in 1 .. n /\ i - 1 \in 0 .. n /\ i \in 0 .. n
      BY <1>1, <2>2
    <3>2. more[i] = lists[i] /\ more[i - 1] = lists[i - 1]
      BY <1>5, <3>1
    <3>3. /\ lists[i] = Witness(lists[i - 1], said[i])
          /\ said[i].type = "nodeDone" => lists[i - 1] # <<>> /\ Last(lists[i - 1]) = said[i].node
      BY <1>3, <3>1
    <3>4. more[i] = Witness(more[i - 1], said[i])
      BY <3>2, <3>3
    <3> QED
      BY <3>2, <3>3, <3>4
  <2> QED
    BY <2>1, <2>2
<1>7. more[0] = from
  <2>1. 0 \in 0 .. n
    BY <1>1
  <2> QED
    BY <1>3, <1>5, <2>1
<1>8. Follows(more, R, from, said)
  BY <1>1, <1>4, <1>6, <1>7 DEF Follows
<1>11. more[Len(said)] = next
  BY <1>1, <1>5
<1> QED
  BY <1>1, <1>8, <1>11 DEF said, n, next

(* A message heard shortens them by one.                                   *)
LEMMA OneHeard ==
    ASSUME NEW S, NEW T, NEW out0 \in Seq(T), NEW from, NEW lists, Follows(lists, S, from, out0),
           out0 # <<>>
    PROVE  /\ \E rest : /\ Follows(rest, S, Witness(from, Head(out0)), Tail(out0))
                        /\ rest[Len(Tail(out0))] = lists[Len(out0)]
           /\ from \in Seq(S)
           /\ Head(out0).type = "nodeDone" => from # <<>> /\ Last(from) = Head(out0).node
           /\ Tail(out0) \in Seq(T)
<1> DEFINE left == Tail(out0)
           n == Len(left)
           rest == [i \in 0 .. n |-> lists[i + 1]]
<1>1. /\ n \in Nat /\ Len(out0) = n + 1 /\ left \in Seq(T) /\ Head(out0) = out0[1]
      /\ \A i \in 1 .. n : left[i] = out0[i + 1]
  BY EmptySeq, HeadTailProperties
<1>2. \A i \in 1 .. n + 1 :
         /\ lists[i] = Witness(lists[i - 1], out0[i])
         /\ out0[i].type = "nodeDone" => lists[i - 1] # <<>> /\ Last(lists[i - 1]) = out0[i].node
  BY <1>1 DEF Follows
<1>3. lists[0] = from /\ \A i \in 0 .. n + 1 : lists[i] \in Seq(S)
  BY <1>1 DEF Follows
<1> HIDE DEF left, n
<1>4. /\ from \in Seq(S)
      /\ lists[1] = Witness(from, out0[1])
      /\ out0[1].type = "nodeDone" => from # <<>> /\ Last(from) = out0[1].node
  <2>1. 1 \in 1 .. n + 1 /\ 1 - 1 = 0 /\ 0 \in 0 .. n + 1
    BY <1>1
  <2> QED
    BY <1>2, <1>3, <2>1
<1>5. rest \in [0 .. n -> Seq(S)]
  <2>1. \A i \in 0 .. n : i + 1 \in 0 .. n + 1
    BY <1>1
  <2> QED
    BY <1>3, <2>1
<1>6. \A i \in 0 .. n : rest[i] = lists[i + 1]
  OBVIOUS
<1> HIDE DEF rest
<1>7. rest[0] = lists[1] /\ rest[n] = lists[n + 1]
  <2>1. 0 \in 0 .. n /\ n \in 0 .. n /\ 0 + 1 = 1
    BY <1>1
  <2> QED
    BY <1>6, <2>1
<1>8. ASSUME NEW i \in 1 .. n
      PROVE  /\ rest[i] = Witness(rest[i - 1], left[i])
             /\ left[i].type = "nodeDone" => rest[i - 1] # <<>> /\ Last(rest[i - 1]) = left[i].node
  <2>1. i + 1 \in 1 .. n + 1 /\ i \in 0 .. n /\ i - 1 \in 0 .. n /\ (i + 1) - 1 = i /\ (i - 1) + 1 = i
    BY <1>1
  <2>2. rest[i] = lists[i + 1] /\ rest[i - 1] = lists[i] /\ left[i] = out0[i + 1]
    BY <1>1, <1>6, <2>1
  <2>3. /\ lists[i + 1] = Witness(lists[(i + 1) - 1], out0[i + 1])
        /\ out0[i + 1].type = "nodeDone" =>
              lists[(i + 1) - 1] # <<>> /\ Last(lists[(i + 1) - 1]) = out0[i + 1].node
    BY <1>2, <2>1
  <2> QED
    BY <2>1, <2>2, <2>3
<1>9. Follows(rest, S, Witness(from, out0[1]), left)
  BY <1>4, <1>5, <1>7, <1>8 DEF Follows, n
<1> QED
  BY <1>1, <1>4, <1>7, <1>9 DEF left, n

Listed(list, n, tree) == IF tree[n].kind \in HighlightableKinds THEN Append(list, n) ELSE list

(* A node opened continues the list of the host, and one closed shortens   *)
(* it, if the node is one that is reported.                                *)
LEMMA OneOpened ==
    ASSUME NEW S, NEW nodes \in Seq(S), NEW tree, NEW lit, Lists(lit, S, nodes, tree),
           NEW n, NEW R, S \subseteq R, n \in R
    PROVE  /\ Append(nodes, n) \in Seq(R) /\ lit[Len(nodes)] \in Seq(S)
           /\ Listed(lit[Len(nodes)], n, tree) \in Seq(R)
           /\ \E more : /\ Lists(more, R, Append(nodes, n), tree)
                        /\ more[Len(Append(nodes, n))] = Listed(lit[Len(nodes)], n, tree)
<1> DEFINE k    == Len(nodes)
           all  == Append(nodes, n)
           next == Listed(lit[k], n, tree)
           more == [i \in 0 .. k + 1 |-> IF i = k + 1 THEN next ELSE lit[i]]
<1>1. /\ k \in Nat /\ all \in Seq(R) /\ Len(all) = k + 1
      /\ all[k + 1] = n /\ \A i \in 1 .. k : all[i] = nodes[i]
  BY WiderSeq, LenProperties, AppendProperties
<1>2. lit[0] = <<>> /\ \A i \in 0 .. k : lit[i] \in Seq(S) /\ lit[i] \in Seq(R)
  BY WiderSeq DEF Lists
<1>3. \A i \in 1 .. k : lit[i] = Listed(lit[i - 1], all[i], tree)
  BY <1>1 DEF Lists, Listed
<1> HIDE DEF k, all
<1>4. next \in Seq(R) /\ lit[k] \in Seq(S)
  <2>1. k \in 0 .. k
    BY <1>1
  <2>2. lit[k] \in Seq(R) /\ lit[k] \in Seq(S)
    BY <1>2, <2>1
  <2> QED
    BY <2>2, AppendProperties DEF Listed
<1>5. next = Listed(lit[k], n, tree)
  OBVIOUS
<1> HIDE DEF next
<1>6. more \in [0 .. k + 1 -> Seq(R)]
  BY <1>1, <1>2, <1>4
<1>7. more[k + 1] = next /\ \A i \in 0 .. k : more[i] = lit[i]
  BY <1>1
<1> HIDE DEF more
<1>8. ASSUME NEW i \in 1 .. k + 1
      PROVE  more[i] = Listed(more[i - 1], all[i], tree)
  <2>1. CASE i = k + 1
    <3>1. i - 1 = k /\ k \in 0 .. k
      BY <1>1, <2>1
    <3> QED
      BY <1>1, <1>5, <1>7, <2>1, <3>1
  <2>2. CASE i # k + 1
    <3>1. i \in 1 .. k /\ i - 1 \in 0 .. k /\ i \in 0 .. k
      BY <1>1, <2>2
    <3>2. more[i] = lit[i] /\ more[i - 1] = lit[i - 1]
      BY <1>7, <3>1
    <3> QED
      BY <1>3, <3>1, <3>2
  <2> QED
    BY <2>1, <2>2
<1>9. more[0] = <<>>
  <2>1. 0 \in 0 .. k
    BY <1>1
  <2> QED
    BY <1>2, <1>7, <2>1
<1>10. Lists(more, R, all, tree)
  BY <1>1, <1>6, <1>8, <1>9 DEF Lists, Listed
<1> QED
  BY <1>1, <1>4, <1>5, <1>7, <1>10 DEF k, all

LEMMA AppendTaken ==
    ASSUME NEW S, NEW s \in Seq(S), NEW x \in S, NEW t, t = Append(s, x)
    PROVE  t # <<>> /\ Last(t) = x /\ SubSeq(t, 1, Len(t) - 1) = s
<1>1. /\ Len(s) \in Nat /\ t \in Seq(S) /\ Len(t) = Len(s) + 1 /\ t[Len(s) + 1] = x
      /\ \A i \in 1 .. Len(s) : t[i] = s[i]
  BY AppendProperties
<1>2. t # <<>>
  BY <1>1, EmptySeq
<1>3. Last(t) = x
  BY <1>1 DEF Last
<1>4. Front(t) = s
  <2>1. /\ Front(t) \in Seq(S) /\ Len(Front(t)) = Len(t) - 1
        /\ \A i \in 1 .. Len(t) - 1 : Front(t)[i] = t[i]
    BY <1>1, <1>2, FrontProperties
  <2> QED
    BY <1>1, <2>1, SeqEqual
<1> QED
  BY <1>2, <1>3, <1>4 DEF Front

LEMMA OneClosed ==
    ASSUME NEW S, NEW nodes \in Seq(S), nodes # <<>>, NEW tree, NEW lit, Lists(lit, S, nodes, tree)
    PROVE  LET fewer == SubSeq(nodes, 1, Len(nodes) - 1)
           IN  /\ fewer \in Seq(S) /\ Lists([i \in 0 .. Len(fewer) |-> lit[i]], S, fewer, tree)
               /\ Len(fewer) = Len(nodes) - 1
               /\ lit[Len(nodes)] = Listed(lit[Len(nodes) - 1], nodes[Len(nodes)], tree)
               /\ lit[Len(nodes) - 1] \in Seq(S) /\ nodes[Len(nodes)] \in S
<1> DEFINE fewer == SubSeq(nodes, 1, Len(nodes) - 1)
           k == Len(fewer)
           less == [i \in 0 .. k |-> lit[i]]
<1>1. /\ k \in Nat /\ Len(nodes) = k + 1 /\ fewer \in Seq(S) /\ \A i \in 1 .. k : fewer[i] = nodes[i]
      /\ nodes[Len(nodes)] \in S
  BY FrontProperties DEF Front, Last
<1>2. lit[0] = <<>> /\ \A i \in 0 .. k + 1 : lit[i] \in Seq(S)
  BY <1>1 DEF Lists
<1>3. \A i \in 1 .. k + 1 : lit[i] = Listed(lit[i - 1], nodes[i], tree)
  BY <1>1 DEF Lists, Listed
<1> HIDE DEF fewer, k
<1>4. lit[k + 1] = Listed(lit[k], nodes[k + 1], tree) /\ lit[k] \in Seq(S)
  <2>1. k + 1 \in 1 .. k + 1 /\ (k + 1) - 1 = k /\ k \in 0 .. k + 1
    BY <1>1
  <2> QED
    BY <1>2, <1>3, <2>1
<1>5. less \in [0 .. k -> Seq(S)] /\ \A i \in 0 .. k : less[i] = lit[i]
  BY <1>1, <1>2
<1> HIDE DEF less
<1>6. \A i \in 1 .. k : less[i] = Listed(less[i - 1], fewer[i], tree)
  <2> TAKE i \in 1 .. k
  <2>1. i \in 1 .. k + 1 /\ i - 1 \in 0 .. k /\ i \in 0 .. k
    BY <1>1
  <2> QED
    BY <1>1, <1>3, <1>5, <2>1
<1>7. less[0] = <<>>
  <2>1. 0 \in 0 .. k
    BY <1>1
  <2> QED
    BY <1>2, <1>5, <2>1
<1>8. Lists(less, S, fewer, tree)
  BY <1>5, <1>6, <1>7 DEF Lists, Listed, k
<1>9. Len(nodes) - 1 = k
  BY <1>1
<1> QED
  BY <1>1, <1>4, <1>8, <1>9 DEF fewer, k, less

-----------------------------------------------------------------------------
(***************************************************************************)
(* What is said and heard.                                                 *)
(***************************************************************************)
Clearing == {"programStart", "programDone", "programError"}

LEMMA NoNodesOpen ==
    ASSUME NEW S, NEW tree
    PROVE  \E lit : Lists(lit, S, <<>>, tree) /\ lit[Len(<<>>)] = <<>>
<1> DEFINE lit == [i \in 0 .. 0 |-> <<>>]
<1>1. Len(<<>>) = 0 /\ lit \in [0 .. 0 -> Seq(S)] /\ lit[0] = <<>>
  OBVIOUS
<1> HIDE DEF lit
<1>2. Lists(lit, S, <<>>, tree)
  BY <1>1 DEF Lists
<1> QED
  BY <1>1, <1>2

LEMMA NothingSaid ==
    ASSUME Reported, UNCHANGED <<out, open, seen>>,
           phase' = "called" => open = <<>>,
           phase' \in {"ready", "running"} => phase \in {"ready", "running"} /\ program' = program
    PROVE  Reported'
<1>1. PICK S : /\ open \in Seq(S) /\ \E T : out \in Seq(T)
               /\ \E lists : /\ Follows(lists, S, seen, out)
                             /\ phase \in {"ready", "running"} => Agree(lists, S, out, open, Ast)
  BY DEF Reported
<1>2. phase' \in {"ready", "running"} => Ast' = Ast
  BY DEF Ast
<1> QED
  BY <1>1, <1>2 DEF Reported

(* Whatever is said that neither starts nor ends a node.                   *)
LEMMA SaidKeeps ==
    ASSUME Reported, NEW m, out' = Append(out, m), seen' = seen, m.type \notin {"nodeStart", "nodeDone"},
           open' = open \/ open' = <<>>,
           phase' = "called" => open' = <<>>,
           phase' \in {"ready", "running"} =>
              \/ m.type = "programStart" /\ open' = <<>>
              \/ m.type \notin Clearing /\ phase \in {"ready", "running"} /\ open' = open /\ program' = program
    PROVE  Reported'
<1>1. PICK S, T, lists :
         /\ open \in Seq(S) /\ out \in Seq(T) /\ Follows(lists, S, seen, out)
         /\ phase \in {"ready", "running"} => Agree(lists, S, out, open, Ast)
  BY DEF Reported
<1> DEFINE last == lists[Len(out)]
           next == Witness(last, m)
<1>2. last \in Seq(S)
  BY <1>1 DEF Follows
<1>3. next = IF m.type \in Clearing THEN <<>> ELSE last
  BY DEF Witness, Clearing
<1>4. next \in Seq(S)
  BY <1>2, <1>3
<1> HIDE DEF last, next
<1>5. PICK more : Follows(more, S, seen, out') /\ more[Len(out')] = next
  BY <1>1, <1>4, OneMoreSaid DEF last, next
<1>6. \E U : out' \in Seq(U)
  BY <1>1, <1>4, OneMoreSaid DEF last, next
<1>7. open' \in Seq(S)
  <2>1. <<>> \in Seq(S)
    OBVIOUS
  <2> QED
    BY <1>1, <2>1
<1>8. ASSUME phase' \in {"ready", "running"} PROVE Agree(more, S, out', open', Ast')
  <2>1. CASE m.type = "programStart" /\ open' = <<>>
    <3>1. next = <<>>
      BY <1>3, <2>1 DEF Clearing
    <3> QED
      BY <1>5, <2>1, <3>1, NoNodesOpen DEF Agree
  <2>2. CASE m.type \notin Clearing /\ phase \in {"ready", "running"} /\ open' = open /\ program' = program
    <3>1. next = last /\ Ast' = Ast
      BY <1>3, <2>2 DEF Ast
    <3>2. PICK lit : Lists(lit, S, open, Ast) /\ last = lit[Len(open)]
      BY <1>1, <2>2 DEF Agree, last
    <3> QED
      BY <1>5, <2>2, <3>1, <3>2 DEF Agree
  <2> QED
    BY <1>8, <2>1, <2>2
<1> QED
  BY <1>5, <1>6, <1>7, <1>8 DEF Reported

(* A failure leaves all nodes, and may say nothing.                        *)
LEMMA ClosedKeeps ==
    ASSUME Reported, UNCHANGED <<out, seen>>, open' = <<>>, phase' \notin {"ready", "running"}
    PROVE  Reported'
<1>1. \A S : <<>> \in Seq(S)
  OBVIOUS
<1> QED
  BY <1>1 DEF Reported

LEMMA EnterKeeps ==
    ASSUME Reported, NEW n, Enter(n), seen' = seen
    PROVE  Reported'
<1>1. PICK S, T, lists :
         open \in Seq(S) /\ out \in Seq(T) /\ Follows(lists, S, seen, out) /\ Agree(lists, S, out, open, Ast)
  BY DEF Reported, Enter
<1>2. PICK lit : Lists(lit, S, open, Ast) /\ lists[Len(out)] = lit[Len(open)]
  BY <1>1 DEF Agree
<1> DEFINE R    == S \cup {n}
           next == Listed(lit[Len(open)], n, Ast)
<1>3. open' = Append(open, n) /\ phase' = "running" /\ Ast' = Ast
  BY DEF Enter, Ast
<1>4. /\ open' \in Seq(R) /\ next \in Seq(R) /\ lit[Len(open)] \in Seq(S)
      /\ \E more : Lists(more, R, open', Ast) /\ more[Len(open')] = next
  <2>1. S \subseteq R /\ n \in R
    OBVIOUS
  <2> HIDE DEF R
  <2> QED
    BY <1>1, <1>2, <1>3, <2>1, OneOpened
<1>5. PICK shown : Lists(shown, R, open', Ast) /\ shown[Len(open')] = next
  BY <1>4
<1>6. S \subseteq R
  OBVIOUS
<1> HIDE DEF R
<1>7. CASE Highlightable(n)
  <2>0. PICK m : m = Event("nodeStart", n)
    OBVIOUS
  <2>1. out' = Append(out, m) /\ m.type = "nodeStart" /\ m.node = n
    BY <1>7, <2>0 DEF Enter, Event
  <2>2. next = Witness(lists[Len(out)], m)
    BY <1>2, <1>7, <2>1 DEF Listed, Witness, Highlightable
  <2> HIDE DEF next
  <2>3. m.type = "nodeDone" => lists[Len(out)] # <<>> /\ Last(lists[Len(out)]) = m.node
    BY <2>1
  <2>4. /\ \E U : Append(out, m) \in Seq(U)
        /\ \E more : /\ Follows(more, R, seen, Append(out, m))
                     /\ more[Len(Append(out, m))] = Witness(lists[Len(out)], m)
    <3>1. /\ out \in Seq(T) /\ Follows(lists, S, seen, out) /\ S \subseteq R
          /\ Witness(lists[Len(out)], m) \in Seq(R)
      BY <1>1, <1>4, <1>6, <2>2
    <3>2. \E U : Append(out, m) \in Seq(U)
      BY <2>3, <3>1, OneMoreSaid
    <3>3. \E more : /\ Follows(more, R, seen, Append(out, m))
                    /\ more[Len(Append(out, m))] = Witness(lists[Len(out)], m)
      BY <2>3, <3>1, OneMoreSaid
    <3> QED
      BY <3>2, <3>3
  <2> QED
    BY <1>3, <1>4, <1>5, <2>1, <2>2, <2>4 DEF Reported, Agree
<1>8. CASE ~Highlightable(n)
  <2>1. out' = out /\ next = lists[Len(out)]
    BY <1>2, <1>8 DEF Enter, Listed, Highlightable
  <2>2. Follows(lists, R, seen, out)
    BY <1>1, <1>6, WiderSeq DEF Follows
  <2> HIDE DEF next
  <2> QED
    BY <1>1, <1>3, <1>4, <1>5, <2>1, <2>2 DEF Reported, Agree
<1> QED
  BY <1>7, <1>8

LEMMA LeaveKeeps ==
    ASSUME Reported, Leave, seen' = seen
    PROVE  Reported'
<1>1. PICK S, T, lists :
         open \in Seq(S) /\ out \in Seq(T) /\ Follows(lists, S, seen, out) /\ Agree(lists, S, out, open, Ast)
  BY DEF Reported, Leave
<1>2. PICK lit : Lists(lit, S, open, Ast) /\ lists[Len(out)] = lit[Len(open)]
  BY <1>1 DEF Agree
<1> DEFINE n    == innermost
           next == lit[Len(open) - 1]
           less == [i \in 0 .. Len(open') |-> lit[i]]
<1>3. /\ open # <<>> /\ open' = SubSeq(open, 1, Len(open) - 1) /\ phase' = "running" /\ Ast' = Ast
      /\ n = open[Len(open)]
  BY DEF Leave, Ast, innermost
<1>4. /\ open' \in Seq(S) /\ Lists(less, S, open', Ast) /\ Len(open') = Len(open) - 1
      /\ lists[Len(out)] = Listed(next, n, Ast) /\ next \in Seq(S) /\ n \in S
  BY <1>1, <1>2, <1>3, OneClosed
<1>5. less[Len(open')] = next
  <2>1. Len(open') \in Nat
    BY <1>4, LenProperties
  <2> QED
    BY <1>4, <2>1
<1> HIDE DEF less, n
<1>6. CASE Highlightable(innermost)
  <2>0. PICK m : m = Event("nodeDone", n)
    OBVIOUS
  <2>1. out' = Append(out, m) /\ m.type = "nodeDone" /\ m.node = n
    BY <1>6, <2>0 DEF Leave, Event, n
  <2>2. lists[Len(out)] = Append(next, n)
    BY <1>4, <1>6 DEF Listed, Highlightable, n
  <2> HIDE DEF next
  <2>3. /\ lists[Len(out)] # <<>> /\ Last(lists[Len(out)]) = n
        /\ SubSeq(lists[Len(out)], 1, Len(lists[Len(out)]) - 1) = next
    BY <1>4, <2>2, AppendTaken
  <2>4. Witness(lists[Len(out)], m) = next
    BY <2>1, <2>3 DEF Witness
  <2>5. m.type = "nodeDone" => lists[Len(out)] # <<>> /\ Last(lists[Len(out)]) = m.node
    BY <2>1, <2>3
  <2>6. /\ \E U : Append(out, m) \in Seq(U)
        /\ \E more : /\ Follows(more, S, seen, Append(out, m))
                     /\ more[Len(Append(out, m))] = Witness(lists[Len(out)], m)
    <3>1. /\ out \in Seq(T) /\ Follows(lists, S, seen, out) /\ S \subseteq S
          /\ Witness(lists[Len(out)], m) \in Seq(S)
      BY <1>1, <1>4, <2>4
    <3>2. \E U : Append(out, m) \in Seq(U)
      BY <2>5, <3>1, OneMoreSaid
    <3>3. \E more : /\ Follows(more, S, seen, Append(out, m))
                    /\ more[Len(Append(out, m))] = Witness(lists[Len(out)], m)
      BY <2>5, <3>1, OneMoreSaid
    <3> QED
      BY <3>2, <3>3
  <2> QED
    BY <1>3, <1>4, <1>5, <2>1, <2>4, <2>6 DEF Reported, Agree
<1>7. CASE ~Highlightable(innermost)
  <2>1. out' = out /\ next = lists[Len(out)]
    BY <1>4, <1>7 DEF Leave, Listed, Highlightable, n
  <2> HIDE DEF next
  <2> QED
    BY <1>1, <1>3, <1>4, <1>5, <2>1 DEF Reported, Agree
<1> QED
  BY <1>6, <1>7

LEMMA HeardKeeps ==
    ASSUME Reported, out # <<>>, out' = Tail(out), seen' = Witness(seen, Head(out)),
           UNCHANGED <<program, phase, open>>
    PROVE  Reported'
<1>1. PICK S, T, lists :
         /\ open \in Seq(S) /\ out \in Seq(T) /\ Follows(lists, S, seen, out)
         /\ phase \in {"ready", "running"} => Agree(lists, S, out, open, Ast)
  BY DEF Reported
<1>2. PICK rest : /\ Follows(rest, S, Witness(seen, Head(out)), Tail(out))
                  /\ rest[Len(Tail(out))] = lists[Len(out)]
  BY <1>1, OneHeard
<1>3. Tail(out) \in Seq(T)
  BY <1>1, OneHeard
<1>4. phase \in {"ready", "running"} => Agree(rest, S, Tail(out), open, Ast)
  BY <1>1, <1>2 DEF Agree
<1>5. Ast' = Ast
  BY DEF Ast
<1> QED
  BY <1>1, <1>2, <1>3, <1>4, <1>5 DEF Reported

(* What the next message tells of the nodes that are running.              *)
LEMMA HeardFacts ==
    ASSUME Reported, out # <<>>
    PROVE  /\ \E S : seen \in Seq(S)
           /\ Head(out).type = "nodeDone" => seen # <<>> /\ Last(seen) = Head(out).node
<1>1. PICK S, T, lists : out \in Seq(T) /\ Follows(lists, S, seen, out)
  BY DEF Reported
<1> QED
  BY <1>1, OneHeard

-----------------------------------------------------------------------------
(***************************************************************************)
(* Whether a program runs.                                                 *)
(***************************************************************************)
Live == {"ready", "running", "failed", "stopped"}

LEMMA SameNews ==
    ASSUME Announced, UNCHANGED <<out, refused>>, state'.running = state.running,
           phase' \in Live => phase \in Live
    PROVE  Announced'
<1>1. News' = News
  BY DEF News
<1> QED
  BY <1>1 DEF Announced, Live

LEMMA MoreNews ==
    ASSUME Announced, Reported, NEW m, out' = Append(out, m),
           \/ phase' \notin Live
           \/ m.type \in {"programStart", "error"}
           \/ m.type \notin RunTypes /\ phase \in Live /\ UNCHANGED refused /\ state'.running = state.running
    PROVE  Announced'
<1>1. PICK T : out \in Seq(T)
  BY DEF Reported
<1>2. /\ Len(out) \in Nat /\ Len(Append(out, m)) = Len(out) + 1
      /\ Append(out, m)[Len(out) + 1] = m /\ \A i \in 1 .. Len(out) : Append(out, m)[i] = out[i]
  BY <1>1, Appended
<1>3. News' = News \cup (IF m.type \in RunTypes THEN {Len(out) + 1} ELSE {})
  BY <1>2 DEF News, RunTypes, Endings
<1>4. \A i \in News : i \in 1 .. Len(out) /\ out'[i] = out[i]
  BY <1>2 DEF News
<1>5. CASE m.type \in {"programStart", "error"}
  <2> DEFINE k == Len(out) + 1
  <2>1. k \in News' /\ out'[k] = m
    BY <1>2, <1>3, <1>5 DEF RunTypes, Endings
  <2>2. \A j \in News' : j <= k
    BY <1>2, <1>3, <1>4
  <2> HIDE DEF k
  <2> QED
    BY <1>5, <2>1, <2>2 DEF Announced
<1>6. CASE m.type \notin RunTypes /\ phase \in Live /\ UNCHANGED refused /\ state'.running = state.running
  BY <1>3, <1>4, <1>6 DEF Announced, Live
<1> QED
  BY <1>5, <1>6 DEF Announced, Live

LEMMA HeardNews ==
    ASSUME Announced, Reported, out # <<>>, out' = Tail(out), phase' = phase,
           Head(out).type = "programStart" => state'.running = TRUE,
           Head(out).type \notin RunTypes => state'.running = state.running,
           refused' = (Head(out).type = "error" \/ (refused /\ Head(out).type # "programStart"))
    PROVE  Announced'
<1> DEFINE n == Len(Tail(out))
<1>1. PICK T : out \in Seq(T)
  BY DEF Reported
<1>2. /\ n \in Nat /\ Len(out) = n + 1 /\ Head(out) = out[1]
      /\ \A i \in 1 .. n : out'[i] = out[i + 1]
  BY <1>1, EmptySeq, HeadTailProperties
<1>3. News' = {i \in 1 .. n : out'[i].type \in RunTypes}
  BY DEF News, RunTypes, Endings
<1>4. News = {i \in 1 .. n + 1 : out[i].type \in RunTypes}
  BY <1>2 DEF News, RunTypes, Endings
<1> HIDE DEF n
<1>5. \A i \in 1 .. n : i \in News' <=> i + 1 \in News
  <2> TAKE i \in 1 .. n
  <2>1. i + 1 \in 1 .. n + 1 /\ out'[i] = out[i + 1]
    BY <1>2
  <2> QED
    BY <1>3, <1>4, <2>1
<1>6. 1 \in News <=> Head(out).type \in RunTypes
  BY <1>2, <1>4
<1> SUFFICES ASSUME phase \in Live
             PROVE  \/ News' = {} /\ (state'.running \/ refused')
                    \/ \E i \in News' : out'[i].type \in {"programStart", "error"} /\ \A j \in News' : j <= i
  BY DEF Announced, Live
<1>7. CASE News = {} /\ (state.running \/ refused)
  <2>1. News' = {} /\ Head(out).type \notin RunTypes
    BY <1>3, <1>5, <1>6, <1>7
  <2> QED
    BY <1>7, <2>1 DEF RunTypes, Endings
<1>8. ASSUME NEW i \in News, out[i].type \in {"programStart", "error"}, \A j \in News : j <= i
      PROVE  \/ News' = {} /\ (state'.running \/ refused')
             \/ \E k \in News' : out'[k].type \in {"programStart", "error"} /\ \A j \in News' : j <= k
  <2>1. CASE i = 1
    <3>1. \A j \in News' : FALSE
      <4> SUFFICES ASSUME NEW j \in News' PROVE FALSE
        OBVIOUS
      <4>1. j \in 1 .. n /\ j + 1 \in News
        BY <1>3, <1>5
      <4> QED
        BY <1>2, <1>8, <2>1, <4>1
    <3> QED
      BY <1>2, <1>8, <2>1, <3>1
  <2>2. CASE i # 1
    <3>1. i - 1 \in 1 .. n /\ (i - 1) + 1 = i
      BY <1>2, <1>4, <2>2
    <3>2. i - 1 \in News' /\ out'[i - 1] = out[i]
      BY <1>2, <1>5, <3>1
    <3>3. \A j \in News' : j <= i - 1
      <4> TAKE j \in News'
      <4>1. j \in 1 .. n /\ j + 1 \in News
        BY <1>3, <1>5
      <4>2. j + 1 <= i
        BY <1>8, <4>1
      <4> QED
        BY <3>1, <4>1, <4>2
    <3> QED
      BY <1>8, <3>2, <3>3
  <2> QED
    BY <2>1, <2>2
<1> QED
  BY <1>7, <1>8 DEF Announced, Live

(* Whatever has started is still running, or its end is on the way.        *)
LEMMA SameEnds ==
    ASSUME Ended, UNCHANGED <<out, told>>, state'.running = state.running, Runs => Runs'
    PROVE  Ended'
BY DEF Ended, EndsAfter

LEMMA MoreEnds ==
    ASSUME Ended, Reported, NEW m, out' = Append(out, m), UNCHANGED told, state'.running = state.running,
           (Runs => Runs') \/ m.type \in Endings, m.type = "programStart" => Runs'
    PROVE  Ended'
<1>1. PICK T : out \in Seq(T)
  BY DEF Reported
<1>2. /\ Len(out) \in Nat /\ Len(out') = Len(out) + 1
      /\ out'[Len(out) + 1] = m /\ \A i \in 1 .. Len(out) : out'[i] = out[i]
  BY <1>1, Appended
<1>3. \A k \in 0 .. Len(out) : EndsAfter(k) => EndsAfter(k)'
  BY <1>2 DEF EndsAfter
<1>4. m.type \in Endings => \A k \in 0 .. Len(out) : EndsAfter(k)'
  BY <1>2 DEF EndsAfter
<1>5. \A k \in 0 .. Len(out) : Runs \/ EndsAfter(k) => Runs' \/ EndsAfter(k)'
  BY <1>3, <1>4
<1>6. 0 \in 0 .. Len(out) /\ \A k \in 1 .. Len(out) : k \in 0 .. Len(out)
  BY <1>2
<1>7. told' /\ state'.running => Runs' \/ EndsAfter(0)'
  BY <1>5, <1>6 DEF Ended
<1>8. ASSUME NEW k \in 1 .. Len(out'), out'[k].type = "programStart"
      PROVE  Runs' \/ EndsAfter(k)'
  <2>1. CASE k = Len(out) + 1
    BY <1>2, <1>8, <2>1
  <2>2. CASE k # Len(out) + 1
    <3>1. k \in 1 .. Len(out)
      BY <1>2, <2>2
    <3>2. out[k].type = "programStart"
      BY <1>2, <1>8, <3>1
    <3>3. Runs \/ EndsAfter(k)
      BY <3>1, <3>2 DEF Ended
    <3> QED
      BY <1>5, <1>6, <3>1, <3>3
  <2> QED
    BY <2>1, <2>2
<1> QED
  BY <1>7, <1>8 DEF Ended

LEMMA HeardEnds ==
    ASSUME Ended, Reported, out # <<>>, out' = Tail(out), phase' = phase,
           told' = (told \/ Head(out).type \in RunTypes),
           Head(out).type \in Endings => state'.running = FALSE,
           Head(out).type \notin RunTypes => state'.running = state.running
    PROVE  Ended'
<1> DEFINE n == Len(Tail(out))
<1>1. PICK T : out \in Seq(T)
  BY DEF Reported
<1>2. /\ n \in Nat /\ Len(out') = n /\ Len(out) = n + 1 /\ Head(out) = out[1]
      /\ \A i \in 1 .. n : out'[i] = out[i + 1]
  BY <1>1, EmptySeq, HeadTailProperties
<1>3. Runs' <=> Runs
  BY DEF Runs
<1> HIDE DEF n
<1>4. ASSUME NEW k \in 1 .. n + 1, EndsAfter(k)
      PROVE  EndsAfter(k - 1)'
  <2>1. PICK i \in 1 .. n + 1 : i > k /\ out[i].type \in Endings
    BY <1>2, <1>4 DEF EndsAfter
  <2>2. i - 1 \in 1 .. n /\ (i - 1) + 1 = i /\ i - 1 > k - 1
    BY <1>2, <2>1
  <2>3. out'[i - 1].type \in Endings
    BY <1>2, <2>1, <2>2
  <2> QED
    BY <1>2, <2>2, <2>3 DEF EndsAfter
<1>5. ASSUME NEW k \in 1 .. n, out'[k].type = "programStart"
      PROVE  Runs' \/ EndsAfter(k)'
  <2>1. k + 1 \in 1 .. n + 1 /\ (k + 1) - 1 = k /\ out[k + 1].type = "programStart"
    BY <1>2, <1>5
  <2>2. Runs \/ EndsAfter(k + 1)
    BY <1>2, <2>1 DEF Ended
  <2> QED
    BY <1>3, <1>4, <2>1, <2>2
<1>6. ASSUME told', state'.running
      PROVE  Runs' \/ EndsAfter(0)'
  <2>1. 1 \in 1 .. n + 1 /\ 1 - 1 = 0
    BY <1>2
  <2>2. CASE Head(out).type = "programStart"
    <3>1. Runs \/ EndsAfter(1)
      BY <1>2, <2>1, <2>2 DEF Ended
    <3> QED
      BY <1>3, <1>4, <2>1, <3>1
  <2>3. CASE Head(out).type \notin RunTypes
    <3>1. Runs \/ EndsAfter(0)
      BY <1>6, <2>3 DEF Ended
    <3>2. ASSUME EndsAfter(0) PROVE EndsAfter(1)
      <4>1. PICK i \in 1 .. n + 1 : out[i].type \in Endings
        BY <1>2, <3>2 DEF EndsAfter
      <4>2. i # 1
        BY <1>2, <2>3, <4>1 DEF RunTypes
      <4> QED
        BY <1>2, <4>1, <4>2 DEF EndsAfter
    <3> QED
      BY <1>3, <1>4, <2>1, <3>1, <3>2
  <2> QED
    BY <1>6, <2>2, <2>3 DEF RunTypes
<1> QED
  BY <1>2, <1>5, <1>6 DEF Ended

-----------------------------------------------------------------------------
(***************************************************************************)
(* What the page shows.                                                    *)
(***************************************************************************)
Hits(n) == Ids(CardsForNodeSpan(Cards[state.cards], Span[n]))

LEMMA Justified ==
    ActiveJustified <=> \A id \in state.active : \E k \in DOMAIN seen : id \in Hits(seen[k])
BY DEF ActiveJustified, Hits

(* Whatever is typed, clicked or refused, the highlights only vanish.      *)
PageKept ==
    /\ DOMAIN state' = DOMAIN state /\ state'.running = state.running
    /\ state'.active = {} \/ (state'.active = state.active /\ state'.cards = state.cards)

LEMMA KeptIsJustified ==
    ASSUME ActiveTold, PageKept, UNCHANGED <<seen, told>>
    PROVE  ActiveTold'
BY DEF ActiveTold, ActiveJustified, PageKept

(* reduceState, field by field.                                            *)
LEMMA Applied ==
    ASSUME PageOK, NEW m
    PROVE  LET after == ApplyRuntimeMessage(state, m)
           IN  /\ DOMAIN after = DOMAIN state /\ after.connected = state.connected
               /\ after.cards = state.cards
               /\ m.type = "programStart" => after.running = TRUE
               /\ m.type \in Endings => after.running = FALSE
               /\ m.type \notin RunTypes => after.running = state.running
               /\ after.active =
                     IF m.type \in RunTypes THEN {}
                     ELSE IF m.type = "nodeStart" THEN state.active \cup Hits(m.node)
                     ELSE IF m.type \in {"nodeDone", "nodeSkipped"} THEN state.active \ Hits(m.node)
                     ELSE state.active
<1> DEFINE after == ApplyRuntimeMessage(state, m)
<1>1. CASE m.type = "diagnostics"
  <2>1. after = [state EXCEPT !.diagnostics = Shown("host", m.source)]
    BY <1>1 DEF ApplyRuntimeMessage
  <2> HIDE DEF after
  <2> QED
    BY <1>1, <2>1 DEF PageOK, RunTypes, Endings, after
<1>2. CASE m.type = "programStart"
  <2>1. after = [state EXCEPT !.running = TRUE, !.active = {}, !.errored = {}]
    BY <1>2 DEF ApplyRuntimeMessage
  <2> HIDE DEF after
  <2> QED
    BY <1>2, <2>1 DEF PageOK, RunTypes, Endings, after
<1>3. CASE m.type \in {"programDone", "programError", "error"}
  <2>1. after = [state EXCEPT !.running = FALSE, !.active = {}]
    BY <1>3 DEF ApplyRuntimeMessage
  <2> HIDE DEF after
  <2> QED
    BY <1>3, <2>1 DEF PageOK, RunTypes, Endings, after
<1>4. CASE m.type \in {"nodeStart", "nodeDone", "nodeSkipped", "nodeError"}
  <2>1. after = ApplyNode(state, m)
    BY <1>4 DEF ApplyRuntimeMessage
  <2>2. after = IF m.type = "nodeStart" THEN [state EXCEPT !.active = @ \cup Hits(m.node)]
                ELSE IF m.type \in {"nodeDone", "nodeSkipped"} THEN [state EXCEPT !.active = @ \ Hits(m.node)]
                ELSE [state EXCEPT !.errored = @ \cup Hits(m.node)]
    BY <1>4, <2>1 DEF ApplyNode, Hits
  <2> HIDE DEF after
  <2> QED
    BY <1>4, <2>2 DEF PageOK, RunTypes, Endings, after
<1>5. CASE m.type \notin {"diagnostics", "programStart", "programDone", "programError", "error",
                          "nodeStart", "nodeDone", "nodeSkipped", "nodeError"}
  <2>1. after = state
    BY <1>5 DEF ApplyRuntimeMessage
  <2> HIDE DEF after
  <2> QED
    BY <1>5, <2>1 DEF RunTypes, Endings, after
<1> QED
  BY <1>1, <1>2, <1>3, <1>4, <1>5

LEMMA NotLast == ASSUME NEW n \in Nat, NEW k \in 1 .. n, k # n PROVE k \in 1 .. n - 1
OBVIOUS

(* A highlight a message leaves has a node that is still running.          *)
LEMMA HeardIsJustified ==
    ASSUME PageOK, ActiveJustified, Reported, out # <<>>,
           state' = ApplyRuntimeMessage(state, Head(out)), seen' = Witness(seen, Head(out))
    PROVE  ActiveJustified'
<1> DEFINE m == Head(out)
<1>1. PICK S : seen \in Seq(S)
  BY HeardFacts
<1>2. state'.cards = state.cards
  BY Applied
<1>3. \A n : Hits(n)' = Hits(n)
  BY <1>2 DEF Hits
<1>4. Len(seen) \in Nat /\ DOMAIN seen = 1 .. Len(seen)
  BY <1>1, LenProperties
<1>5. state'.active = IF m.type \in RunTypes THEN {}
                     ELSE IF m.type = "nodeStart" THEN state.active \cup Hits(m.node)
                     ELSE IF m.type \in {"nodeDone", "nodeSkipped"} THEN state.active \ Hits(m.node)
                     ELSE state.active
  BY Applied
<1>6. \A id \in state.active : \E k \in 1 .. Len(seen) : id \in Hits(seen[k])
  BY <1>4, Justified
<1> SUFFICES ASSUME NEW id \in state'.active
             PROVE  \E k \in DOMAIN seen' : id \in Hits(seen'[k])
  BY <1>3 DEF ActiveJustified, Hits
<1>7. m.type \notin RunTypes
  BY <1>5
<1>8. CASE m.type = "nodeStart"
  <2>1. seen' = Append(seen, m.node)
    BY <1>8 DEF Witness
  <2>2. /\ DOMAIN Append(seen, m.node) = 1 .. Len(seen) + 1
        /\ Append(seen, m.node)[Len(seen) + 1] = m.node
        /\ \A k \in 1 .. Len(seen) : Append(seen, m.node)[k] = seen[k]
    BY <1>1, AnySeq
  <2>3. CASE id \in Hits(m.node)
    BY <1>4, <2>1, <2>2, <2>3
  <2>4. CASE id \in state.active
    <3>1. PICK k \in 1 .. Len(seen) : id \in Hits(seen[k])
      BY <1>6, <2>4
    <3>2. k \in 1 .. Len(seen) + 1 /\ Append(seen, m.node)[k] = seen[k]
      BY <1>4, <2>2
    <3> QED
      BY <2>1, <2>2, <3>1, <3>2
  <2> QED
    BY <1>5, <1>8, <2>3, <2>4 DEF RunTypes, Endings
<1>9. CASE m.type = "nodeDone"
  <2>1. seen # <<>> /\ Last(seen) = m.node /\ seen' = Front(seen)
    BY <1>9, HeardFacts DEF Witness, Front
  <2>2. /\ Front(seen) \in Seq(S) /\ Len(Front(seen)) = Len(seen) - 1
        /\ \A k \in 1 .. Len(seen) - 1 : Front(seen)[k] = seen[k]
    BY <1>1, <2>1, FrontProperties
  <2>3. id \in state.active /\ id \notin Hits(m.node)
    BY <1>5, <1>9 DEF RunTypes, Endings
  <2>4. PICK k \in 1 .. Len(seen) : id \in Hits(seen[k])
    BY <1>6, <2>3
  <2>5. k # Len(seen)
    BY <2>1, <2>3, <2>4 DEF Last
  <2>6. k \in 1 .. Len(seen) - 1
    BY <1>4, <2>5, NotLast
  <2>7. DOMAIN Front(seen) = 1 .. Len(seen) - 1
    BY <2>2, LenProperties
  <2> QED
    BY <2>1, <2>2, <2>4, <2>6, <2>7
<1>10. CASE m.type \notin {"nodeStart", "nodeDone"}
  <2>1. seen' = seen /\ id \in state.active
    BY <1>5, <1>7, <1>10 DEF Witness, RunTypes, Endings
  <2> QED
    BY <1>4, <1>6, <2>1
<1> QED
  BY <1>8, <1>9, <1>10

(* The first message about a program or an error leaves none of those that *)
(* an earlier connection left.                                             *)
LEMMA FirstIsJustified ==
    ASSUME PageOK, NEW m, m.type \in RunTypes, state' = ApplyRuntimeMessage(state, m)
    PROVE  ActiveJustified'
<1>1. state'.active = {}
  BY Applied
<1> QED
  BY <1>1 DEF ActiveJustified

-----------------------------------------------------------------------------
(***************************************************************************)
(* The steps.                                                              *)
(***************************************************************************)
LEMMA SessionStart == SessionInit => SessionInv
<1> SUFFICES ASSUME SessionInit PROVE SessionInv
  OBVIOUS
<1>1. out = <<>> /\ phase = "over" /\ open = <<>> /\ seen = <<>> /\ socket = "none" /\ Len(out) = 0
      /\ told = FALSE /\ busy = FALSE /\ worker = "idle"
  BY DEF SessionInit, HostInit
<1>2. PageOK /\ state.active = {}
  BY DEF SessionInit, PageOK, InitialState
<1>3. SocketOK
  BY <1>1 DEF SessionInit, HostInit, SocketOK, NoHost
<1>4. Reported
  <2> DEFINE lists == [i \in 0 .. 0 |-> <<>>]
  <2>1. \A S : <<>> \in Seq(S)
    OBVIOUS
  <2>2. Follows(lists, {}, seen, out)
    BY <1>1, <2>1 DEF Follows
  <2> HIDE DEF lists
  <2> QED
    BY <1>1, <2>1, <2>2 DEF Reported
<1>5. Announced /\ ConnectedSettles
  BY <1>1 DEF Announced, ConnectedSettles
<1>6. ActiveTold /\ Ended /\ HostOK
  BY <1>1 DEF ActiveTold, Ended, HostOK
<1> QED
  BY <1>2, <1>3, <1>4, <1>5, <1>6 DEF SessionInv

(* Steps that do not touch the stream.                                     *)
LEMMA StreamAlone ==
    ASSUME SessionInv, PageKept, UNCHANGED <<vars, busy, worker, history>>, SocketOK', ConnectedSettles'
    PROVE  SessionInv'
<1>1. UNCHANGED <<program, out, phase, open, seen, refused, told>>
  BY DEF vars, history
<1>2. PageOK'
  BY DEF SessionInv, PageOK, PageKept
<1>3. Reported'
  BY <1>1, NothingSaid DEF SessionInv, Reported
<1>4. Announced'
  BY <1>1, SameNews DEF SessionInv, PageKept
<1>5. ActiveTold'
  BY <1>1, KeptIsJustified DEF SessionInv
<1>6. Ended' /\ HostOK'
  BY <1>1, SameEnds DEF SessionInv, PageKept, Runs, HostOK
<1> QED
  BY <1>2, <1>3, <1>4, <1>5, <1>6 DEF SessionInv

(* Steps that end the connection.                                          *)
LEMMA StreamEnds ==
    ASSUME SessionInv, PageKept, NewHost, ConnectedSettles',
           socket' \in {"none", "connecting", "closed"}
    PROVE  SessionInv'
<1>1. out' = <<>> /\ open' = <<>> /\ phase' = "over" /\ Len(<<>>) = 0 /\ seen' = <<>> /\ told' = FALSE
  BY DEF NewHost
<1>2. PageOK'
  BY DEF SessionInv, PageOK, PageKept
<1>3. SocketOK' /\ HostOK'
  BY DEF NewHost, SocketOK, NoHost, HostOK
<1>4. Reported'
  <2> DEFINE none == [i \in 0 .. 0 |-> <<>>]
  <2>1. \A R : <<>> \in Seq(R)
    OBVIOUS
  <2>2. Follows(none, {}, <<>>, <<>>)
    BY <1>1, <2>1 DEF Follows
  <2> HIDE DEF none
  <2> QED
    BY <1>1, <2>1, <2>2 DEF Reported
<1>5. Announced' /\ Ended' /\ ActiveTold'
  BY <1>1 DEF Announced, Ended, ActiveTold
<1> QED
  BY <1>2, <1>3, <1>4, <1>5 DEF SessionInv

(* What the page does of its own.                                          *)
LEMMA CallFacts ==
    ASSUME SessionInv, NEW m, Call(m), UNCHANGED network
    PROVE  /\ PageKept /\ UNCHANGED <<vars, busy, worker>> /\ state'.connected = state.connected
           /\ SocketOK'
<1>1. UNCHANGED <<socket, vars, busy, worker>> /\ PageKept /\ state'.connected = state.connected
  <2>1. CASE socket = "open"
    BY <2>1 DEF Call, Receive, PageKept, network
  <2>2. CASE socket # "open"
    <3>1. state' = [state EXCEPT !.diagnostics = Shown("socket", state.source)] /\ UNCHANGED host
      BY <2>2 DEF Call
    <3> QED
      BY <3>1 DEF host, network, PageKept, SessionInv, PageOK
  <2> QED
    BY <2>1, <2>2
<1>2. SocketOK'
  BY <1>1 DEF Call, SessionInv, SocketOK, NoHost, host, vars
<1> QED
  BY <1>1, <1>2

LEMMA InvPage ==
    ASSUME SessionInv, Click \/ TimerFires \/ (\E text \in Texts : EditSource(text))
    PROVE  SessionInv'
<1>1. /\ PageKept /\ UNCHANGED <<vars, busy, worker, history, socket>> /\ state'.connected = state.connected
      /\ SocketOK'
  <2>1. CASE \E m : Call(m) /\ UNCHANGED <<network, history>>
    BY <2>1, CallFacts DEF network
  <2>2. CASE UNCHANGED <<host, network, history, state>>
    BY <2>2 DEF host, network, PageKept, SessionInv, SocketOK, NoHost, vars
  <2>3. ASSUME NEW text \in Texts, EditSource(text)
        PROVE  /\ PageKept /\ UNCHANGED <<vars, busy, worker, history, socket>> /\ state'.connected = state.connected
               /\ SocketOK'
    <3>1. UNCHANGED <<host, network, history>>
      BY <2>3 DEF EditSource
    <3>2. \/ state' = Edit(state, text)
          \/ state' = [state EXCEPT !.source = text, !.diagnostics = Shown("page", text),
                                    !.active = {}, !.errored = {}]
      BY <2>3 DEF EditSource
    <3>3. PageKept /\ state'.connected = state.connected
      BY <3>2 DEF Edit, PageKept, SessionInv, PageOK
    <3> QED
      BY <3>1, <3>3 DEF host, network, SessionInv, SocketOK, NoHost, vars
  <2>4. CASE Click
    BY <2>1, <2>4 DEF Click
  <2>5. CASE TimerFires
    BY <2>1, <2>2, <2>5 DEF TimerFires
  <2> QED
    BY <2>3, <2>4, <2>5
<1>2. ConnectedSettles'
  BY <1>1 DEF SessionInv, ConnectedSettles
<1> QED
  BY <1>1, <1>2, StreamAlone

(* What a socket reports, and a new one.                                   *)
LEMMA InvSocket ==
    ASSUME SessionInv, Connect \/ OnOpen \/ OnClose \/ OnOld
    PROVE  SessionInv'
<1>1. CASE Connect
  <2>1. /\ NewHost /\ socket' \in {"connecting", "none"}
        /\ state' = state \/ state' = [state EXCEPT !.diagnostics = Shown("socket", state.source)]
    BY <1>1 DEF Connect
  <2>2. PageKept
    BY <2>1 DEF PageKept, SessionInv, PageOK
  <2>3. ConnectedSettles'
    BY <2>1 DEF ConnectedSettles
  <2> QED
    BY <2>1, <2>2, <2>3, StreamEnds
<1>2. CASE OnOpen
  <2>1. state' = [state EXCEPT !.connected = TRUE] /\ socket' = "open" /\ UNCHANGED <<host, history>>
    BY <1>2 DEF OnOpen, Connection
  <2>2. PageKept /\ state'.connected = TRUE
    BY <2>1 DEF PageKept, SessionInv, PageOK
  <2>3. ConnectedSettles' /\ SocketOK'
    BY <2>1, <2>2 DEF ConnectedSettles, SocketOK
  <2> QED
    BY <2>1, <2>2, <2>3, StreamAlone DEF host
<1>3. CASE OnClose
  <2>1. /\ NewHost /\ socket' = "closed"
        /\ \/ state' = [state EXCEPT !.connected = FALSE]
           \/ state' = [[state EXCEPT !.connected = FALSE] EXCEPT !.diagnostics = Shown("socket", state.source)]
    BY <1>3 DEF OnClose, Connection
  <2>2. PageKept /\ state'.connected = FALSE
    BY <2>1 DEF PageKept, SessionInv, PageOK
  <2>3. ConnectedSettles'
    BY <2>1, <2>2 DEF ConnectedSettles
  <2> QED
    BY <2>1, <2>2, <2>3, StreamEnds
<1>4. CASE OnOld
  <2>1. UNCHANGED <<page, host, socket, history>>
    BY <1>4 DEF OnOld
  <2>2. PageKept /\ ConnectedSettles' /\ SocketOK'
    BY <2>1 DEF page, host, vars, PageKept, ConnectedSettles, SocketOK, NoHost, SessionInv
  <2> QED
    BY <2>1, <2>2, StreamAlone DEF host
<1> QED
  BY <1>1, <1>2, <1>3, <1>4

LEMMA InvMessage == ASSUME SessionInv, OnMessage PROVE SessionInv'
<1> DEFINE m == Head(out)
<1>1. /\ socket = "open" /\ out # <<>> /\ out' = Tail(out) /\ state' = ApplyRuntimeMessage(state, m)
      /\ seen' = Witness(seen, m)
      /\ refused' = (m.type = "error" \/ (refused /\ m.type # "programStart"))
      /\ told' = (told \/ m.type \in RunTypes)
      /\ UNCHANGED <<program, phase, open, busy, worker, network>>
  BY DEF OnMessage
<1>2. /\ DOMAIN state' = DOMAIN state /\ state'.connected = state.connected
      /\ m.type = "programStart" => state'.running = TRUE
      /\ m.type \in Endings => state'.running = FALSE
      /\ m.type \notin RunTypes => state'.running = state.running
  BY <1>1, Applied DEF SessionInv
<1>3. PageOK' /\ SocketOK' /\ HostOK' /\ ConnectedSettles'
  BY <1>1, <1>2 DEF SessionInv, PageOK, SocketOK, HostOK, ConnectedSettles, network
<1>4. Reported'
  BY <1>1, HeardKeeps DEF SessionInv
<1>5. Announced'
  BY <1>1, <1>2, HeardNews DEF SessionInv
<1>6. ActiveTold'
  <2>1. CASE told
    BY <1>1, <2>1, HeardIsJustified DEF SessionInv, ActiveTold
  <2>2. CASE m.type \in RunTypes
    BY <1>1, <2>2, FirstIsJustified DEF SessionInv, ActiveTold
  <2> QED
    BY <1>1, <2>1, <2>2 DEF ActiveTold
<1>7. Ended'
  BY <1>1, <1>2, HeardEnds DEF SessionInv
<1> QED
  BY <1>3, <1>4, <1>5, <1>6, <1>7 DEF SessionInv

-----------------------------------------------------------------------------
(***************************************************************************)
(* The host.                                                               *)
(***************************************************************************)
(* Steps of the host that say something which neither starts nor ends a    *)
(* node, and those that change what is open without a word.                *)
LEMMA HostSays ==
    ASSUME SessionInv, UNCHANGED <<page, network, history>>, socket = "open", NEW m,
           out' = Append(out, m), m.type \notin {"nodeStart", "nodeDone"},
           open' = open \/ open' = <<>>,
           phase' = "called" => open' = <<>>,
           phase' \in {"ready", "running"} =>
              \/ m.type = "programStart" /\ open' = <<>>
              \/ m.type \notin Clearing /\ phase \in {"ready", "running"} /\ open' = open /\ program' = program,
           \/ phase' \notin Live
           \/ m.type \in {"programStart", "error"}
           \/ m.type \notin RunTypes /\ phase \in Live,
           (Runs => Runs') \/ m.type \in Endings, m.type = "programStart" => Runs', HostOK'
    PROVE  SessionInv'
<1>1. UNCHANGED <<state, socket, seen, refused, told>>
  BY DEF page, network, history
<1>2. PageOK' /\ SocketOK' /\ ConnectedSettles'
  BY <1>1 DEF SessionInv, PageOK, SocketOK, ConnectedSettles
<1>3. Reported'
  BY <1>1, SaidKeeps DEF SessionInv
<1>4. Announced'
  BY <1>1, MoreNews DEF SessionInv
<1>5. Ended'
  BY <1>1, MoreEnds DEF SessionInv
<1>6. ActiveTold'
  BY <1>1 DEF SessionInv, ActiveTold, ActiveJustified
<1> QED
  BY <1>2, <1>3, <1>4, <1>5, <1>6 DEF SessionInv

LEMMA HostQuiet ==
    ASSUME SessionInv, UNCHANGED <<page, network, history>>, socket = "open",
           Reported', Announced', Ended', HostOK'
    PROVE  SessionInv'
<1>1. UNCHANGED <<state, socket, seen, refused, told>>
  BY DEF page, network, history
<1>2. PageOK' /\ SocketOK' /\ ConnectedSettles'
  BY <1>1 DEF SessionInv, PageOK, SocketOK, ConnectedSettles
<1>3. ActiveTold'
  BY <1>1 DEF SessionInv, ActiveTold, ActiveJustified
<1> QED
  BY <1>2, <1>3 DEF SessionInv

LEMMA Unsaid ==
    ASSUME SessionInv, UNCHANGED <<page, network, history>>, socket = "open",
           UNCHANGED <<out, open>>, phase' = "called" => open = <<>>,
           phase' \in {"ready", "running"} => phase \in {"ready", "running"} /\ program' = program,
           phase' \in Live => phase \in Live, Runs => Runs', HostOK'
    PROVE  SessionInv'
<1>1. UNCHANGED <<state, seen, refused, told>>
  BY DEF page, history
<1>2. Reported' /\ Announced' /\ Ended'
  BY <1>1, NothingSaid, SameNews, SameEnds DEF SessionInv
<1> QED
  BY <1>2, HostQuiet

LEMMA InvHandles == ASSUME SessionInv, HostHandles PROVE SessionInv'
<1>1. socket = "open" /\ UNCHANGED <<page, network, history>>
  BY DEF HostHandles, HandleNext, HandleQuietly, HandleGarbage, HandleCompile, HandleRun, Handle,
         SessionInv, SocketOK, NoHost
<1>2. UNCHANGED <<program, phase, open>>
  BY DEF HostHandles, HandleNext, HandleQuietly, HandleGarbage, HandleCompile, HandleRun, vars
<1>3. \/ UNCHANGED out
      \/ \E m : out' = Append(out, m) /\ m.type \in {"error", "diagnostics"}
  BY DEF HostHandles, HandleNext, HandleQuietly, HandleGarbage, HandleCompile, HandleRun, vars,
         Say, Error, Diagnostics
<1>4. phase = "called" => open = <<>>
  BY DEF SessionInv, Reported
<1>7. HostOK' /\ (Runs => Runs')
  <2>1. UNCHANGED <<busy, worker>> \/ (~busy /\ busy' = TRUE /\ worker' = "compile")
    BY DEF HostHandles, HandleNext, HandleQuietly, HandleGarbage, HandleCompile, HandleRun
  <2> QED
    BY <1>2, <2>1 DEF SessionInv, HostOK, Runs
<1>5. CASE UNCHANGED out
  BY <1>1, <1>2, <1>4, <1>5, <1>7, Unsaid
<1>6. ASSUME NEW m, out' = Append(out, m), m.type \in {"error", "diagnostics"} PROVE SessionInv'
  BY <1>1, <1>2, <1>4, <1>6, <1>7, HostSays DEF Clearing, RunTypes, Endings
<1> QED
  BY <1>3, <1>5, <1>6

(* The interpreter, seen from the page.                                    *)
LEMMA InvRuns ==
    ASSUME SessionInv, UNCHANGED <<page, network, history>>, socket = "open", Next,
           worker = "execute", UNCHANGED <<busy, worker>>
    PROVE  SessionInv'
<1> USE DEF Clearing, RunTypes, Endings, Live, Runs
<1>0. HostOK'
  BY DEF SessionInv, HostOK
<1>1. CASE Start
  <2>1. open = <<>> /\ open' = <<>> /\ phase' = "ready"
    BY <1>1 DEF Start, SessionInv, Reported
  <2>2. PICK m : m = [type |-> "programStart"]
    OBVIOUS
  <2>3. out' = Append(out, m) /\ m.type = "programStart"
    BY <1>1, <2>2 DEF Start
  <2> QED
    BY <2>1, <2>3, <1>0, HostSays
<1>2. ASSUME \E m : out' = Append(out, m) /\ m.type \in {"nodeSkipped", "robotCommand", "sensorRead"},
             phase \in {"ready", "running"}, UNCHANGED <<program, phase, open>>
      PROVE  SessionInv'
  BY <1>2, <1>0, HostSays
<1>3. ASSUME NEW n, Skip(n) PROVE SessionInv'
  BY <1>2, <1>3 DEF Skip, Event
<1>4. CASE Move
  BY <1>2, <1>4 DEF Move
<1>5. CASE \E v \in Ints : Sense(v)
  BY <1>2, <1>5 DEF Sense
<1>6. CASE Fail
  <2>1. phase \in Live /\ phase' = "failed" /\ open' = <<>> /\ program' = program
    BY <1>6 DEF Fail
  <2>2. CASE out' = out
    <3>1. UNCHANGED <<state, seen, refused, told>>
      BY DEF page, history
    <3>2. Announced' /\ Ended'
      BY <2>1, <2>2, <3>1, SameNews, SameEnds DEF SessionInv
    <3>3. Reported'
      BY <2>1, <2>2, <3>1, ClosedKeeps DEF SessionInv
    <3> QED
      BY <3>2, <3>3, <1>0, HostQuiet
  <2>3. ASSUME NEW m, out' = Append(out, m), m.type = "nodeError" PROVE SessionInv'
    BY <2>1, <2>3, <1>0, HostSays
  <2> QED
    BY <1>6, <2>2, <2>3 DEF Fail, Event
<1>7. CASE Stop
  <2>1. PICK m : m = [type |-> "robotCommand", command |-> "Stop", args |-> <<>>]
    OBVIOUS
  <2>2. out' = Append(out, m) /\ m.type = "robotCommand" /\ open' = open /\ phase = "failed" /\ phase' = "stopped"
    BY <1>7, <2>1 DEF Stop
  <2> QED
    BY <2>2, <1>0, HostSays
<1>8. CASE End
  <2>1. PICK m : out' = Append(out, m) /\ m.type \in {"programDone", "programError"}
    BY <1>8 DEF End
  <2>2. phase' = "over" /\ open' = open
    BY <1>8 DEF End
  <2> QED
    BY <2>1, <2>2, <1>0, HostSays
<1>9. CASE Vanish
  <2>1. phase' = "gone" /\ UNCHANGED <<program, out, open>>
    BY <1>9 DEF Vanish
  <2> QED
    BY <1>0, <2>1, Unsaid
<1>10. ASSUME NEW n, Enter(n) PROVE SessionInv'
  <2>1. UNCHANGED <<state, seen, refused, told>>
    BY DEF page, history
  <2>2. Reported'
    BY <1>10, <2>1, EnterKeeps DEF SessionInv
  <2>3. /\ phase \in Live /\ phase' \in Live
        /\ \/ out' = out
           \/ \E m : out' = Append(out, m) /\ m.type \notin RunTypes
    BY <1>10 DEF Enter, Event
  <2>4. Announced' /\ Ended'
    <3>1. state'.running = state.running /\ Announced /\ Ended /\ Reported
      BY <2>1 DEF SessionInv
    <3>2. CASE out' = out
      BY <2>1, <2>3, <3>1, <3>2, SameNews, SameEnds
    <3>3. ASSUME NEW m, out' = Append(out, m), m.type \notin RunTypes PROVE Announced' /\ Ended'
      BY <2>1, <2>3, <3>1, <3>3, MoreNews, MoreEnds
    <3> QED
      BY <2>3, <3>2, <3>3
  <2> QED
    BY <2>2, <2>4, <1>0, HostQuiet
<1>11. CASE Leave
  <2>1. UNCHANGED <<state, seen, refused, told>>
    BY DEF page, history
  <2>2. Reported'
    BY <1>11, <2>1, LeaveKeeps DEF SessionInv
  <2>3. /\ phase \in Live /\ phase' \in Live
        /\ \/ out' = out
           \/ \E m : out' = Append(out, m) /\ m.type \notin RunTypes
    BY <1>11 DEF Leave, Event
  <2>4. Announced' /\ Ended'
    <3>1. state'.running = state.running /\ Announced /\ Ended /\ Reported
      BY <2>1 DEF SessionInv
    <3>2. CASE out' = out
      BY <2>1, <2>3, <3>1, <3>2, SameNews, SameEnds
    <3>3. ASSUME NEW m, out' = Append(out, m), m.type \notin RunTypes PROVE Announced' /\ Ended'
      BY <2>1, <2>3, <3>1, <3>3, MoreNews, MoreEnds
    <3> QED
      BY <2>3, <3>2, <3>3
  <2> QED
    BY <2>2, <2>4, <1>0, HostQuiet
<1> QED
  BY <1>1, <1>3, <1>4, <1>5, <1>6, <1>7, <1>8, <1>9, <1>10, <1>11 DEF Next

LEMMA InvWorks == ASSUME SessionInv, HostWorks PROVE SessionInv'
<1>1. socket = "open" /\ UNCHANGED <<page, network, history>>
  BY DEF HostWorks, Diagnose, Clear, Execute, SessionInv, SocketOK, NoHost
<1>2. CASE Execute
  BY <1>1, <1>2, InvRuns DEF Execute
<1>3. CASE Clear
  <2>1. UNCHANGED <<program, out, phase, open>>
    BY <1>3 DEF Clear, vars
  <2>2. phase = "called" => open = <<>>
    BY DEF SessionInv, Reported
  <2>3. HostOK'
    BY <1>3, <2>1 DEF Clear, SessionInv, HostOK
  <2> QED
    BY <1>1, <2>1, <2>2, <2>3, Unsaid DEF Runs
<1>4. CASE Diagnose
  <2>1. PICK m : out' = Append(out, m) /\ m.type = "diagnostics"
    BY <1>4 DEF Diagnose, Say, Diagnostics
  <2>2. \/ phase' = "called" /\ open' = <<>>
        \/ UNCHANGED <<program, phase, open>>
    BY <1>4 DEF Diagnose
  <2>3. phase = "called" => open = <<>>
    BY DEF SessionInv, Reported
  <2>4. HostOK' /\ ~Runs
    BY <1>4 DEF Diagnose, SessionInv, HostOK, Runs
  <2> QED
    BY <1>1, <2>1, <2>2, <2>3, <2>4, HostSays DEF Clearing, RunTypes, Endings, Live, Runs
<1> QED
  BY <1>2, <1>3, <1>4 DEF HostWorks

-----------------------------------------------------------------------------
(***************************************************************************)
(* Theorems.                                                               *)
(***************************************************************************)
LEMMA SessionStep == SessionInv /\ [SessionNext]_sessionVars => SessionInv'
<1> SUFFICES ASSUME SessionInv, [SessionNext]_sessionVars PROVE SessionInv'
  OBVIOUS
<1>1. CASE UNCHANGED sessionVars
  <2>1. PageKept /\ ConnectedSettles' /\ SocketOK' /\ UNCHANGED <<vars, busy, worker, history>>
    BY <1>1 DEF sessionVars, page, network, history, host, vars, PageKept, ConnectedSettles, SocketOK,
                NoHost, SessionInv
  <2> QED
    BY <2>1, StreamAlone
<1> QED
  BY <1>1, InvPage, InvSocket, InvMessage, InvHandles, InvWorks DEF SessionNext, Student, AtRest

(* What the page has heard, what is on the way to it and what the host     *)
(* does fit together in every reachable state (transport.js:9-33,          *)
(* state.js:26-69).                                                        *)
THEOREM SessionInductive == SessionSpec => []SessionInv
BY SessionStart, SessionStep, PTL DEF SessionSpec

(* For every text, program and order of events: from the first time a      *)
(* connection tells the page of a program or of an error, what the page    *)
(* shows of a program is so (state.js:26,34-69).                           *)
THEOREM ShownIsTrue == SessionSpec => []RunShown
<1>1. SessionInv => RunShown
  <2> SUFFICES ASSUME SessionInv PROVE RunShown
    OBVIOUS
  <2>1. ASSUME out = <<>> PROVE News = {}
    <3>1. Len(out) = 0
      BY <2>1
    <3> QED
      BY <3>1 DEF News
  <2>2. RunningKnown
    BY <2>1 DEF SessionInv, RunningKnown, Announced
  <2>3. told => RunningTrue
    BY DEF SessionInv, RunningTrue, Ended, Runs, EndsAfter
  <2> QED
    BY <2>2, <2>3 DEF SessionInv, RunShown, ActiveTold
<1> QED
  BY <1>1, SessionInductive, PTL

(* Whatever replaced sockets still report, the page tells whether the one  *)
(* it uses is open (transport.js:13-23, app.js:23-33).                     *)
THEOREM ConnectionShown == SessionSpec => []ConnectedSettles
<1>1. SessionInv => ConnectedSettles
  BY DEF SessionInv
<1> QED
  BY <1>1, SessionInductive, PTL
=============================================================================
