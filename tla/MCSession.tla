----------------------------- MODULE MCSession -----------------------------
(***************************************************************************)
(* Instance of Session for TLC.  Four texts: a condition that calls a      *)
(* function, which has no card of its own; nested blocks; one that the     *)
(* page can parse and that does not compile; and one the page cannot       *)
(* parse.  The nodes of different texts have different numbers.            *)
(***************************************************************************)
EXTENDS Session, TLC

N(k, args, children) == [kind |-> k, op |-> "f", args |-> args, children |-> children,
                         params |-> <<>>, num |-> 1]

At(from, to) == [from |-> from, to |-> to]

Card(id, from, to) == [id |-> id, from |-> from, to |-> to]

(* (define (f) 1) (when (f) (beep))                                        *)
Asking == [root |-> 1, ast |->
    (1 :> N("Do", <<>>, <<2, 3>>)) @@ (2 :> N("DefineFunc", <<>>, <<>>))
        @@ (3 :> N("When", <<4>>, <<5>>)) @@ (4 :> N("Call", <<>>, <<>>)) @@ (5 :> N("Beep", <<>>, <<>>))]

(* (do (do (beep)))                                                        *)
Nested == [root |-> 6, ast |->
    (6 :> N("Do", <<>>, <<7>>)) @@ (7 :> N("Do", <<>>, <<8>>)) @@ (8 :> N("Beep", <<>>, <<>>))]

MCCompiled == [asking |-> Asking, nested |-> Nested]

MCSpan == <<At(0, 32), At(0, 14), At(15, 32), At(21, 24), At(25, 31),
            At(0, 16), At(4, 15), At(8, 14)>>

MCCards ==
    [asking |-> {Card("1", 0, 14), Card("1-1", 12, 13), Card("2", 15, 32), Card("2-1", 25, 31)},
     nested |-> {Card("1", 0, 16), Card("1-1", 4, 15), Card("1-1-1", 8, 14)},
     typo   |-> {Card("1", 0, 7)}]

MCTexts == {"asking", "nested", "typo", "open"}

MCRequests == {}
=============================================================================
