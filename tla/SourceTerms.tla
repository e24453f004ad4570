---------------------------- MODULE SourceTerms ----------------------------
(***************************************************************************)
(* Parsed sources written as terms, for the instances of Compiler and of   *)
(* CompileAndRun.                                                          *)
(***************************************************************************)
EXTENDS Integers, Sequences

I(n) == [kind |-> "Integer", symbol |-> "", integer |-> n, list |-> <<>>]
S(name) == [kind |-> "Symbol", symbol |-> name, integer |-> 0, list |-> <<>>]
L(items) == [kind |-> "List", symbol |-> "", integer |-> 0, list |-> items]
F(name, operands) == L(<<S(name)>> \o operands)

(***************************************************************************)
(* The identity of an expression is the path to it.                        *)
(***************************************************************************)
RECURSIVE At(_, _), Paths(_)

At(term, path) == IF path = <<>> THEN term ELSE At(term.list[Head(path)], Tail(path))

Paths(term) ==
    {<<>>} \cup UNION {{<<i>> \o path : path \in Paths(term.list[i])} : i \in DOMAIN term.list}

SourceOf(exprs, faulty) ==
    LET raw(path) == [At(L(exprs), path) EXCEPT !.list = [i \in DOMAIN @ |-> Append(path, i)]]
    IN  [exprs |-> [i \in DOMAIN exprs |-> <<i>>],
         nodes |-> [path \in Paths(L(exprs)) \ {<<>>} |-> raw(path)],
         whole |-> <<>>, faulty |-> faulty]
=============================================================================
