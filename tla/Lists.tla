------------------------------- MODULE Lists -------------------------------
(***************************************************************************)
(* What Python does with a list: a comprehension with a condition, and     *)
(* sorted().  Both are said by the rank of a place among others, a form    *)
(* the provers can reason about: what comes n-th is what n - 1 come before.*)
(***************************************************************************)
EXTENDS Integers, FiniteSets

\* The members of a finite set, by a strict order.
InOrder(S, Less(_, _)) ==
  [n \in 1..Cardinality(S) |-> CHOOSE x \in S : Cardinality({y \in S : Less(y, x)}) = n - 1]
InTurn(I) == InOrder(I, LAMBDA i, j : i < j)

\* What a list has at some of its places: [x for x in s if Test(x)].
Entries(s, I) == [n \in 1..Cardinality(I) |-> s[InTurn(I)[n]]]
Those(s, Test(_)) == Entries(s, {i \in DOMAIN s : Test(s[i])})

\* sorted(s): equals keep their order.
Sorted(s, Less(_, _)) ==
  LET at == InOrder(DOMAIN s, LAMBDA i, j : Less(s[i], s[j]) \/ (~ Less(s[j], s[i]) /\ i < j))
  IN  [n \in DOMAIN s |-> s[at[n]]]
=============================================================================
