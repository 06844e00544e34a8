------------------------------ MODULE ByteSums ------------------------------
(***************************************************************************)
(* Sums of natural numbers over finite index sets, written as the size of  *)
(* a set of tokens: index x contributes the tokens <<x, 1>> .. <<x, f[x]>>.*)
(* Counting tokens needs no recursion, so theorems about these sums follow *)
(* from the library's facts on finite sets.                                *)
(***************************************************************************)
EXTENDS Integers, FiniteSets

\* The tokens contributed by the indices in S.
Tokens(f, S) == UNION {{x} \X (1..f[x]) : x \in S}

\* The sum of f[x] over x \in S.
SumOver(f, S) == Cardinality(Tokens(f, S))
=============================================================================
