-------------------------------- MODULE Lists --------------------------------
(***************************************************************************)
(* Sorting a set and filtering a list, as the standard library does it     *)
(* (slices.SortFunc, and loops that append what passes a condition), and   *)
(* going along a list. The order, the condition and what is done at an     *)
(* element are sets and functions here and not operators, so that lemmas   *)
(* about them can be stated and proved (ListProofs).                       *)
(***************************************************************************)
EXTENDS Naturals, Sequences, FiniteSets

\* The elements of S as a list in the order of R, a set of pairs.
Listed(S, R) ==
  [k \in 1..Cardinality(S) |->
     CHOOSE x \in S : Cardinality({y \in S : <<y, x>> \in R}) = k - 1]

\* The elements of the list that are in T, in the list's order.
Within(s, T) ==
  LET at == {i \in DOMAIN s : s[i] \in T}
      places == Listed(at, {p \in at \X at : p[1] < p[2]})
  IN [k \in DOMAIN places |-> s[places[k]]]

\* What becomes of s along the list: f[x] is what the element x makes of it.
Along(list, f, s) ==
  LET after[i \in 0..Len(list)] == IF i = 0 THEN s ELSE f[list[i]][after[i - 1]]
  IN after[Len(list)]

\* The list itself, as a tuple: TLC computes an element of a function anew at
\* every use, and a tuple once.
Tuple(s) == SubSeq(s, 1, Len(s))
=============================================================================
