------------------------------ MODULE Iteration -------------------------------
(***************************************************************************)
(* Loops.  The body of a loop is a function on the states it may be in, so   *)
(* that what a loop preserves can be proved for every body: see Iterates in  *)
(* SeqLemmas.                                                               *)
(***************************************************************************)
EXTENDS Naturals

\* The state after n rounds of the loop with body f, from state x.
Iterate(f, x, n) ==
  LET round[k \in Nat] == IF k = 0 THEN x ELSE f[round[k - 1]]
  IN  round[n]
===============================================================================
