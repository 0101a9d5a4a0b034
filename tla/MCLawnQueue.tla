----------------------------- MODULE MCLawnQueue -----------------------------
(* An instance of LawnQueue for TLC. *)
EXTENDS LawnQueue, TLC

\* Node addresses are interchangeable.
Symmetry == Permutations(Node)
===============================================================================
