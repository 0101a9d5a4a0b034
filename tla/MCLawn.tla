-------------------------------- MODULE MCLawn --------------------------------
(* Instances of Lawn for TLC. *)
EXTENDS Lawn, TLC

Symmetry == Permutations(Node) \cup Permutations(Element)
===============================================================================
