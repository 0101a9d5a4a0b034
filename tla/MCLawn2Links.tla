----------------------------- MODULE MCLawn2Links -----------------------------
(* Instances of Lawn2Links for TLC. *)
EXTENDS Lawn2Links, TLC

\* Hashes that collide in the last slot of the first tables, so that probing
\* wraps around the end; 2 and 3 still collide in the table of 8 slots.
CollidingHash == [k \in TTL |-> IF k = 0 THEN 6 ELSE 7]

Symmetry == Permutations(Node)
===============================================================================
