----------------------------- MODULE MCLawn2Loop ------------------------------
(* An instance of Lawn2Loop for TLC. *)
EXTENDS Lawn2Loop

\* The two TTLs share a slot until the table has grown twice.
CollidingHash == [k \in TTL |-> IF k = 0 THEN 6 ELSE 7]
===============================================================================
