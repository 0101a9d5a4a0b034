------------------------------- MODULE MCLawn2 -------------------------------
(* An instance of Lawn2 for TLC: the constants are in MCLawn2.cfg.            *)
EXTENDS Lawn2
===============================================================================
