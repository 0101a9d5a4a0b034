----------------------------- MODULE MCBaselines -----------------------------
(* An instance of Baselines for TLC. *)
EXTENDS Baselines

\* Three timers of any durations with one id used again; and six timers
\* started at once, the fewest for which the last timer of a heap can be
\* smaller than the parent of the gap it fills.
Churn == [timers |-> 3, ttl |-> {1, 2, 5}, restarts |-> 1, preload |-> FALSE]
Bulk == [timers |-> 6, ttl |-> {1, 4}, restarts |-> 0, preload |-> TRUE]
Scenarios == {Churn, Bulk}
===============================================================================
