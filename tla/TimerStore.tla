------------------------------ MODULE TimerStore ------------------------------
(***************************************************************************)
(* What every timer store of the repository promises its client: the       *)
(* protocol of cts_vtable (start, stop, tick, advance) over an integer      *)
(* clock, plus lawn.c's pop_next.  A store holds a set of pending           *)
(* <<timer, deadline>> pairs; a poll that moves the clock to t hands over   *)
(* exactly the pairs whose deadline is at most t.  Lawn2, and Lawn when its *)
(* clock is not set back and no insertion fails, are checked and proved to  *)
(* implement it; the stores of Baselines are checked to.                    *)
(***************************************************************************)
EXTENDS Naturals

CONSTANTS
  Timer,   \* identities the client gives its timers
  TTL,     \* durations, in ticks
  Time     \* values the clock can take

VARIABLES
  now,       \* the store's clock
  pending,   \* <<timer, deadline>> pairs not yet fired nor stopped
  delivered  \* the pairs handed over by the call that just returned

vars == <<now, pending, delivered>>

Due(t) == {p \in pending : p[2] <= t}

Init ==
  /\ now \in Time
  /\ pending = {}
  /\ delivered = {}

\* A client starts a timer it has not already started.
Start(x, ttl) ==
  /\ \A p \in pending : p[1] # x
  /\ pending' = pending \cup {<<x, now + ttl>>}
  /\ delivered' = {}
  /\ UNCHANGED now

\* Stopping a timer that is not pending changes nothing.
Stop(x) ==
  /\ pending' = {p \in pending : p[1] # x}
  /\ delivered' = {}
  /\ UNCHANGED now

\* The clock moves to t and everything due by then fires.  A caller that
\* passes no output list only learns how many fired.
Poll(t, collect) ==
  /\ t >= now
  /\ now' = t
  /\ pending' = pending \ Due(t)
  /\ delivered' = IF collect THEN Due(t) ELSE {}

\* The clock moves forward and nothing is processed.
Skip(t) ==
  /\ t >= now
  /\ now' = t
  /\ delivered' = {}
  /\ UNCHANGED pending

\* The timer with the closest deadline is taken out, due or not.
PopNext ==
  /\ \E p \in pending :
       /\ \A q \in pending : p[2] <= q[2]
       /\ pending' = pending \ {p}
       /\ delivered' = {p}
  /\ UNCHANGED now

Next ==
  \/ \E x \in Timer, ttl \in TTL : Start(x, ttl)
  \/ \E x \in Timer : Stop(x)
  \/ \E t \in Time, collect \in BOOLEAN : Poll(t, collect)
  \/ \E t \in Time : Skip(t)
  \/ PopNext

Spec == Init /\ [][Next]_vars
===============================================================================
