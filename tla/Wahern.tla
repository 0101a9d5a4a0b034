-------------------------------- MODULE Wahern -------------------------------
(***************************************************************************)
(* src/benchmarks/c/impl/wahern.c: timeout.c as a cts_store.  Each started   *)
(* id has a timeout of its own, found through timers[id].  s is the struct   *)
(* cts_store; T.to[id] is the struct timeout of an id whose timer runs.  The *)
(* growth of the id table is left out.                                       *)
(***************************************************************************)
EXTENDS Timeouts

wahern_create ==
  [T |-> timeouts_init([id \in Timeout |-> timeout_init({})], 1000), now |-> 0,
   timers |-> [id \in Timeout |-> FALSE], live |-> 0, fired |-> 0]

\* malloc and timeout_init give the id a fresh timeout, relative to curtime.
wahern_start(s, id, ttl) ==
  [s EXCEPT !.T = timeouts_add([s.T EXCEPT !.to[id] = timeout_init({})], id, ttl),
            !.timers[id] = TRUE, !.live = @ + 1]

wahern_stop(s, id) ==
  IF ~s.timers[id] THEN s
  ELSE [s EXCEPT !.T = timeouts_del(s.T, id), !.timers[id] = FALSE, !.live = @ - 1]

\* timeouts_get until it returns NULL.
Drain(s) ==
  LET take(r, i) == [r EXCEPT !.T = timeouts_get(r.T), !.timers[Head(r.T.expired)] = FALSE,
                              !.live = @ - 1, !.fired = @ + 1]
  IN  FoldLeft(take, [s EXCEPT !.fired = 0], s.T.expired)

MovedTo(s, now) == [s EXCEPT !.now = now, !.T = timeouts_update(s.T, now)]

wahern_tick(s) == Drain(MovedTo(s, s.now + 1))

\* One tickless step, which also drains what came due.
wahern_advance(s, target) == Drain(MovedTo(s, target))

wahern_size(s) == s.live
===============================================================================
