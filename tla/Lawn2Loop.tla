------------------------------ MODULE Lawn2Loop -------------------------------
(***************************************************************************)
(* The event loop of src/README_Lawn2.md over the links of lawn2: it ticks,  *)
(* walks the list of expired timers and calls the handler of each, which may *)
(* start its own timer again, the same next pointer included, and refresh or *)
(* close other connections.  Between ticks sockets are active and close.     *)
(***************************************************************************)
EXTENDS Lawn2Links

VARIABLES
  curr, following,  \* the locals of event_loop_tick: the node, and curr->next
  fresh,            \* the connection on_socket_activity has unlinked so far
  expired           \* handed over by the tick, handler not yet returned

loopVars == <<curr, following, fresh, expired>>
allVars == <<vars, loopVars>>

LoopInit ==
  /\ Init
  /\ curr = NULL /\ following = NULL /\ fresh = NULL
  /\ expired = {}

\* curr->next, saved before the handler is called.
SavedNext(n) == IF n = NULL THEN NULL ELSE node'[n].next

event_loop_tick ==
  /\ curr = NULL /\ fresh = NULL /\ now < MaxNow
  /\ lawn2_tick(TRUE)
  /\ curr' = out_head'
  /\ following' = SavedNext(curr')
  /\ expired' = {n \in Node : node[n].in_store /\ ~node'[n].in_store}
  /\ UNCHANGED fresh

Following_mutant == node[curr].next

\* Where the walk goes on when the handler of curr has returned.
Following == following

HandlerReturns ==
  /\ curr # NULL /\ fresh = NULL
  /\ UNCHANGED <<vars, fresh>>
  /\ curr' = Following
  /\ following' = SavedNext(curr')
  /\ expired' = expired \ {curr}

\* Connections that the loop does not hold an expired timer of, besides the
\* one whose handler runs: to start or free one of those would break the walk.
Usable(n) == n = curr \/ n \notin expired

\* on_socket_activity unlinks the timer and adds it again, as does a handler
\* that starts its own; a new connection is only added.  The clock of the model
\* ends at MaxNow: timers are due by then, and the last tick is the loop's.
on_socket_activity(n) ==
  /\ fresh = NULL /\ Usable(n) /\ now < MaxNow
  /\ lawn2_del(n)
  /\ fresh' = n
  /\ UNCHANGED <<curr, following, expired>>

ReAdd ==
  /\ fresh # NULL
  /\ \E k \in TTL : now + k <= MaxNow /\ lawn2_add(fresh, k)
  /\ fresh' = NULL
  /\ UNCHANGED <<curr, following, expired>>

on_connection_close(n) ==
  /\ fresh = NULL /\ Usable(n)
  /\ lawn2_del(n)
  /\ UNCHANGED loopVars

LoopNext ==
  \/ event_loop_tick \/ HandlerReturns \/ ReAdd
  \/ \E n \in Node : on_socket_activity(n) \/ on_connection_close(n)

\* Fairness: a connection that was unlinked is added again, every handler
\* returns, and however many sockets are active the loop gets to its next tick.
\* Only ReAdd clears fresh and only event_loop_tick moves now, so the two are
\* named by these variables.
Ticks == curr = NULL /\ fresh = NULL /\ now < MaxNow /\ now' = now + 1
Adds == fresh # NULL /\ fresh' = NULL

LoopSpec ==
  /\ LoopInit /\ [][LoopNext]_allVars
  /\ WF_fresh(Adds) /\ SF_allVars(HandlerReturns) /\ SF_now(Ticks)

(***************************************************************************)
(* Properties.                                                              *)
(***************************************************************************)
\* The walk still has before it exactly the timers whose handlers were not
\* called, each once, although handlers link their own node into a blade again.
WalkMeetsTheExpired ==
  LET ahead == Follow(following, NextOf)
  IN  expired = (IF curr = NULL THEN {} ELSE {curr}) \cup {ahead[i] : i \in DOMAIN ahead}
      /\ (curr # NULL => \A i \in DOMAIN ahead : ahead[i] # curr)

\* Every timer that is started is in the end stopped or handled: neither the
\* cached next_expiration, nor the re-arming of others, nor the walk loses it.
EveryTimerIsHandled ==
  \A n \in Node : node[n].in_store \/ n \in expired ~> ~node[n].in_store /\ n \notin expired
===============================================================================
