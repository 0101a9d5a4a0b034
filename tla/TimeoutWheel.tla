----------------------------- MODULE TimeoutWheel ----------------------------
(***************************************************************************)
(* A client of timeout.c: it opens and closes the wheel, adds, deletes and   *)
(* re-adds its timeouts, moves the clock forward and back, takes expired     *)
(* timeouts and iterates, deleting only the timeout it was just given, as    *)
(* timeout.h asks.                                                           *)
(***************************************************************************)
EXTENDS Timeouts

CONSTANTS
  Clients,   \* how the wheel is driven: records of
             \*   timeouts  the timeouts it uses
             \*   times     what it sets the clock to; Max(times) bounds the clock
             \*   delays    arguments of timeouts_add
             \*   steps     arguments of timeouts_step
             \*   seconds   arguments of timeouts_addf
             \*   flags     the flags it initialises timeouts with
             \*   iterate   the flags of its iterations
  HZ

VARIABLES
  client,  \* the client that runs
  T,       \* the wheel and the timeouts
  open,    \* whether the wheel is open
  it,      \* the iteration in progress, "none" when there is none
  seen,    \* the timeouts it has yielded
  want     \* the timeouts it must yield, ghost

vars == <<client, T, open, it, seen, want>>
NoIt == [TIMEOUTS_IT({}) EXCEPT !.pc = "none"]
iteration == <<it, seen, want>>
Idle == open /\ it.pc = "none"

Init ==
  /\ client \in Clients
  /\ T = timeouts_init([x \in Timeout |-> timeout_init({})], HZ)
  /\ open = TRUE /\ it = NoIt /\ seen = <<>> /\ want = {}

timeouts_open ==
  /\ ~open /\ open' = TRUE
  /\ T' = timeouts_init(T.to, HZ)
  /\ UNCHANGED <<client, iteration>>

timeouts_close ==
  /\ Idle /\ open' = FALSE
  /\ T' = timeouts_init(timeouts_reset(T), HZ)
  /\ UNCHANGED <<client, iteration>>

\* Only a timeout that is on no list may be initialised again.
InitTimeout(x, flags) ==
  /\ it.pc = "none" /\ T.to[x].pending = NULL
  /\ T' = [T EXCEPT !.to[x] = timeout_init(flags)]
  /\ UNCHANGED <<client, open, iteration>>

Add(x, timeout) ==
  /\ Idle /\ T' = timeouts_add(T, x, timeout)
  /\ UNCHANGED <<client, open, iteration>>

AddF(x, f) ==
  /\ Idle /\ T' = timeouts_addf(T, x, f)
  /\ UNCHANGED <<client, open, iteration>>

\* During an iteration only the timeout just yielded may be deleted.
Del(x) ==
  /\ open /\ it.pc # "none" => it.pc # "done" /\ seen # <<>> /\ x = Last(seen)
  /\ T' = timeouts_del(T, x)
  /\ UNCHANGED <<client, open, iteration>>

Update(curtime) ==
  /\ Idle /\ T' = timeouts_update(T, curtime)
  /\ UNCHANGED <<client, open, iteration>>

Step(elapsed) ==
  /\ Idle /\ T.curtime + elapsed <= Max(client.times)
  /\ T' = timeouts_step(T, elapsed)
  /\ UNCHANGED <<client, open, iteration>>

Get ==
  /\ Idle /\ timeouts_expired(T) /\ T' = timeouts_get(T)
  /\ UNCHANGED <<client, open, iteration>>

\* It must yield the timeouts on the lists its flags name.
Iterate(flags) ==
  /\ Idle /\ it' = TIMEOUTS_IT(flags) /\ seen' = <<>>
  /\ want' = {x \in Timeout : \/ "EXPIRED" \in flags /\ timeout_expired(T, x)
                              \/ "PENDING" \in flags /\ timeout_pending(T, x)}
  /\ UNCHANGED <<client, T, open>>

TakeNext ==
  /\ it.pc \notin {"none", "done"}
  /\ LET r == timeouts_next(T, it)
     IN  /\ T' = r.T /\ it' = r.it
         /\ seen' = IF r.yield = NoTimeout THEN seen ELSE Append(seen, r.yield)
  /\ UNCHANGED <<client, open, want>>

EndIteration ==
  /\ it.pc = "done"
  /\ it' = NoIt /\ seen' = <<>> /\ want' = {}
  /\ UNCHANGED <<client, T, open>>

Next ==
  \/ timeouts_open \/ timeouts_close \/ Get \/ TakeNext \/ EndIteration
  \/ \E x \in client.timeouts, flags \in client.flags : InitTimeout(x, flags)
  \/ \E x \in client.timeouts, timeout \in client.delays : Add(x, timeout)
  \/ \E x \in client.timeouts, f \in client.seconds : AddF(x, f)
  \/ \E x \in client.timeouts : Del(x)
  \/ \E curtime \in client.times : Update(curtime)
  \/ \E elapsed \in client.steps : Step(elapsed)
  \/ \E flags \in client.iterate : Iterate(flags)

Spec == Init /\ [][Next]_vars

(***************************************************************************)
(* Properties.                                                              *)
(***************************************************************************)
\* Each timeout is on exactly the list its pending field names, knows its
\* wheel while it is on one, and a slot's bit is set exactly when the slot is
\* populated: through deletions from the middle, cascades and iterations.
ListsAndBitsAgree ==
  /\ \A w \in Wheels, s \in Slots :
       /\ s \in T.pending[w] <=> T.wheel[w][s] # <<>>
       /\ \A x \in Timeout : T.to[x].pending = <<w, s>> <=> x \in ToSet(T.wheel[w][s])
       /\ IsInjective(T.wheel[w][s])
  /\ \A x \in Timeout : timeout_expired(T, x) <=> x \in ToSet(T.expired)
  /\ IsInjective(T.expired)
  /\ \A x \in Timeout : T.to[x].timeouts <=> T.to[x].pending # NULL

\* timeouts_check, as the benchmark of the wheel asserts it: no timeout left on
\* the wheel is due, and no caller is told to wait past the first deadline.
CheckHolds == timeouts_check(T)

\* A move of the clock expires exactly the timeouts whose deadline has come,
\* however far it goes and through however many wheels they cascade, and
\* leaves the deadlines alone; a move back expires none.
UpdatesExpireTheDue ==
  [][T'.curtime # T.curtime /\ open' =>
       \A x \in Timeout :
         /\ T'.to[x].expires = T.to[x].expires
         /\ timeout_expired(T, x)' <=> \/ timeout_expired(T, x)
                                       \/ timeout_pending(T, x) /\ T.to[x].expires <= T'.curtime]_vars

\* An interval timeout that is taken is armed for the first multiple of its
\* interval, counted from the firing it had, that is still to come, however
\* late it was taken.
IntervalsKeepPhase ==
  [][Get => LET x == Head(T.expired)
            IN  "INT" \in T.to[x].flags =>
                  /\ T'.to[x].expires > T'.curtime
                  /\ (T'.to[x].expires - T.to[x].expires) % T.to[x].interval = 0
                  /\ \/ T'.to[x].expires = T.to[x].expires + T.to[x].interval
                     \/ T'.to[x].expires <= T'.curtime + T.to[x].interval]_vars

\* An iteration yields every timeout its flags ask for, and none twice but
\* the interval timeouts that clearing the expired queue armed again, though
\* the client deletes what it is given.
IterationIsComplete ==
  it.pc = "done" =>
    /\ ToSet(seen) = want
    /\ \A i, j \in DOMAIN seen :
         i < j /\ seen[i] = seen[j] => "INT" \in T.to[seen[i]].flags /\ "CLEAR" \in it.flags
===============================================================================
