------------------------------ MODULE Baselines ------------------------------
(***************************************************************************)
(* The stores lawn is compared with, a heap, a single-level wheel, a          *)
(* cascading wheel and timeout.c, driven by the same calls, as               *)
(* src/benchmarks/c/test.c drives them.  Timers are numbered in the order they are first started, as *)
(* the harness numbers them; an id is used again when its timer has fired or *)
(* was stopped, as the workers of concurrent.c do.                           *)
(***************************************************************************)
EXTENDS Integers, Sequences, FiniteSets

CONSTANTS
  N,         \* number of ids
  MaxNow,    \* bound on the clock
  Scenario,  \* how the stores are driven: records of
             \*   timers    how many timers are started
             \*   ttl       their durations; gen_ttls makes none below 1
             \*   restarts  how often an id is used again
             \*   preload   whether all are started before anything else
  MinSlots, LVL_BITS, NUM_LEVELS, NoTimeout

Id == 1 .. N

H == INSTANCE Heap
R == INSTANCE NaiveWheel
W == INSTANCE WheelExact
A == INSTANCE Wahern WITH
       Timeout <- Id, WHEEL_BIT <- LVL_BITS, WHEEL_NUM <- NUM_LEVELS, WordLog <- 3

ASSUME BaselinesAssumption ==
  /\ N \in Nat /\ MaxNow \in Nat
  /\ \A s \in Scenario :
       /\ s.timers \in 0 .. N /\ s.restarts \in Nat /\ s.preload \in BOOLEAN
       /\ s.ttl \subseteq 1 .. (2 ^ (LVL_BITS * NUM_LEVELS) - 1)

VARIABLES
  heap, ring, wheel, tickless,  \* the four stores
  scenario,                     \* the scenario that runs
  started,                      \* timers started so far
  restarts                      \* ids used again so far

driver == <<scenario, started, restarts>>
vars == <<heap, ring, wheel, tickless, driver>>

Running(id) == heap.pos[id] > 0

\* fired is the count the last call returned; only a tick returns one.
Quiet(s) == [s EXCEPT !.fired = 0]

Init ==
  /\ heap = H!heap_create /\ ring = R!naive_create /\ wheel = W!we_create
  /\ tickless = A!wahern_create
  /\ scenario \in Scenario /\ started = 0 /\ restarts = 0

Start(id, ttl) ==
  /\ ~Running(id)
  /\ heap' = Quiet(H!heap_start(heap, id, ttl))
  /\ ring' = Quiet(R!naive_start(ring, id, ttl))
  /\ wheel' = Quiet(W!we_start(wheel, id, ttl))
  /\ tickless' = Quiet(A!wahern_start(tickless, id, ttl))

\* The next timer is started.
StartNew(ttl) ==
  /\ started < scenario.timers
  /\ Start(started + 1, ttl)
  /\ started' = started + 1
  /\ UNCHANGED <<scenario, restarts>>

\* An id that has fired or was stopped is used again.
Restart(id, ttl) ==
  /\ id <= started /\ restarts < scenario.restarts
  /\ Start(id, ttl)
  /\ restarts' = restarts + 1
  /\ UNCHANGED <<scenario, started>>

Stop(id) ==
  /\ heap' = Quiet(H!heap_stop(heap, id))
  /\ ring' = Quiet(R!naive_stop(ring, id))
  /\ wheel' = Quiet(W!we_stop(wheel, id))
  /\ tickless' = Quiet(A!wahern_stop(tickless, id))
  /\ UNCHANGED driver

Tick ==
  /\ heap.now < MaxNow
  /\ heap' = H!heap_tick(heap)
  /\ ring' = R!naive_tick(ring)
  /\ wheel' = W!we_tick(wheel)
  /\ tickless' = A!wahern_tick(tickless)
  /\ UNCHANGED driver

\* "target stays below every live deadline so nothing is due" (heap.c).
Advance(target) ==
  /\ target > heap.now
  /\ \A i \in DOMAIN heap.heap : target < heap.heap[i].expire
  /\ heap' = Quiet(H!heap_advance(heap, target))
  /\ ring' = Quiet(R!naive_advance(ring, target))
  /\ wheel' = Quiet(W!we_advance(wheel, target))
  /\ tickless' = Quiet(A!wahern_advance(tickless, target))
  /\ UNCHANGED driver

\* test.c starts every timer before it stops or ticks.
Loaded == scenario.preload => started = scenario.timers

Next ==
  \/ \E ttl \in scenario.ttl : StartNew(ttl)
  \/ \E id \in Id, ttl \in scenario.ttl : Loaded /\ Restart(id, ttl)
  \/ \E id \in Id : Loaded /\ Stop(id)
  \/ Loaded /\ Tick
  \/ \E target \in 1 .. MaxNow : Loaded /\ Advance(target)

Spec == Init /\ [][Next]_vars

(***************************************************************************)
(* Properties.                                                              *)
(***************************************************************************)
\* The heap is ordered and its index is the inverse of its array, through
\* removals from any place (heap_stop moves the last timer into the gap).
HeapOrdered ==
  /\ \A i \in DOMAIN heap.heap :
       /\ heap.pos[heap.heap[i].id] = i
       /\ i > 1 => heap.heap[i \div 2].expire <= heap.heap[i].expire
  /\ Cardinality({id \in Id : Running(id)}) = Len(heap.heap)

\* In both wheels the index of an id leads to its place, although the last
\* id of a slot changes place whenever another one leaves.
WheelsIndexed ==
  /\ \A idx \in DOMAIN ring.slots : \A j \in DOMAIN ring.slots[idx] :
       LET id == ring.slots[idx][j] IN ring.id_slot[id] = idx /\ ring.id_pos[id] = j
  /\ \A l \in DOMAIN wheel.levels : \A idx \in DOMAIN wheel.levels[l] :
       \A j \in DOMAIN wheel.levels[l][idx] :
         LET id == wheel.levels[l][idx][j]
         IN  wheel.id_lvl[id] = l /\ wheel.id_idx[id] = idx /\ wheel.id_pos[id] = j

\* The differential test of test.c: in every tick the stores report the same
\* number of expired timers, and at any time the same size.
StoresAgree ==
  /\ heap.fired = ring.fired /\ heap.fired = wheel.fired /\ heap.fired = tickless.fired
  /\ H!heap_size(heap) = R!naive_size(ring) /\ H!heap_size(heap) = W!we_size(wheel)
  /\ H!heap_size(heap) = A!wahern_size(tickless)

HeapPending == {<<heap.heap[i].id, heap.heap[i].expire>> : i \in DOMAIN heap.heap}
RingPending == {<<id, ring.id_expire[id]>> : id \in {x \in Id : ring.id_slot[x] >= 0}}
WheelPending == {<<id, wheel.id_expire[id]>> : id \in {x \in Id : wheel.id_lvl[x] >= 0}}
TicklessPending == {<<id, tickless.T.to[id].expires>> : id \in {x \in Id : tickless.timers[x]}}

\* No store keeps a timer that is due: with the refinements below, each timer
\* fires on its exact tick, "and only then" (test.c).
NoneOverdue ==
  \A p \in HeapPending \cup RingPending \cup WheelPending \cup TicklessPending : p[2] > heap.now

HTS == INSTANCE TimerStore WITH
  Timer <- Id, TTL <- UNION {s.ttl : s \in Scenario}, Time <- 0 .. MaxNow, now <- heap.now, pending <- HeapPending, delivered <- {}
RTS == INSTANCE TimerStore WITH
  Timer <- Id, TTL <- UNION {s.ttl : s \in Scenario}, Time <- 0 .. MaxNow, now <- ring.now, pending <- RingPending, delivered <- {}
WTS == INSTANCE TimerStore WITH
  Timer <- Id, TTL <- UNION {s.ttl : s \in Scenario}, Time <- 0 .. MaxNow, now <- wheel.now, pending <- WheelPending, delivered <- {}
ATS == INSTANCE TimerStore WITH
  Timer <- Id, TTL <- UNION {s.ttl : s \in Scenario}, Time <- 0 .. MaxNow, now <- tickless.now, pending <- TicklessPending, delivered <- {}

\* Each store keeps the promise of a timer store: the heap also after timers
\* left from the middle; the ring, which fires a slot without looking at its
\* deadlines, also after growth and a jump of the clock; the cascading wheel
\* through cascades of several levels at once, also those we_advance passes;
\* and the tickless one, which meets the same boundaries in one update.
StoresImplementTimerStore == HTS!Spec /\ RTS!Spec /\ WTS!Spec /\ ATS!Spec
===============================================================================
