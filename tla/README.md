# Lawn, modelled in TLA+

A verification development for the timer stores of this repository: `src/lawn.c`, its allocation-lean
rewrite `src/lawn2.c`, the hash map `src/utils/hashmap.c` under `lawn.c`, the stores they are compared
with in `src/benchmarks/c/impl`, and the timer wheels the article compares them with, in
`article/src/c/wheel`: W. Ahern's `timeout.c` and the timer code of the Linux and BSD kernels. Source paths
below are relative to the repository root.

## The system

A *lawn* holds timers in one first-in first-out queue per TTL. Nothing ever sorts a queue: two timers of
the same TTL expire in the order they were added, provided the clock does not go back. A poll looks at the
head of each queue, takes what is due and stops at the first node that is not. A cached earliest
expiration lets most polls return at once. What makes this hard to get right is redundancy: the same
fact ("this node is in the store and is the earliest") is kept in flags, links, counters, maps and
caches, each updated by several functions and some on purpose left stale.

| Component | State | Operations | Interacts through | What can go wrong |
|---|---|---|---|---|
| lawn2 store (`src/lawn2.c`, `src/lawn2.h`) | clock, blades (queues), live list, `live`, `next_expiration`, fields of the callers' nodes | add, del, tick, advance, set_now | nodes owned by the caller; the list of expired nodes shares their `next` | a stale `next_expiration` hides a due timer; a blade lost from the live list; an unsorted blade; 64-bit edges |
| lawn2 table and links | open-addressing table of blades, `live_prev/next`, `next/prev` | find_slot, grow, live_link, live_unlink | pointers into a table that `grow` frees | dangling live links, a probe that never ends, a TTL with two blades |
| lawn store (`src/lawn.c`, `src/lawn.h`) | two hash maps, `next_expiration`, nodes owned by the lawn | set, del, next_at, pop_next, pop_expired, freeNode | wall clock, hash map, nodes handed to the client | an element set twice, a failed insertion, a map entry to a freed node, a drifting `queue->len` |
| element queues | head, tail, len, links | queuePush, _queuePull, _queuePop, freeQueue | the queue `pop_expired` returns is the client's | wrong tail after a pull, links of popped nodes |
| hash map (`src/utils/hashmap.c`) | chains, capacity, size | insert (4 strategies), find, delete, free | keys are pointers owned by the callers' objects | stale bucket after a grow, failure after a grow, dangling keys |
| clock (`src/utils/millisecond_time.c`) | wall clock | current_time_ms | read by `NewNode` and `pop_expired` | steps back |
| cts vtable and adapters (`src/benchmarks/c`) | a logical clock per store, `g_cts_now` | start, stop, tick, size, advance | harness | shared clock of the lawn adapter |
| baselines: heap, single-level wheel, cascading wheel, wahern adapter | arrays with an id index, a `struct timeouts` | the vtable | harness | swap-removal, cascades at boundaries |
| event loop of `src/README_Lawn2.md` | the expired list, the node being handled | tick, handlers and socket events that re-arm or close | handlers change the nodes of the list being walked | a cut list, a timer never handled |
| tickless wheel (`timeout.c`, `timeout-bitops.c`) | slots of several wheels, a bit per slot, the expired list, the clock | add, del, update, step, get, iterate | timeouts owned by the caller | bits that lie, an update over more than a turn, intervals out of phase, an iterator whose node is deleted |
| Linux timer wheel (`linux_kern_timer.c`) | one base per CPU: clock, buckets, bitmap, running timer, idle state | mod, reduce, add_timer_on, del, del_timer_sync, msleep, softirq, idle, hotplug | base locks; flags read without them; IPIs to idle CPUs | a timer on two lists, a handler beside itself, a CPU asleep over a timer, a deletion that returns too early |
| BSD callouts (`bsd_kern_timeout.c`) | one `callout_cpu` per CPU: wheel, queue of the due, two execution entities | process, softclock, reset, stop, drain, async drain, migration | CPU locks, the callout's own lock, sleep queues | a lost wakeup, a callout stopped but run, a scan that loses its place |
| concurrency benchmark | shards with a mutex, stop flag | worker threads | threads | lock discipline |

The adapters of the lawns, the concurrency benchmark, the Python prototype `src/lawn.py`, the measurement
harness and the article are not modelled (reasons at the end).

## Modules

| Module | Models |
|---|---|
| `TimerStore` | what every store promises: pending timers, and a poll that hands over exactly those due |
| `Lawn2` | `lawn2.c`, a blade as a sequence, the live list as a set |
| `Lawn2Links` | `lawn2.c` with its table, growth and links; implements `Lawn2`, hence `TimerStore` |
| `Lawn` | `lawn.c`, a queue as a sequence, the maps as functions |
| `LawnQueue` | the linked queues of `lawn.c`, the returned ones too |
| `Dictionary` | what a caller sees of the hash map: the objects of each key and which of them stands in front |
| `HashMap` | `hashmap.c`, a chain as a sequence; implements `Dictionary` |
| `Heap`, `NaiveWheel`, `WheelExact` | `heap.c`, `naive.c` and `wheel_exact.c`, each call as an operator on the store |
| `Wahern` | `wahern.c`, the adapter around `timeout.c` |
| `Baselines` | the four stores under the same calls; each implements `TimerStore` |
| `Lawn2Loop` | the event loop of `src/README_Lawn2.md` over `Lawn2Links` |
| `BitOps`, `Timeouts` | `timeout-bitops.c` and `timeout.c`, each function as an operator on the wheel |
| `TimeoutWheel` | a client of `timeout.c` |
| `LinuxWheel`, `LinuxTimer` | `linux_kern_timer.c`: what is done to a base under its lock, and the contexts that interleave between locks |
| `CalloutWheel`, `Callouts` | `bsd_kern_timeout.c`, split the same way |
| `Iteration` | a loop run a given number of rounds, as the functions that are proved about need it |
| `SeqLemmas` | lemmas on sequences, powers of two and loops that the proofs share |
| `Lawn2Proofs`, `Lawn2LinksProofs`, `LawnProofs`, `LawnQueueProofs`, `HashMapProofs`, `LinuxProofs`, `CalloutProofs` | the proofs about `Lawn2`, `Lawn2Links` and `Lawn2Loop`, `Lawn`, `LawnQueue`, `HashMap`, `LinuxTimer` and `Callouts` |
| `MC*` | constants, hashes and symmetry for TLC |

**Lawn2.** Variables are the fields of `struct lawn2` and `lawn2_timer`; `queue[k]` is the blade of TTL k
from head to tail, `live_blades` the TTLs on the live list, `out_head` the nodes the last call returned.
`lawn2_add`, `lawn2_del`, `lawn2_tick`, `lawn2_advance` and `lawn2_set_now` have the guards the code has
and no others. The obligations of callers are in the `Client...` actions: a node is not added while it
is in the store (README_Lawn2.md asks to check `in_store`), `lawn2_set_now` does not go back, and
`now + ttl` fits in 64 bits. `UINT64_MAX` is a constant, so that the last tick and the empty value of
`next_expiration` are inside the model. `collect_expired` is part of the tick and of the advance.

**Lawn2Links.** A pointer to a blade is its index, so the pointers left after `grow` are visible as wrong
indices. `WalkLive` follows the live list with the saved `next_live`, unlinking drained blades on the way; it and
`grow` are rounds of `Iterate` over a record with the locals of the loop (`Walking`, `Popping`, `Rehashing`).
`Hash` stands for the leading bits of `ttl * GOLDEN`; the instance makes TTLs collide in the last slot.
`MaxBits` is the width of the hash. `LinksAssumption` asks that a table of that many bits has room for all TTLs at the
code's load of 0.7, so that `grow` never goes past it (64 bits in the code).

**Lawn.** `owner[n]` is a history variable that says who holds a node: nobody, the lawn, the client, or,
after the first failure exit of `set_element_ttl`, nobody any more (leaked). Two constants describe the
surroundings: `MayFail` (insertions into the maps may fail) and `ClockBack` (the clock may be set back). `pop_expired` is one action with its early return;
`_get_next_node`'s order of iteration is open, so ties between queues are broken in every way. The
mapping of an empty queue is kept, because `_removeQueueFromMapping` looks for a key that is not there.

**LawnQueue.** `q` is a TTL queue, `r` the queue returned by `pop_expired`, `qseq` and `rseq` what they
should hold. The early returns of `_queuePull`, which leave `len` as it is, are modelled as they are. The
client pushes only nodes with clear links: `queuePush` does not reset `next`, and a node from `pop_next`
still points into the lawn.

**HashMap.** An entry is `[key, value]`. Callers store under key pointer p the object that owns p, so both
are p when the entry is made; `Str[p]` is the string or TTL the pointers are compared by. Both failure exits of
`hashmap__insert` are there: the failed `calloc`, and the failed `malloc` after the array has grown.
`hashmap_grow` is two loops, over the chains and over the entries of a chain (`Rehashing`, `Relinking`). `Hash` has
the `MaxBits` top bits of the mixed hash, of which `hash_bits` takes the first; an array with more bits is not made.
The mapping `Ahead` gives `Dictionary` the order of the objects of a key from the chains: the first is found, replaced and deleted, a new one
comes in front, and a grow turns the order around. So `Dictionary` is what the code does. It is not all that `hashmap.h` says: lines 77-79
promise that find returns the last inserted of several appended objects, which ends with the first grow; this is not claimed.
`Fresh` is the callers' part: no object is inserted while it is in the map.

**Baselines.** A store is a record of the fields of its `struct cts_store`, with `fired` for the count the
last tick returned. `Baselines` makes every call on the four stores at once, as the differential test of
`src/benchmarks/c/test.c` does one after the other. A timer is started only while it is not running, TTLs
are at least one tick (`gen_ttls` makes no others) and lie within the levels of the cascading wheel
(2^48 ticks in the code), and `advance` stays below every deadline, as its comments ask. `heap_tick`
takes the root as long as it is due, `we_tick` goes through the levels whose boundary is crossed.

**Lawn2Loop.** `curr` and `following` are the loop's node and saved `next`, `expired` the timers handed over
whose handler has not returned. Handlers and sockets use the same calls, `on_socket_activity` in two steps
(unlink, add) and `on_connection_close`. They leave alone the expired timers of *other* connections
(`Usable`): re-arming or freeing one of those breaks the walk, and the guide does not do it.

**Timeouts, TimeoutWheel.** A wheel's bits are the set of its populated slots; where the code shifts and
counts bits of the word, `timeouts_update` and `timeouts_int` do so on the number (`Word`, `rotl`, `rotr`, `ctz`). Lists
are sequences, a timeout's `pending` names its list. `timeouts_int` is the time until the first slot that
may hold something due; `timeouts_check` is the code's own check. The client deletes during an iteration
only what it was just given, as `timeout.h` asks.

**LinuxWheel, LinuxTimer.** One step is what happens between taking a base lock and giving it up. What a
call reads before (whether the timer is pending, its flags) is kept in `call[p]` and is stale when used;
`lock_timer_base_ok` is the code's recheck. A timer that moves between bases is on neither for one step
(`migrating`). `__run_timers` stops at each handler, which runs without the lock and may set its own timer.
The buckets of a base are one array `vectors`, and `heads[l]` is the list that `collect_expired_timers` took from level l. The
loops of the code (over levels, buckets, CPUs and the timers of a bucket) are rounds of `Iterate`. `MayStart` is what
the comments ask of callers: nobody starts a timer that `del_timer_sync` waits for, and the caller of `add_timer_on` is
alone with its timer. `ScenariosAssumption` says only that the scenarios draw from the constants and that their bounds on
jiffies and on the lateness of the timer interrupt are numbers; a wheel has two levels or more (`LVL_DEPTH` is 8 or 9 in the code).
`asleep[c]` is the jiffy at which an idle CPU's hardware timer wakes it, `kick` the CPUs that were sent an
interrupt. `get_nohz_timer_target` may answer any CPU on line.

**CalloutWheel, Callouts.** Again one step per stretch under a `cc_lock`. An execution entity carries the
locals of the `softclock_call_cc` that uses it; its `pc` says where the lock is dropped: waiting for the
callout's lock, in the handler, in the drain function, in wakeup, in a migration. A scan that calls a direct
callout is suspended in `scan` and goes on from `cc_next`; its loop over buckets and callouts is made of rounds
(`ScanRound`) of `Iterate`. A draining thread has the steps of the code: look,
lock the sleep queue, look again, sleep, relock. `stopped` remembers the stops that returned 1. `MayReset` keeps callers
from setting a callout that is being drained, and the scenarios of `MCCallouts` satisfy
`HandlersStay`: no handler moves to another CPU what threads drain with `callout_drain`. The code does not ask for this, and without it
`DrainMeansGone` is false (see the limits below).

Operators whose name ends in `_mutant` are wrong versions of the operator that follows them. They are
not used by the specifications; each one, put in place of its original, makes TLC report the property it
is listed with in `PROJECT.json`.

## What the runs show

| Run | Shows |
|---|---|
| `lawn2_store` | in_store, blades, live list, counter and `next_expiration` agree through every order of calls up to the last 64-bit tick, and every poll hands over exactly what is due (`ImplementsTimerStore`) and leaves nothing due behind (`PollLeavesNothingDue`); an advance is one poll |
| `lawn2_links` | next and prev mirror each other, the live list is right after growth, every TTL is found in one slot and a slot is always free, and the links implement `Lawn2` |
| `lawn2_loop` | the walk meets each expired timer once though handlers link their nodes again, and every timer started is in the end stopped or handled |
| `lawn_memory` | in any surroundings no node is lost, freed while linked or reachable after it was handed over |
| `lawn_store` | with a clock that is not set back and no failed insertion, `next_at` is exact and `lawn.c` implements `TimerStore` with each node a timer, also when elements are set again |
| `lawn_queue_links` | links, head and tail spell what the queues, the returned ones too, should hold, `len` never falls below it, nothing is freed in use |
| `hashmap` | the map implements `Dictionary`, across grows and failures, and keeps no key of a replaced object |
| `baselines` | the heap stays ordered and all id indexes right, the four stores report the same counts and sizes, and each fires every timer on its exact tick |
| `timeout_wheel` | lists and bits agree, an update of any length expires exactly what is due, no caller is told to wait past a deadline, late intervals keep their phase, iterations meet everything once |
| `linux_timers` | a timer is on one list, the one its flags name, or moving; buckets are emptied on time whatever the clock skipped; idle CPUs wake in time; a handler never runs beside itself; when `del_timer_sync` or `msleep` returns the timer is gone |
| `callouts` | pending callouts are listed once; a stop that returned 1 cancels even a handler waiting for the lock; a drain means gone, where no handler moves what `callout_drain` drains; sleepers are woken; scan position and event timer survive what happens while a direct callout runs |
| `lawn_set_twice` (violation) | setting an element again does not update its timer but adds a second one |

The violation is a disagreement between the code and its comments; `PROJECT.json` quotes them.

### Known limits of the code that the runs work around

These are behaviours of the code met while modelling. Each is excluded by a stated assumption or left
unclaimed, and most are listed as hazards.

- `lawn.c:326`: when the element cannot be mapped the node is queued already, but `next_expiration` is not
  lowered; `next_at` is late until that timer is popped. `NextAtIsClosest` is claimed only where insertions
  succeed.
- `lawn.c:87`: `_removeQueueFromMapping` looks for the address of its argument, so that emptied queues stay mapped
  (and counted by `ttl_count`). This also hides that `pop_expired` iterates with the macro that is not safe
  against removals.
- `lawn.c:133`: expirations come from a clock that may step back; queues are then not sorted and timers fire late. Only the properties about
  memory (`lawn_memory`) are checked with such a clock.
- `lawn.c:189`: `queuePush` leaves `next` as it is, so that a node from `pop_next`, pushed on a client's queue, carries nodes of the
  lawn with it. The client of `LawnQueue` pushes only nodes with clear links.
- `hashmap.c:117`: `hashmap_grow` takes the entries of a chain front first and puts each in front of its new chain, which turns the order of the
  objects of an appended key around. With a1, b1 and a2 appended in one chain, a1 and a2 under one key, find gives a2, and after the next
  insertion, which grows the map, a1. So the promise of `hashmap.h:77-79`, "it will return last inserted key/value entry (first in a bucket chain)",
  does not outlast a grow; `Dictionary` states the order that the code gives (`Regrown`). `lawn.c` does not append.
- `linux_kern_timer.c:525`: the cutoff for far timers compares an absolute expiry with a distance (`InReach`).
- `linux_kern_timer.c:999`: the same-bucket shortcut of `__mod_timer` trusts a pending test made without the
  lock; a timer that was collected meanwhile gets a new expiry and no new bucket. The model has the race; no
  property claims that the new expiry is met.
- `linux_kern_timer.c:903`: a base asleep whose `next_expiry` was lowered to an expiry that has passed has its
  clock put back. `Tick` does not pass an expiry that a call is still to set, so that this does not happen in the
  model.
- `bsd_kern_timeout.c:1210`: a thread woken in `callout_drain` locks the CPU it slept on, although the callout may
  have run again and moved: the handler sets its callout on its own CPU, the drain sleeps and is woken, but before it gets the lock the callout
  fires again, moves to another CPU and runs there. The thread sees it neither running nor set on the old CPU and returns, although lines 1148-1150
  say that a drain waits until the callout finishes; or it takes the callout off a list whose lock it does not hold, which is not modelled (`Woken`
  has no such step). So `DrainMeansGone` does not hold of `callout_drain` and handlers that move: it is claimed under `HandlersStay` only, which
  `MCCallouts` asserts of its scenarios and the theorems have as hypothesis. `callout_async_drain` does not sleep, and is run with handlers that move.
- `bsd_kern_timeout.c:461`: a scan once round the wheel stops short of its last bucket; with a direct callout
  running in the middle, the event time it stores replaces an earlier one. The scenarios with direct callouts do not go round.

### Bounds

- *lawn2*: three nodes, TTLs 0, 2 and 3 and a clock of six ticks with `UINT64_MAX = MaxNow = 5`. Three
  nodes are the least for a middle node of a blade, and for two blades of which one has two nodes; TTL 0
  is due at once, and the clock outlasts the longest TTL, so that stale lower bounds, jumps and the last
  tick all occur. The proofs lift every one of these bounds.
- *lawn2 links*: first table of 2 slots (16 in the code), which grows to 8; colliding hashes make probes
  wrap around the end of the array.
- *event loop*: the same table, three nodes, TTLs 0 and 2, four ticks: two timers expire together while the
  third is re-armed, refreshed or closed.
- *lawn*: two elements, three nodes, `MaxLen` 3 on `queue->len`, which in the
  code drifts upwards without end when last nodes are pulled rather than popped.
- *queues*: four nodes, `MaxLen` 6, so that `len` exceeds the number of nodes.
- *hash map*: six key pointers for four strings, three of which share a chain; two grows.
- *baselines*: two scenarios. `Churn` starts three timers of 1, 2 or 5 ticks at any time and one id again;
  with a ring of 2 slots (256 in the code) and three levels of 2 slots (8 of 64) the ring grows to 4 and
  8, and timers cascade through two levels on one tick. `Bulk` starts six timers at once, the fewest for
  which the timer that fills a gap of the heap has to move up. `timeout.c` has the same three levels here.
- *tickless wheel*: two wheels of four slots in words of 8 bits. One client moves the clock to and fro, by less and more than
  a turn, under timeouts below and above `TIMEOUT_MAX`; the other fills slots and iterates over three timeouts.
  An assumption checks `clz` and `ctz` on every word, where the code's own test has five.
- *Linux*: three levels of four buckets (nine of 64), five scenarios: one CPU that sleeps long with timers on
  all levels; a timer set on CPUs that sleep; two CPUs, two tasks and a handler on one timer; two timers in one
  bucket, one deleted from the list being expired; a sleeper woken early and a CPU that leaves. Each bounds the
  jiffies, the calls of tasks (2 to 4) and how late a softirq comes (`lag`). Deadlock is not checked: time ends.
- *BSD*: a wheel of four buckets, five scenarios: a callout with a lock that is set, stopped, moved and
  drained asynchronously; one that two threads drain while its handler sets it again; one without a lock; two
  direct callouts in the buckets of a scan; near and far callouts with scans round the wheel. At most three calls of
  threads each. Deadlock is checked: time stops at its bound, but a CPU can always scan again.

`TimerStore` has a step that moves the clock and fires nothing, because `lawn2_set_now` and the wall clock
of `lawn.c` do. A poll that wrongly fires nothing would pass for it; `PollLeavesNothingDue`, `NextAtIsClosest`
and `NoneOverdue` are there for that.

Symmetry is used for nodes, elements and timeouts in safety runs only.

### Fairness

`lawn2_loop` assumes that a connection that was unlinked is added again (weak fairness: the next statement of
`on_socket_activity`), that every handler returns, and that the loop gets to its next tick, however often
sockets are active in between. The last two are strong fairness, as an active socket disables them for a moment; a single-threaded loop returns
to its tick after every batch of events. No fairness is assumed of sockets. As the model's clock is finite,
only timers due within it are started, and the last tick is the loop's.

No liveness is checked of the kernel wheels: their clocks are bounded, and the softirqs, threads and
interrupts that would have to be fair belong to the rest of the kernel. What is checked instead are the
safety facts that liveness rests on: a sleeper has its wakeup to come, an idle CPU its interrupt, a timer its bucket.

## What is proved

Everything below holds for every value of the constants that satisfies the named assumption of the module
(finite sets of nodes or timers, `NULL` outside them, positive sizes); the runs above are single instances of it.

**`Lawn2Proofs`** (`ConstantsAssumption`):

- `Lawn2Invariant`: `Spec => []Inv`, and from it `Lawn2TypeCorrect`, `Lawn2SelfSorted`,
  `Lawn2LowerBound` and `Lawn2Consistent`;
- `Lawn2ImplementsTimerStore`: `Spec => TimerStore`'s specification, under the refinement mapping that
  takes the pending timers from `in_store` and `expiration`;
- `Lawn2PollsFireAllDue`: no tick and no jump of the clock leaves a due timer in the store.

None of the properties is inductive alone. That blades stay sorted needs `DeadlineWithinTTL`: a timer
appended to blade k expires at `now + k`, and the last one there expires no later because no stored
deadline is further ahead than its own TTL (`DeadlineWithinTTL` is proved as a part of `Inv` only). That in turn needs `BladesHoldTheStore`, which says that the
nodes of blade k have TTL k. That a poll takes everything due needs the sorted blades (the loop stops
at the first head that is not due), the live list (an unlisted blade is not visited) and the lower bound
(for the early return). The count needs that the sets removed are subsets of the store. `Inv` is the conjunction;
`StoreIsConsistent`, which `Lawn2Consistent` proves and TLC checks, is its part about the membership of the store:
blades, live list and count. The steps: lemmas on `Minimum`, the expired prefix, the
remaining suffix and unlinking; `AddKeepsInv`, `DelKeepsInv` and `CollectKeepsInv`, one part of `Inv` at a
time; `CollectIsPoll` and `IdleIsSkip` for the refinement.

**`Lawn2LinksProofs`** (`LinksAssumption`), for any hashes and any first table of at least two slots: `Lawn2TableInvariant`
(`Spec => []TableInv`) and `Lawn2TableFindsEveryTTL`. `TableFindsEveryTTL` is not inductive: that probing for a TTL ends at its slot
is lost when another key is written, unless it is known that no probe before that slot met a free one. `Found` says this: the slot is the
first on the probe path at which the loop of `find_slot` stops. Slots never become free again, so a write to a free slot leaves
every such path as it was (`KeptStop`, `Put`). Growth starts from an empty table; each round moves a TTL that is not there
yet, as the old table had it once (`OneBladePerTTL`), and finds room because the new table has more slots than rounds were
made (`RehashOne`, `Growth`). The load after `grow` is below 0.7 again because the first table has at least two slots (`RoomMade`). Each used slot
has a TTL of its own, so that their number is bounded by the TTLs (`NoMoreThanTTLs`). Deletions and polls change links, heads and tails only
(`SameKeys`); for the walk of `collect_expired` this is shown loop in loop (`PopOne`, `PopAll`, `WalkAll`). `TableInv` also holds that live
links point into the table and that stored nodes have a TTL of the program, without which the walk or `lawn2_del` could write
anywhere.

On that base, `Lawn2MirrorInvariant` (`Spec => []MirrorInv`), `Lawn2LinksMirror` and `Lawn2LinksImplementsLawn2`: the linked
store implements `Lawn2`, and with `Lawn2ImplementsTimerStore` it implements `TimerStore`. `LinksMirror` speaks of lists
as `Follow` reads them, which says nothing of a link that is not met; a step can only be shown to keep the statement about
sequences. `MirrorInv` is `TableInv` and: there are sequences of nodes, one per TTL (`Mirrors`), such that the `next` and `prev` of
their nodes list them and every stored node is in that of its TTL (`Threads`), the head and tail of the TTL's slot are its ends (`Heads`),
and the live list lists in both directions the slots that are not empty (`LiveIs`, `LiveBut`).

- The lists: `ListAppend`, `ListPush` and `ListTake` are the three ways in which the code changes a doubly linked list; `FollowSpells` says
  that a list is read as its sequence.
- The calls: `GrowthLinks` (the live list is built anew while slots move), `AddMirrors`, `DelMirrors`. The inner loop of `collect_expired` takes
  the due nodes at the head of a blade (`DrainAll`); the outer one follows the saved `next_live` while it unlinks blades behind
  it, for which `VisitOne` needs that a visit leaves the links of the slots ahead as they are; `CollectMirrors` combines them.
- The refinement: the sequences are the queues of `Lawn2`, and each call is its call (`AddIsAdd`, `DelIsDel`, `CollectIsCollect`, `NextIsNext`). The
  nodes that the loops take are exactly the expired heads (`ExpiredHeadsIsDue`), and the bound they compute is the minimum (`LeastIsMinimum`).

`Lawn2LoopWalkMeetsTheExpired` is about `LoopSpec` of `Lawn2Loop`. The loop keeps `following` only, while handlers link the node
before it into a blade again, where `lawn2_add` writes its `next` and that of the blade's tail. `LoopInv` says that the
walk has a sequence before it whose nodes after the first are out of the store and linked to one another (`Ahead`), and that the
connection that is being added is not one of them (`Serves`). A call for one node leaves `next` of the other nodes that are out
of the store as it was (`AddLeavesOuts`, `DelLeavesOuts`); a tick leaves such a sequence of the nodes it took out (`TickHandsOver`).

**`LawnProofs`** (`ConstantsAssumption` of `Lawn`) has two layers.

- In any surroundings, failing allocations and a clock that is set back included: `LawnMemory`
  (`Spec => []MemoryInv`), and from it `LawnQueuesHoldOwnedNodes` and `LawnElementMap`. `MemoryInv` is the two
  checked invariants with the types: each is inductive only with the other, because `del_element_exp` finds its node through
  the map and its queue through the node.
- Under `Benign == ~MayFail /\ ~ClockBack`, stated as the theorems' hypothesis: `LawnOrder`, `LawnNextAt` and
  `LawnImplementsTimerStore`. `OrderInv` adds that queues are sorted, that no deadline is further ahead than its TTL (as
  in lawn2), and that `next_expiration`, when it is not 0, is the least deadline. `pop_expired` stops at
  the first head not due, so that it hands over all that is due only because the queues are sorted.
  Neither half of `Benign` can be dropped: `lawn.c:326` breaks `next_expiration`, a clock set back breaks the order.

**`LawnQueueProofs`** (`QueueAssumption`): `LawnQueueInvariant` (`Spec => []LinksInv`), `LawnQueueLinks` and
`LawnQueueFreed`. `QueueLinksHold` says how the links of each queue spell its sequence; to be kept by a step it needs that
no node is twice in a sequence, in both, or also with the client or free (`Fit` and the rest of `LinksInv`), since
otherwise a write to one queue's links would change another's. `Spans` says that a queue holds a *stretch* of a
sequence: then the loop of `pop_expired` moves the border between two stretches of one sequence, a round at a time (`PoppingRound`,
`PoppingRounds`). `_queuePullSpans` is the case analysis of `_queuePull`: it takes out the one node it is given, with each of its
early returns. `ReachedAreListed` bounds what `freeQueue` frees.

**`HashMapProofs`** (`HashMapAssumption`), for any keys, strings and hashes: `HashMapInvariant` (`Spec => []MapInv`),
`HashMapKeysAreOwned` and `HashMapImplementsDictionary`, the refinement of `Dictionary`. A lookup reads one
chain, so that it finds what is stored only if every entry is in the chain that its hash has under the present `cap_bits`;
and `sz` counts the objects only if none is in the array twice. `MapInv` says both, and that entries own their keys, without
which the chain of an entry would be that of a key that `Overwritten` has replaced. `ArrayPush`, `ArrayDrop` and
`ArrayOverwrite` are what the three writes to a chain do to the set of stored objects. `Growth` follows the two
loops: after k chains the new array has the objects of the first k chains, within a chain those of the entries passed
(`RelinkChain`). 
The order needs more. `Ahead` is read off the chains, in which objects of one key are neighbours only up to collisions (`ChainBefore`):
`PushOrder`, `DropOrder` and `OverwriteOrder` say what the writes to one chain do to it, and `ArrayPushOrder`, `ArrayDropOrder` and
`ArrayOverwriteOrder` that no other chain matters, as objects of one key have one hash. That a grow turns the order is an invariant of
the two loops (`TurnedChain`, `Turned`): in each new chain the entries taken from an old one stand the other way round.

**`LinuxProofs`** (`LinuxWheelAssumption`, `ScenariosAssumption`), for any number of CPUs, tasks, timers, levels and buckets:

- `LinuxInvariant` (`Spec => []LinuxInv`), `LinuxQueuedOnce`, `LinuxHandlersSerialised`;
- `LinuxSyncMeansGone`: the action property that a returning `del_timer_sync` or `msleep` leaves its timer on no list and
  its handler running nowhere.

`LinuxInv` has these parts. `Typed`. `Placed`: every timer is on one list at most, and the list it is on is the one that its flags and its bucket
name, in a bucket whose bit is set. `HandlersAtHome`: a CPU runs a handler only of a timer whose flags name that CPU and that is not
migrating, which is why two CPUs never run one handler and why `try_to_del_timer_sync` may look at one base only. It is
kept because `__mod_timer` does not move a timer off the base that runs it. `OneMover`: a migrating timer is in
the hands of one call, as the others wait in `lock_timer_base`; otherwise two calls would enqueue it.
`AddOnAlone`: `add_timer_on` does not recheck under the lock, so that its timer must still be idle. `CallsStand` and `Targets`
say what a call remembers between two locks. The functions of `LinuxWheel` that run under a lock are shown to keep `Placed`,
loops by `Iterates` (each round keeps a set of states), then each action of `LinuxTimer` is treated part by part.
`SyncGoesOn` shows that only `try_to_del_timer_sync` ends a synchronous deletion.

The clocks of the Linux wheel, under the hypothesis `Punctual`:

- `LinuxTimeInvariant` (`Spec => []TimeInv`), `LinuxBucketsOnTime`, `LinuxIdleCpuWakes`.

`Punctual` says of the scenarios what the code does not secure. No timer is set for the current jiffy: `trigger_dyntick_cpu`
would lower `next_expiry` to it and the next `forward_timer_base` (line 903) could put the clock back. And no CPU goes off line
unless all expiries are below the cutoff: line 525 takes an absolute expiry for a distance, which an off-line base, whose clock stands still,
would show. `MCLinuxTimer` asserts it of its scenarios. The argument begins with arithmetic: `FirstTickFacts` says that the tick at
which a bucket is emptied (`EmptiedAt`) is the first multiple of its level's granularity that the bucket stands for, `EmptiedAtStays` that the clock
may advance up to it without changing it, and `PlacedInTime` that `calc_wheel_index`, on each of its branches, chooses for an expiry within reach of the wheel (`InReach` in the model) a
bucket that is emptied at or after the expiry and within one granule of it. `TimeInv` then adds to `LinuxInv` what keeps the
clock in these limits. `Forwardable`: a base whose clock may be forwarded has `next_expiry` no later than
any of its buckets, so that `forward_timer_base` cannot pass one. `Close` and `Reached`: a base is not so far behind that a timer
falls off the wheel. `Sleeps`: a CPU whose tick is stopped wakes for `next_expiry`, or is being woken. `CallInTime`: what a call
carries from one lock to the next is still in the future when it is used. `BaseIsInTime` and `SameElsewhere` say
that a step concerns one base; the theorems follow from `OnTime`, `Forwardable` and `Sleeps`.

**`CalloutProofs`** (`CalloutWheelAssumption`, `NoneIsNeither`, `ScenariosAssumption`), for any number of CPUs,
threads, callouts and buckets, all under the hypothesis `HandlersStay`, without which `DrainMeansGone` is false:

- `CalloutInvariant` (`Spec => []CalloutInv`), and from it `CalloutPendingMeansListed`, `CalloutScanStaysInBucket`,
  `CalloutStopMeansCancelled` and `CalloutSleepersAreWoken`;
- `CalloutDrainMeansGone`: the action property that a callout whose drain returns is on no list and runs nowhere.

The main part of `CalloutInv`, `Sound`, has one part for each thing that a step can disturb:

- For each callout, `Fine`. `Linked`: it is on the list that its fields name, and on no other. `Running`: at most one entity has it, that of
  the CPU in its `c_cpu`, and the entity's flags agree with the callout's (`Current`); a deferred migration is only in the
  hands of that entity. `Moved`: a callout whose CPU is `CPUBLOCK` has one mover, since two would put it on two lists.
  `Kept`: after a stop that returned 1 the callout is on no list, and an entity that still has it will not call the handler.
- For each CPU, `Tidy`: no list has a callout twice, and while a direct callout runs, `cc_next` is in the bucket of the suspended
  scan. That needs the duplicate-free lists, as `callout_cc_del` moves `cc_next` on by one element only.
- For each entity, `Steady`, which ties its locals to the place at which it dropped the lock.
- For each call of a thread, `Drains`: from before it sleeps until it looks again, a draining thread
  knows the entity that runs its callout, and that entity will wake it (`WakeupToCome`). The second look under the sleep queue's lock establishes
  this; `softclock_call_cc` keeps it because it does not clear `cc_exec_waiting` without going on to the wakeup. `HandlersStay` and
  `Apart` (nobody but its handler resets what is drained) are needed here: otherwise the callout could leave the CPU that the thread
  will lock.

`Alike` says that a step leaves a callout, its lists and its entity alone, so that each action has to be treated for
one callout and one entity (`AlikeFine`); what changes lists only, fields only, or one entity only has a lemma each. The scan
keeps `Sound` round by round (`ScanKeeps`, by `Iterates`).

`SeqLemmas` has what these share: the least number of a set, prefixes and suffixes of a sequence, a sequence with one member
taken out, powers of two, and the rule for loops (`IterateRounds`, `IteratesThrough`, `Iterates`).

### Only model-checked

- Liveness under fairness (`lawn2_loop`): out of the prover's reach.
- `Callouts.EventTimerIsInTime`: that the event time a scan stores is no later than any callout it passed is arithmetic on
  buckets modulo the size of the wheel, and it depends on scans not going round it (`bsd_kern_timeout.c:461`).
- `Baselines`: the sifting of `Heap` is recursive, which the prover does not take.
- `TimeoutWheel`: its invariants rest on rotations and bits of machine words, which are sums of powers of two here.

## Not modelled, and assumptions

- `malloc` and `calloc` failures that the code does not test for (`NewNode`, `newQueue`, `lawn2_new`,
  `grow`).
- Callers of lawn2 that add a linked node, set the clock back or pass a TTL that overflows: the code does
  not defend itself, and the blade order or the links do not survive them.
- A clock that is set back, for the properties about order in `Lawn` (`lawn_memory` has it).
- `hashmap__clear` leaves `map->buckets` dangling; `lawn.c` frees the map right after.
- Hash functions, string handling and formatting.
- The adapters of `lawn.c` and `lawn2.c` and the blocks of `timer_for`, which forward and index; the workers of the concurrency benchmark,
  which hold one shard's lock for a whole step; `src/lawn.py`, a prototype of `lawn.c` without a cache.
- `timeout.c`: builds without intervals or relative access, words of other sizes.
- Linux: the deferrable base, PREEMPT_RT, hrtimer sleeps (`usleep_range`), rounding of jiffies, sysctl and
  debug objects; jiffies does not wrap. Callers of `del_timer_sync` prevent the timer from being set again, as
  its comment asks.
- BSD: times relative to the last hardclock in `callout_when`, Giant, the APM adjustment, profiling, sysctls
  and debugger commands; shared and read-mostly locks are exclusive. A callout is reset with the same flags each
  time, and nobody but its handler resets a callout that is being drained.

## Plan

1. `Callouts`: `EventTimerIsInTime` for scans that do not go round the wheel.
2. `Heap` written with `Iterate`, so that the refinement of `TimerStore` by the heap can be proved; that lists and bits
   of `TimeoutWheel` agree.
