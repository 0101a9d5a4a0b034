-------------------------------- MODULE Lawn2 --------------------------------
(***************************************************************************)
(* src/lawn2.c: a timer store with one first-in first-out queue ("blade")   *)
(* per TTL.  The queues are sequences and the list of non-empty blades is a *)
(* set here; module Lawn2Links keeps the links, the open-addressing table   *)
(* and the order of the lists, and is checked to implement this module.     *)
(*                                                                          *)
(* The operators named after C functions have no guard beyond the code's    *)
(* own tests.  What the code leaves to its callers is in the Client actions *)
(* of Next: a node is not added while it is in the store, the clock is not  *)
(* set back, and now + ttl stays below 2^64.                                *)
(***************************************************************************)
EXTENDS Naturals, Sequences, FiniteSets

CONSTANTS
  Node,        \* caller-owned lawn2_timer structs
  TTL,         \* durations the clients use
  UINT64_MAX,  \* largest value of a uint64_t
  MaxNow       \* bound: the last tick of the service's lifetime

ASSUME ConstantsAssumption ==
  /\ IsFiniteSet(Node)
  /\ UINT64_MAX \in Nat
  /\ MaxNow \in 0 .. UINT64_MAX
  /\ TTL \subseteq 0 .. UINT64_MAX

VARIABLES
  now,              \* l->now
  queue,            \* the blade of each TTL, from head to tail
  live_blades,      \* the TTLs of the blades linked into l->live_head
  live,             \* l->live
  next_expiration,  \* l->next_expiration
  ttl,              \* n->ttl of each node
  expiration,       \* n->expiration of each node
  in_store,         \* n->in_store of each node
  out_head          \* the nodes on the list the last call returned

nodeVars == <<ttl, expiration, in_store>>
bladeVars == <<queue, live_blades>>
vars == <<now, bladeVars, live, next_expiration, nodeVars, out_head>>

InStore == {n \in Node : in_store[n]}

\* uint64_t addition.
Add64(a, b) == IF a + b <= UINT64_MAX THEN a + b ELSE a + b - (UINT64_MAX + 1)

(***************************************************************************)
(* The steps the functions are made of.  An operator whose name ends in     *)
(* _mutant is a wrong version of the one below it, a bug this code could    *)
(* have; the properties are shown to notice it.                             *)
(***************************************************************************)
Expiration(k) == Add64(now, k)

Enqueue_mutant(q, n) == <<n>> \o q

\* The node is appended at the tail of the blade.
Enqueue(q, n) == Append(q, n)

Lowered_mutant(bound, exp) == bound

\* A new expiry lowers the bound on the earliest one.
Lowered(bound, exp) == IF exp < bound THEN exp ELSE bound

live_unlink_mutant(k) == live_blades

\* The live list without the blade of TTL k, and with it.
live_unlink(k) == live_blades \ {k}

live_link(k) == live_blades \cup {k}

\* in_store once the nodes in gone have left.
Cleared(gone) == [n \in Node |-> in_store[n] /\ n \notin gone]

Uncounted_mutant(gone) == live - 2 * Cardinality(gone)

\* The live counter once the nodes in gone have left.
Uncounted(gone) == live - Cardinality(gone)

\* Queue q with node n taken out by its links.
Unlink(q, n) ==
  LET at == CHOOSE i \in DOMAIN q : q[i] = n
  IN  [i \in 1 .. (Len(q) - 1) |-> IF i < at THEN q[i] ELSE q[i + 1]]

Expired_mutant(n, t) == expiration[n] < t

Expired(n, t) == expiration[n] <= t

\* How many nodes the inner loop of collect_expired takes from the head of
\* q: it stops at the first one that has not expired by t.
ExpiredHeads(q, t) ==
  CHOOSE d \in 0 .. Len(q) :
    /\ \A i \in 1 .. d : Expired(q[i], t)
    /\ d < Len(q) => ~Expired(q[d + 1], t)

\* The queue left when that loop has run.
Drained(q, t) ==
  SubSeq(q, ExpiredHeads(q, t) + 1, Len(q))

Minimum(S) == CHOOSE m \in S : \A x \in S : m <= x

Init ==
  /\ now = 0
  /\ queue = [k \in TTL |-> <<>>]
  /\ live_blades = {}
  /\ live = 0
  /\ next_expiration = UINT64_MAX
  /\ ttl = [n \in Node |-> 0]
  /\ expiration = [n \in Node |-> 0]
  /\ in_store = [n \in Node |-> FALSE]
  /\ out_head = {}

lawn2_add(n, k) ==
  LET exp == Expiration(k)
      was_empty == queue[k] = <<>>
  IN  /\ ttl' = [ttl EXCEPT ![n] = k]
      /\ expiration' = [expiration EXCEPT ![n] = exp]
      /\ in_store' = [in_store EXCEPT ![n] = TRUE]
      /\ queue' = [queue EXCEPT ![k] = Enqueue(@, n)]
      /\ live' = live + 1
      /\ next_expiration' = Lowered(next_expiration, exp)
      /\ live_blades' = IF was_empty THEN live_link(k) ELSE live_blades
      /\ out_head' = {}
      /\ UNCHANGED now

lawn2_del(n) ==
  \/ /\ ~in_store[n]
     /\ out_head' = {}
     /\ UNCHANGED <<now, bladeVars, live, next_expiration, nodeVars>>
  \/ /\ in_store[n]
     /\ LET k == ttl[n]
            left == Unlink(queue[k], n)
        IN  /\ queue' = [queue EXCEPT ![k] = left]
            /\ live_blades' = IF left = <<>> THEN live_unlink(k) ELSE live_blades
     /\ in_store' = Cleared({n})
     /\ live' = Uncounted({n})
     /\ out_head' = {}
     /\ UNCHANGED <<now, next_expiration, ttl, expiration>>

\* The nodes the loop over the live blades takes out at time t.
Fired(t) ==
  {n \in Node : \E k \in live_blades :
                  \E i \in 1 .. ExpiredHeads(queue[k], t) : queue[k][i] = n}

\* collect_expired: nothing is touched before next_expiration; otherwise
\* every live blade is drained and next_expiration becomes the earliest of
\* the heads that are left.  collect is FALSE when the caller passed no
\* output list.
collect_expired(t, collect) ==
  \/ /\ t < next_expiration
     /\ out_head' = {}
     /\ UNCHANGED <<bladeVars, live, next_expiration, nodeVars>>
  \/ /\ t >= next_expiration
     /\ LET fired == Fired(t)
            left == [k \in TTL |-> IF k \in live_blades
                                   THEN Drained(queue[k], t) ELSE queue[k]]
            nonempty == {k \in live_blades : left[k] # <<>>}
        IN  /\ queue' = left
            /\ live_blades' = nonempty
            /\ in_store' = Cleared(fired)
            /\ live' = Uncounted(fired)
            /\ next_expiration' =
                 Minimum({UINT64_MAX} \cup {expiration[left[k][1]] : k \in nonempty})
            /\ out_head' = IF collect THEN fired ELSE {}
     /\ UNCHANGED <<ttl, expiration>>

lawn2_tick(collect) ==
  /\ now' = Add64(now, 1)
  /\ collect_expired(now', collect)

lawn2_advance(target, collect) ==
  \/ /\ target <= now
     /\ out_head' = {}
     /\ UNCHANGED <<now, bladeVars, live, next_expiration, nodeVars>>
  \/ /\ target > now
     /\ now' = target
     /\ collect_expired(target, collect)

lawn2_set_now(target) ==
  /\ now' = target
  /\ out_head' = {}
  /\ UNCHANGED <<bladeVars, live, next_expiration, nodeVars>>

(***************************************************************************)
(* What the callers do.                                                     *)
(***************************************************************************)
ClientAdd(n, k) ==
  /\ ~in_store[n]
  /\ now + k <= UINT64_MAX
  /\ lawn2_add(n, k)

ClientTick(collect) == now < MaxNow /\ lawn2_tick(collect)

ClientSetNow(target) == target >= now /\ lawn2_set_now(target)

Next ==
  \/ \E n \in Node, k \in TTL : ClientAdd(n, k)
  \/ \E n \in Node : lawn2_del(n)
  \/ \E collect \in BOOLEAN : ClientTick(collect)
  \/ \E target \in 0 .. MaxNow, collect \in BOOLEAN : lawn2_advance(target, collect)
  \/ \E target \in 0 .. MaxNow : ClientSetNow(target)

Spec == Init /\ [][Next]_vars

(***************************************************************************)
(* Properties.                                                              *)
(***************************************************************************)
\* Every field of the store and of the nodes stays in its range; the
\* unsigned counter live never passes below zero.
TypeOK ==
  /\ now \in 0 .. MaxNow
  /\ queue \in [TTL -> Seq(Node)]
  /\ live_blades \subseteq TTL
  /\ live \in Nat
  /\ next_expiration \in 0 .. UINT64_MAX
  /\ ttl \in [Node -> 0 .. UINT64_MAX]
  /\ expiration \in [Node -> 0 .. UINT64_MAX]
  /\ in_store \in [Node -> BOOLEAN]
  /\ out_head \subseteq Node

\* The flag in_store, the ttl kept in the node and the blades agree: a node
\* is in the blade of its ttl, once, exactly while in_store is set, so
\* lawn2_del finds every node it has to unlink (lawn2.c "exists").
BladesHoldTheStore ==
  /\ \A n \in InStore : ttl[n] \in TTL /\ \E i \in 1 .. Len(queue[ttl[n]]) : queue[ttl[n]][i] = n
  /\ \A k \in TTL : \A i \in 1 .. Len(queue[k]) :
       /\ in_store[queue[k][i]]
       /\ ttl[queue[k][i]] = k
       /\ \A j \in 1 .. Len(queue[k]) : queue[k][i] = queue[k][j] => i = j

\* "head is the earliest expiry (queue is self-sorted ...)": every blade is
\* in expiry order, which is what lets collect_expired stop at the first
\* head that is not due.
BladesSelfSorted ==
  \A k \in TTL : \A i, j \in 1 .. Len(queue[k]) :
    i <= j => expiration[queue[k][i]] <= expiration[queue[k][j]]

\* No stored deadline lies further ahead than its own TTL, so the next timer
\* of that TTL expires no earlier than those already in the blade.
DeadlineWithinTTL ==
  \A n \in InStore : expiration[n] <= now + ttl[n]

\* next_expiration is a "lower bound on earliest live expiry", through adds,
\* deletions of the earliest node and clock jumps: the O(1) early return of
\* collect_expired never hides a node that is due.
NextExpirationIsLowerBound ==
  \A n \in InStore : next_expiration <= expiration[n]

\* The live list threads exactly the blades that hold a node, so a poll
\* visits every blade with something to fire and no blade without a head.
LiveListIsExact == live_blades = {k \in TTL : queue[k] # <<>>}

\* lawn2_size counts the nodes in the store.
LiveCountsTheStore == live = Cardinality(InStore)

\* The three together: in_store, the blades, the live list and the counter
\* that lawn2_add, lawn2_del and collect_expired update one by one always
\* describe the same set of nodes.
StoreIsConsistent == BladesHoldTheStore /\ LiveListIsExact /\ LiveCountsTheStore

\* The parts together; module Lawn2Proofs proves that every step keeps them.
Inv ==
  /\ TypeOK
  /\ BladesHoldTheStore
  /\ BladesSelfSorted
  /\ DeadlineWithinTTL
  /\ NextExpirationIsLowerBound
  /\ LiveListIsExact
  /\ LiveCountsTheStore

\* lawn2 keeps the promise of every timer store: each poll hands over all
\* the timers due by then, once, and no other.
TS == INSTANCE TimerStore WITH
  Timer <- Node,
  Time <- 0 .. MaxNow,
  pending <- {<<n, expiration[n]>> : n \in InStore},
  delivered <- {<<n, expiration[n]>> : n \in out_head}

ImplementsTimerStore == TS!Spec

\* A poll that moves the clock passes over nothing: once lawn2_tick or
\* lawn2_advance returns, no timer of the store is due, also when the clock
\* had been moved past deadlines by lawn2_set_now.
PollLeavesNothingDue ==
  [][\A target \in 0 .. MaxNow, collect \in BOOLEAN :
       ClientTick(collect) \/ (target > now /\ lawn2_advance(target, collect))
         => \A n \in InStore' : expiration'[n] > now']_vars
===============================================================================
