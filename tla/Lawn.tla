--------------------------------- MODULE Lawn ---------------------------------
(***************************************************************************)
(* src/lawn.c: timers keyed by element, one queue per TTL, nodes owned by    *)
(* the lawn until they are popped.  The queues are sequences and the two     *)
(* hash maps functions; the order in which a map is walked is left open.     *)
(*                                                                          *)
(* Two constants say how benign the surroundings are: whether an allocation  *)
(* inside the hash map can fail, and whether CLOCK_REALTIME can be set back.  *)
(***************************************************************************)
EXTENDS Naturals, Sequences, FiniteSets

CONSTANTS
  Element,    \* keys
  TTL,        \* durations the clients use (clock + ttl stays below 2^64)
  Node,       \* addresses malloc can give an ElementQueueNode
  NULL,
  MaxClock,   \* bound on the clock
  MaxLen,     \* bound on queue->len, which can drift upwards without end
  MayFail,    \* hashmap__insert may return -ENOMEM
  ClockBack   \* the clock may be set back

ASSUME ConstantsAssumption ==
  /\ IsFiniteSet(Node)
  /\ NULL \notin Node
  /\ MaxClock \in Nat \ {0}
  /\ MaxLen \in Nat
  /\ TTL \subseteq Nat
  /\ {MayFail, ClockBack} \subseteq BOOLEAN

VARIABLES
  clock,            \* current_time_ms()
  timeout_queues,   \* the TTLs that have a queue in lawn->timeout_queues
  queue,            \* the nodes of each queue, from head to tail
  len,              \* queue->len
  element_nodes,    \* lawn->element_nodes
  next_expiration,  \* lawn->next_expiration; 0 means not known
  element, ttl_queue, expiration,  \* fields of each node
  owner,            \* who holds each node: "none" (not allocated), "lawn",
                    \* "client", or "leaked"
  popped            \* the nodes returned by the last call

nodeVars == <<element, ttl_queue, expiration>>
lawnVars == <<timeout_queues, queue, len, element_nodes, next_expiration>>
vars == <<clock, lawnVars, nodeVars, owner, popped>>

Queued == {n \in Node : owner[n] = "lawn"}

Minimum(S) == CHOOSE m \in S : \A x \in S : m <= x

(***************************************************************************)
(* The steps the functions are made of.  An operator whose name ends in     *)
(* _mutant is a wrong version of the one below it, a bug this code could    *)
(* have; the properties are shown to notice it.                             *)
(***************************************************************************)
queuePush(q, n) == Append(q, n)

Unlink(q, n) ==
  LET at == CHOOSE i \in DOMAIN q : q[i] = n
  IN  [i \in 1 .. (Len(q) - 1) |-> IF i < at THEN q[i] ELSE q[i + 1]]

\* _queuePull: a queue whose len is 1 is emptied whatever it holds; so is
\* one whose head is its only node.
Pulled(k, n) == IF len[k] = 1 THEN <<>> ELSE Unlink(queue[k], n)

PulledLen_mutant(k) == IF len[k] = 1 THEN len[k] ELSE len[k] - 2

\* Both of those cases return before len is decremented.
PulledLen(k) == IF len[k] = 1 \/ Len(queue[k]) = 1 THEN len[k] ELSE len[k] - 1

\* _removeQueueFromMapping looks the queue up under the address of its
\* parameter, not under the ttl: it finds nothing and removes nothing.
removeQueueFromMapping(k) == timeout_queues

removeNodeFromMapping_mutant(gone) == element_nodes

\* _removeNodeFromMapping, for the nodes in gone: the entry is found by
\* element, whichever node it now leads to.
removeNodeFromMapping(gone) ==
  [e \in Element |-> IF \E n \in gone : element[n] = e THEN NULL ELSE element_nodes[e]]

\* _addNodeToMapping: nothing is below 0, so an unknown value stays unknown.
Lowered(exp) == IF exp < next_expiration THEN exp ELSE next_expiration

Forgotten_mutant(exp, known) == IF exp < known THEN 0 ELSE known

\* _removeNode: the value is no longer known once its node is gone.
Forgotten(exp, known) == IF exp <= known THEN 0 ELSE known

\* The queues the two scans look into, and their heads.
Scanned == {k \in timeout_queues : len[k] > 0 /\ queue[k] # <<>>}

\* _get_next_node: a head that no other head precedes.  On the way it sets
\* next_expiration to the earliest head if it was unknown or later.
IsNextNode(n) ==
  /\ \E k \in Scanned : n = queue[k][1]
  /\ \A k \in Scanned : expiration[n] <= expiration[queue[k][1]]

Known(exp) == IF next_expiration = 0 \/ exp < next_expiration THEN exp ELSE next_expiration

Expired_mutant(n) == expiration[n] < clock

\* LAWN_LATANCY_PADDING_MS is 0.
Expired(n) == expiration[n] <= clock

\* How many nodes the loop of pop_expired takes from queue k: it runs while
\* len is positive, there is a head and the head has expired.  The _queuePop
\* that finds len at 1, or no second node, empties the queue.
Popable(k) == IF len[k] < Len(queue[k]) THEN len[k] ELSE Len(queue[k])

PopCount(k) ==
  CHOOSE d \in 0 .. Popable(k) :
    /\ \A i \in 1 .. d : Expired(queue[k][i])
    /\ d < Popable(k) => ~Expired(queue[k][d + 1])

Drained(k) ==
  LET d == PopCount(k)
  IN  IF d > 0 /\ d = Popable(k) THEN <<>>
      ELSE SubSeq(queue[k], d + 1, Len(queue[k]))

-------------------------------------------------------------------------------
Init ==
  /\ clock = 1
  /\ timeout_queues = {}
  /\ queue = [k \in TTL |-> <<>>]
  /\ len = [k \in TTL |-> 0]
  /\ element_nodes = [e \in Element |-> NULL]
  /\ next_expiration = 0
  /\ element = [n \in Node |-> NULL]
  /\ ttl_queue = [n \in Node |-> 0]
  /\ expiration = [n \in Node |-> 0]
  /\ owner = [n \in Node |-> "none"]
  /\ popped = {}

\* freeNode: the address can be given out again and its fields are gone.
Freed(n) ==
  /\ owner' = [owner EXCEPT ![n] = "none"]
  /\ element' = [element EXCEPT ![n] = NULL]
  /\ ttl_queue' = [ttl_queue EXCEPT ![n] = 0]
  /\ expiration' = [expiration EXCEPT ![n] = 0]

\* NewNode at address n.
NewNode(n, e, k) ==
  /\ owner[n] = "none"
  /\ element' = [element EXCEPT ![n] = e]
  /\ ttl_queue' = [ttl_queue EXCEPT ![n] = k]
  /\ expiration' = [expiration EXCEPT ![n] = clock + k]

\* set_element_ttl where the new queue cannot be mapped: LAWN_ERR, and
\* neither the queue nor the node is freed.
set_element_ttl_no_queue(n, e, k) ==
  /\ k \notin timeout_queues
  /\ NewNode(n, e, k)
  /\ owner' = [owner EXCEPT ![n] = "leaked"]
  /\ popped' = {}
  /\ UNCHANGED <<clock, lawnVars>>

Queue(n, k) ==
  /\ timeout_queues' = timeout_queues \cup {k}
  /\ queue' = [queue EXCEPT ![k] = queuePush(@, n)]
  /\ len' = [len EXCEPT ![k] = @ + 1]
  /\ owner' = [owner EXCEPT ![n] = "lawn"]

\* set_element_ttl where a new entry of element_nodes cannot be allocated:
\* LAWN_ERR, with the node already queued.
set_element_ttl_no_mapping(n, e, k) ==
  /\ element_nodes[e] = NULL
  /\ NewNode(n, e, k)
  /\ Queue(n, k)
  /\ popped' = {}
  /\ UNCHANGED <<clock, element_nodes, next_expiration>>

\* set_element_ttl that returns LAWN_OK.  An entry for the element is
\* overwritten; the node it led to stays in its queue.
set_element_ttl(n, e, k) ==
  /\ NewNode(n, e, k)
  /\ Queue(n, k)
  /\ element_nodes' = [element_nodes EXCEPT ![e] = n]
  /\ next_expiration' = Lowered(clock + k)
  /\ popped' = {}
  /\ UNCHANGED clock

\* _removeNode, with known the value next_expiration has before it.
removeNode(n, known) ==
  LET k == ttl_queue[n]
  IN  /\ queue' = [queue EXCEPT ![k] = Pulled(k, n)]
      /\ len' = [len EXCEPT ![k] = PulledLen(k)]
      /\ timeout_queues' = removeQueueFromMapping(k)
      /\ element_nodes' = removeNodeFromMapping({n})
      /\ next_expiration' = Forgotten(expiration[n], known)

del_element_exp(e) ==
  LET n == element_nodes[e]
  IN  \/ /\ n = NULL
         /\ popped' = {}
         /\ UNCHANGED <<clock, lawnVars, nodeVars, owner>>
      \/ /\ n # NULL
         /\ removeNode(n, next_expiration)
         /\ Freed(n)
         /\ popped' = {}
         /\ UNCHANGED clock

next_at ==
  /\ \/ /\ next_expiration = 0
        /\ \E n \in Node : IsNextNode(n) /\ next_expiration' = expiration[n]
     \/ /\ next_expiration # 0 \/ Scanned = {}
        /\ UNCHANGED next_expiration
  /\ popped' = {}
  /\ UNCHANGED <<clock, timeout_queues, queue, len, element_nodes, nodeVars, owner>>

pop_next ==
  \/ /\ Scanned = {}
     /\ popped' = {}
     /\ UNCHANGED <<clock, lawnVars, nodeVars, owner>>
  \/ \E n \in Node :
       /\ IsNextNode(n)
       /\ removeNode(n, Known(expiration[n]))
       /\ owner' = [owner EXCEPT ![n] = "client"]
       /\ popped' = {n}
       /\ UNCHANGED <<clock, nodeVars>>

pop_expired ==
  \/ /\ clock < next_expiration
     /\ popped' = {}
     /\ UNCHANGED <<clock, lawnVars, nodeVars, owner>>
  \/ /\ clock >= next_expiration
     /\ LET due == {n \in Node : \E k \in Scanned :
                      \E i \in 1 .. PopCount(k) : queue[k][i] = n}
            left == [k \in TTL |-> IF k \in Scanned THEN Drained(k) ELSE queue[k]]
            lenLeft == [k \in TTL |-> IF k \in Scanned THEN len[k] - PopCount(k) ELSE len[k]]
            heads == {k \in Scanned : left[k] # <<>> /\ lenLeft[k] > 0}
        IN  /\ queue' = left
            /\ len' = lenLeft
            /\ next_expiration' =
                 IF heads = {} THEN 0 ELSE Minimum({expiration[left[k][1]] : k \in heads})
            /\ element_nodes' = removeNodeFromMapping(due)
            /\ owner' = [n \in Node |-> IF n \in due THEN "client" ELSE owner[n]]
            /\ popped' = due
     /\ UNCHANGED <<clock, timeout_queues, nodeVars>>

\* The client frees a node it was given.
freeNode(n) ==
  /\ owner[n] = "client"
  /\ Freed(n)
  /\ popped' = {}
  /\ UNCHANGED <<clock, lawnVars>>

current_time_ms(t) ==
  /\ clock' = t
  /\ popped' = {}
  /\ UNCHANGED <<lawnVars, nodeVars, owner>>

-------------------------------------------------------------------------------
Set == \E n \in Node, e \in Element, k \in {j \in TTL : len[j] < MaxLen} :
         \/ set_element_ttl(n, e, k)
         \/ MayFail /\ set_element_ttl_no_queue(n, e, k)
         \/ MayFail /\ set_element_ttl_no_mapping(n, e, k)

TimePasses == clock < MaxClock /\ current_time_ms(clock + 1)

TimeIsSetBack == ClockBack /\ \E t \in 1 .. (clock - 1) : current_time_ms(t)

OtherCalls ==
  \/ \E e \in Element : del_element_exp(e)
  \/ next_at
  \/ pop_next
  \/ pop_expired
  \/ \E n \in Node : freeNode(n)

Next == Set \/ OtherCalls \/ TimePasses \/ TimeIsSetBack

Spec == Init /\ [][Next]_vars

(***************************************************************************)
(* Properties that hold in any surroundings.                                *)
(***************************************************************************)
\* No node is lost, freed or handed over while it is linked: a node is in the
\* mapped queue of its own ttl, once, exactly while the lawn owns it.
\* queue->len may drift above the number of nodes, because _queuePull returns
\* early, but never falls below it: the tests len > 0 of the scans skip no
\* node and the branch for len = 1 drops none.
QueuesHoldOwnedNodes ==
  /\ \A n \in Queued :
       /\ ttl_queue[n] \in timeout_queues
       /\ \E i \in DOMAIN queue[ttl_queue[n]] : queue[ttl_queue[n]][i] = n
  /\ \A k \in TTL : \A i \in DOMAIN queue[k] :
       /\ owner[queue[k][i]] = "lawn"
       /\ ttl_queue[queue[k][i]] = k
       /\ \A j \in DOMAIN queue[k] : queue[k][i] = queue[k][j] => i = j
  /\ \A k \in TTL : len[k] >= Len(queue[k])

\* element_nodes never leads to a node that was freed, handed over or made
\* for another element, so get_element_exp and del_element_exp read and free
\* live memory, also after an element was set twice or a mapping failed.
ElementMapLeadsToOwnedNodes ==
  \A e \in Element : element_nodes[e] # NULL =>
    owner[element_nodes[e]] = "lawn" /\ element[element_nodes[e]] = e

(***************************************************************************)
(* Properties that need a clock that is not set back.                       *)
(***************************************************************************)
\* What next_at would return now, 0 standing for its -1.
NextAt ==
  IF next_expiration # 0 THEN next_expiration
  ELSE IF Scanned = {} THEN 0
  ELSE Minimum({expiration[queue[k][1]] : k \in Scanned})

\* "return the closest element expiration datetime (in milliseconds), or -1
\* if DS is empty": the cached next_expiration is never stale, so next_at is
\* exact and pop_expired's early return hides nothing that is due.
NextAtIsClosest ==
  NextAt = IF Queued = {} THEN 0 ELSE Minimum({expiration[n] : n \in Queued})

\* Setting an element that has a timer updates that timer: an element never
\* has two.
OneTimerPerElement ==
  \A m, n \in Queued : element[m] = element[n] => m = n

\* The lawn keeps the promise of every timer store, each node being a timer:
\* each pop_expired hands over all the nodes due by then, once, and no other,
\* and pop_next the closest one, also when elements were set again.
TS == INSTANCE TimerStore WITH
  Timer <- Node,
  Time <- 1 .. MaxClock,
  now <- clock,
  pending <- {<<n, expiration[n]>> : n \in Queued},
  delivered <- {<<n, expiration[n]>> : n \in popped}

ImplementsTimerStore == TS!Spec
===============================================================================
