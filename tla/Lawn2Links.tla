------------------------------ MODULE Lawn2Links ------------------------------
(***************************************************************************)
(* src/lawn2.c with its links: the doubly linked blades threaded through the *)
(* caller's nodes, the open-addressing table of blades and its growth, the  *)
(* list of live blades threaded through the table, and the list of expired  *)
(* nodes.  It is checked to implement module Lawn2.  A pointer to a blade is *)
(* its index in the table; NULL is no pointer.                               *)
(*                                                                          *)
(* The loops of collect_expired and grow are rounds over the part of the     *)
(* store they change, kept in a record.                                     *)
(***************************************************************************)
EXTENDS Iteration, Sequences, FiniteSets

CONSTANTS
  Node, TTL, UINT64_MAX, MaxNow,  \* as in Lawn2
  NULL,
  InitBits,  \* bits of the first table (4 in lawn2_new)
  MaxBits,   \* bits of the hash; no table of the model grows beyond them
  Hash       \* the leading bits of ttl * GOLDEN, per TTL

\* The last conjunct says that the bound on the table is above what the TTLs
\* need.
ASSUME LinksAssumption ==
  /\ NULL \notin Node /\ NULL \notin Nat
  /\ IsFiniteSet(Node) /\ IsFiniteSet(TTL) /\ TTL \subseteq Nat
  /\ UINT64_MAX \in Nat /\ MaxNow \in Nat
  /\ MaxBits \in Nat /\ InitBits \in 1 .. MaxBits
  /\ Hash \in [TTL -> 0 .. (2 ^ MaxBits - 1)]
  /\ (Cardinality(TTL) + 1) * 10 < 2 ^ MaxBits * 7

VARIABLES
  now, live, next_expiration,
  bits,       \* the table has 2^bits slots
  tab,        \* the slots
  count,      \* used slots
  live_head,  \* first blade of the live list
  node,       \* the fields of each lawn2_timer
  out_head    \* the list the last call returned

vars == <<now, live, next_expiration, bits, tab, count, live_head, node, out_head>>

\* The types: a pointer to a node, a pointer into a table of 2^b blades, such
\* a blade and such a table, a lawn2_timer.
NodePtr == Node \cup {NULL}
BladePtr(b) == 0 .. (2 ^ b - 1) \cup {NULL}
Slot(b) == [used : BOOLEAN, ttl : Nat, head : NodePtr, tail : NodePtr,
            live_prev : BladePtr(b), live_next : BladePtr(b)]
Slots(b) == [0 .. (2 ^ b - 1) -> Slot(b)]
lawn2_timer == [ttl : Nat, expiration : Nat, next : NodePtr, prev : NodePtr, in_store : BOOLEAN]

cap == 2 ^ bits
FreeSlot == [used |-> FALSE, ttl |-> 0, head |-> NULL, tail |-> NULL,
             live_prev |-> NULL, live_next |-> NULL]
FreshNode == [ttl |-> 0, expiration |-> 0, next |-> NULL, prev |-> NULL, in_store |-> FALSE]

Add64(a, b) == IF a + b <= UINT64_MAX THEN a + b ELSE a + b - (UINT64_MAX + 1)

(***************************************************************************)
(* The table.  A name that ends in _mutant is a wrong version of the        *)
(* operator below it, as in Lawn2.                                          *)
(***************************************************************************)
\* The slot i probes after the hash of k in a table of 2^b slots.
ProbeAt(k, b, i) == ((Hash[k] \div 2 ^ (MaxBits - b)) + i) % 2 ^ b

\* The first slot that is free or holds k.
find_slot(t, b, k) ==
  LET stop(i) == LET s == t[ProbeAt(k, b, i)] IN ~s.used \/ s.ttl = k
      first == CHOOSE i \in 0 .. (2 ^ b - 1) : stop(i) /\ \A j \in 0 .. (i - 1) : ~stop(j)
  IN  ProbeAt(k, b, first)

live_link(s, b) ==
  LET linked == [s.tab EXCEPT ![b].live_prev = NULL, ![b].live_next = s.live_head]
  IN  [s EXCEPT !.tab = IF s.live_head = NULL THEN linked
                        ELSE [linked EXCEPT ![s.live_head].live_prev = b],
                !.live_head = b]

live_unlink_mutant(s, b) ==
  LET p == s.tab[b].live_prev
      n == s.tab[b].live_next
      t1 == IF p = NULL THEN s.tab ELSE [s.tab EXCEPT ![p].live_next = n]
  IN  [s EXCEPT !.tab = [t1 EXCEPT ![b].live_prev = NULL, ![b].live_next = NULL],
                !.live_head = IF p = NULL THEN n ELSE @]

live_unlink(s, b) ==
  LET p == s.tab[b].live_prev
      n == s.tab[b].live_next
      t1 == IF p = NULL THEN s.tab ELSE [s.tab EXCEPT ![p].live_next = n]
      t2 == IF n = NULL THEN t1 ELSE [t1 EXCEPT ![n].live_prev = p]
  IN  [s EXCEPT !.tab = [t2 EXCEPT ![b].live_prev = NULL, ![b].live_next = NULL],
                !.live_head = IF p = NULL THEN n ELSE @]

\* A used slot of the old table moves to its place in the new one and, if
\* it holds nodes, into the new live list.
Moved(s, i, old) ==
  [s EXCEPT !.tab[i] = [old EXCEPT !.live_prev = NULL, !.live_next = NULL], !.count = @ + 1]

Rehash(s, b, old) ==
  LET i == find_slot(s.tab, b, old.ttl)
  IN  IF ~old.used THEN s
      ELSE IF old.head = NULL THEN Moved(s, i, old)
      ELSE live_link(Moved(s, i, old), i)

\* The loop of grow over the slots of the old table, into one of 2^b slots.
Rehashing(old, b) ==
  [g \in [i : Nat, s : [tab : Slots(b), live_head : BladePtr(b), count : Nat]] |->
     [i |-> g.i + 1, s |-> Rehash(g.s, b, old[g.i])]]

grow_mutant(s, b) == [s EXCEPT !.tab = [i \in 0 .. (2 ^ (b + 1) - 1) |->
                                          IF i < 2 ^ b THEN s.tab[i] ELSE FreeSlot]]

\* The table of 2^b slots doubled.
grow(s, b) ==
  LET empty == [tab |-> [i \in 0 .. (2 ^ (b + 1) - 1) |-> FreeSlot], live_head |-> NULL, count |-> 0]
  IN  Iterate(Rehashing(s.tab, b + 1), [i |-> 0, s |-> empty], 2 ^ b).s

\* "keep load < 0.7"
MustGrow == (count + 1) * 10 >= cap * 7

Earlier_mutant(exp, bound) == bound

\* The bound on the earliest expiry, lowered by exp.
Earlier(exp, bound) == IF exp < bound THEN exp ELSE bound

\* The live counter when gone nodes have left.
Remaining(gone) == live - gone

Table == [tab |-> tab, live_head |-> live_head, count |-> count]

-------------------------------------------------------------------------------
Init ==
  /\ now = 0 /\ live = 0 /\ next_expiration = UINT64_MAX
  /\ bits = InitBits
  /\ tab = [i \in 0 .. (2 ^ InitBits - 1) |-> FreeSlot]
  /\ count = 0 /\ live_head = NULL
  /\ node = [n \in Node |-> FreshNode]
  /\ out_head = NULL

\* The free slot b becomes the blade of k; n becomes the tail of blade b.
OpenBlade(s, b, k) ==
  [s EXCEPT !.tab[b].used = TRUE, !.tab[b].ttl = k,
            !.tab[b].head = NULL, !.tab[b].tail = NULL, !.count = @ + 1]

PushTail(s, b, n) ==
  [s EXCEPT !.tab[b].head = IF s.tab[b].tail = NULL THEN n ELSE @, !.tab[b].tail = n]

\* The nodes once n is behind tail in the blade of k.
Appended(n, k, exp, tail) ==
  LET filled == [node EXCEPT ![n] = [ttl |-> k, expiration |-> exp, next |-> NULL,
                                     prev |-> tail, in_store |-> TRUE]]
  IN  IF tail = NULL THEN filled ELSE [filled EXCEPT ![tail].next = n]

lawn2_add(n, k) ==
  LET nbits == IF MustGrow THEN bits + 1 ELSE bits
      s0 == IF MustGrow THEN grow(Table, bits) ELSE Table
      b == find_slot(s0.tab, nbits, k)
      was_empty == s0.tab[b].head = NULL
      s1 == IF s0.tab[b].used THEN s0 ELSE OpenBlade(s0, b, k)
      tail == s1.tab[b].tail
      s2 == PushTail(s1, b, n)
      s3 == IF was_empty THEN live_link(s2, b) ELSE s2
      exp == Add64(now, k)
  IN  /\ node' = Appended(n, k, exp, tail)
      /\ bits' = nbits
      /\ tab' = s3.tab /\ live_head' = s3.live_head /\ count' = s3.count
      /\ live' = live + 1
      /\ next_expiration' = Earlier(exp, next_expiration)
      /\ out_head' = NULL
      /\ UNCHANGED now

\* The nodes once n is out of its blade.
Unlinked(n) ==
  LET p == node[n].prev
      x == node[n].next
      m1 == IF p = NULL THEN node ELSE [node EXCEPT ![p].next = x]
      m2 == IF x = NULL THEN m1 ELSE [m1 EXCEPT ![x].prev = p]
  IN  [m2 EXCEPT ![n].next = NULL, ![n].prev = NULL, ![n].in_store = FALSE]

lawn2_del(n) ==
  \/ /\ ~node[n].in_store
     /\ out_head' = NULL
     /\ UNCHANGED <<now, live, next_expiration, bits, tab, count, live_head, node>>
  \/ /\ node[n].in_store
     /\ LET b == find_slot(tab, bits, node[n].ttl)
            s == [Table EXCEPT !.tab[b].head = IF node[n].prev = NULL THEN node[n].next ELSE @,
                               !.tab[b].tail = IF node[n].next = NULL THEN node[n].prev ELSE @]
            t == IF s.tab[b].head = NULL THEN live_unlink(s, b) ELSE s
        IN  tab' = t.tab /\ live_head' = t.live_head
     /\ node' = Unlinked(n)
     /\ live' = Remaining(1)
     /\ out_head' = NULL
     /\ UNCHANGED <<now, next_expiration, bits, count>>

\* What collect_expired works on, with its locals: b is the blade it is at.
Walk == [tab : Slots(bits), live_head : BladePtr(bits), node : [Node -> lawn2_timer],
         out : NodePtr, fired : Nat, ne : Nat, b : BladePtr(bits)]

\* The head of blade b leaves it.
PopHead(w, collect) ==
  LET n == w.tab[w.b].head
      next == w.node[n].next
      nodes == IF next = NULL THEN w.node ELSE [w.node EXCEPT ![next].prev = NULL]
  IN  [w EXCEPT !.tab[w.b].head = next,
                !.tab[w.b].tail = IF next = NULL THEN NULL ELSE @,
                !.node = [nodes EXCEPT ![n].next = IF collect THEN w.out ELSE NULL,
                                       ![n].prev = NULL,
                                       ![n].in_store = FALSE],
                !.out = IF collect THEN n ELSE NULL,
                !.fired = @ + 1]

\* A round of the inner loop of collect_expired; no change once it is over.
Popping(t, collect) ==
  [w \in Walk |-> LET n == w.tab[w.b].head
                  IN  IF n = NULL THEN w
                      ELSE IF w.node[n].expiration > t THEN w
                      ELSE PopHead(w, collect)]

\* A blade that is empty leaves the live list, another has its head counted.
Popped(w) ==
  LET head == w.tab[w.b].head
  IN  IF head = NULL THEN live_unlink(w, w.b)
      ELSE [w EXCEPT !.ne = Earlier(w.node[head].expiration, @)]

\* A round of the outer loop, which goes on at the saved next_live.
Walking(t, collect) ==
  [w \in Walk |->
     IF w.b = NULL THEN w
     ELSE LET popped == Iterate(Popping(t, collect), w, Cardinality(Node))
          IN  [Popped(popped) EXCEPT !.b = w.tab[w.b].live_next]]

WalkLive(t, collect) ==
  Iterate(Walking(t, collect),
          [tab |-> tab, live_head |-> live_head, node |-> node,
           out |-> NULL, fired |-> 0, ne |-> UINT64_MAX, b |-> live_head], cap)

collect_expired(t, collect) ==
  \/ /\ t < next_expiration
     /\ out_head' = NULL
     /\ UNCHANGED <<live, next_expiration, tab, live_head, node>>
  \/ /\ t >= next_expiration
     /\ LET w == WalkLive(t, collect)
        IN  /\ tab' = w.tab /\ live_head' = w.live_head /\ node' = w.node
            /\ live' = Remaining(w.fired)
            /\ next_expiration' = w.ne
            /\ out_head' = w.out

lawn2_tick(collect) ==
  /\ now' = Add64(now, 1)
  /\ collect_expired(now', collect)
  /\ UNCHANGED <<bits, count>>

lawn2_advance(target, collect) ==
  /\ \/ /\ target <= now
        /\ out_head' = NULL
        /\ UNCHANGED <<now, live, next_expiration, tab, live_head, node>>
     \/ /\ target > now
        /\ now' = target
        /\ collect_expired(target, collect)
  /\ UNCHANGED <<bits, count>>

lawn2_set_now(target) ==
  /\ now' = target
  /\ out_head' = NULL
  /\ UNCHANGED <<live, next_expiration, bits, tab, count, live_head, node>>

\* The same callers as in Lawn2.
Next ==
  \/ \E n \in Node, k \in TTL :
       ~node[n].in_store /\ now + k <= UINT64_MAX /\ lawn2_add(n, k)
  \/ \E n \in Node : lawn2_del(n)
  \/ \E collect \in BOOLEAN : now < MaxNow /\ lawn2_tick(collect)
  \/ \E target \in 0 .. MaxNow, collect \in BOOLEAN : lawn2_advance(target, collect)
  \/ \E target \in now .. MaxNow : lawn2_set_now(target)

Spec == Init /\ [][Next]_vars

(***************************************************************************)
(* Properties.                                                              *)
(***************************************************************************)
\* The nodes, or the blades, met from x on along link, stopping when the link
\* leads back to one already met.
Follow(x, link) ==
  Iterate([met \in Seq(DOMAIN link) |->
             LET y == IF met = <<>> THEN x ELSE link[met[Len(met)]]
             IN  IF y = NULL \/ \E i \in DOMAIN met : met[i] = y THEN met ELSE Append(met, y)],
          <<>>, Cardinality(DOMAIN link))

NextOf == [n \in Node |-> node[n].next]
PrevOf == [n \in Node |-> node[n].prev]
LiveNextOf == [b \in DOMAIN tab |-> tab[b].live_next]
Blade(b) == Follow(tab[b].head, NextOf)
LiveList == Follow(live_head, LiveNextOf)
OutList == Follow(out_head, NextOf)
Reversed(q) == [i \in 1 .. Len(q) |-> q[Len(q) + 1 - i]]
Used == {b \in DOMAIN tab : tab[b].used}

\* Each blade read from its tail along prev is the blade read from its head
\* along next, in reverse: lawn2_del may trust either link of any node.
BladeLinksMirror ==
  \A b \in Used :
    Follow(tab[b].tail, PrevOf) = Reversed(Blade(b))

\* The live list holds every blade with a head, once, and its two links
\* mirror each other, also after grow has moved every blade.
LiveLinksMirror ==
  /\ {LiveList[i] : i \in DOMAIN LiveList} = {b \in DOMAIN tab : tab[b].head # NULL}
  /\ \A i \in DOMAIN LiveList :
       tab[LiveList[i]].live_prev = IF i = 1 THEN NULL ELSE LiveList[i - 1]

\* The links of nodes and blades together, which each call updates in part.
LinksMirror == BladeLinksMirror /\ LiveLinksMirror

\* Every TTL ever used is found, in one slot, however often the table grew
\* and however the hashes collide: find_slot never opens a second blade.
\* "keep load < 0.7": count is the number of used slots and a free slot is
\* left, so the unbounded probe loop of find_slot ends for every other ttl.
TableFindsEveryTTL ==
  /\ \A b \in Used : find_slot(tab, bits, tab[b].ttl) = b
  /\ count = Cardinality(Used)
  /\ count * 10 < cap * 7

\* The links implement the queues: Lawn2 with a blade read along next, the
\* live list as the set of its TTLs and the expired list as a set of nodes.
L2 == INSTANCE Lawn2 WITH
  queue <- [k \in TTL |->
              LET b == find_slot(tab, bits, k) IN IF tab[b].used THEN Blade(b) ELSE <<>>],
  live_blades <- {tab[LiveList[i]].ttl : i \in DOMAIN LiveList},
  ttl <- [n \in Node |-> node[n].ttl],
  expiration <- [n \in Node |-> node[n].expiration],
  in_store <- [n \in Node |-> node[n].in_store],
  out_head <- {OutList[i] : i \in DOMAIN OutList}

ImplementsLawn2 == L2!Spec
===============================================================================
