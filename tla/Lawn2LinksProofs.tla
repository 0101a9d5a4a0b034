--------------------------- MODULE Lawn2LinksProofs ---------------------------
(***************************************************************************)
(* Proofs about Lawn2Links for any nodes, TTLs and hashes.                  *)
(*                                                                          *)
(* The table (TableInv): it finds every TTL in one slot, however the hashes  *)
(* collide and however often it grew.                                        *)
(*                                                                          *)
(* The links (MirrorInv): there are sequences of nodes, one per TTL, that    *)
(* the links of the nodes list in both directions, that the heads and tails  *)
(* of the slots end, and whose slots the live list holds (Mirrors).  Each    *)
(* function turns such sequences into others; those are the queues of        *)
(* Lawn2, so that each call of Lawn2Links is that call of Lawn2.             *)
(*                                                                          *)
(* The event loop (LoopInv): the walk over the expired timers has before it  *)
(* a sequence of nodes that are out of the store and keep their next.        *)
(*                                                                          *)
(* Order: the table, as far as the first two theorems; linked lists as       *)
(* sequences; adding, deleting, and the two loops of collect_expired; then   *)
(* the links at all times, the refinement and the event loop.                *)
(***************************************************************************)
EXTENDS Lawn2Loop, SeqLemmas

(***************************************************************************)
(* Probing.                                                                 *)
(***************************************************************************)
Bits == 0 .. MaxBits
At(b) == 0 .. (2 ^ b - 1)

LEMMA Capacity == ASSUME NEW b \in Bits PROVE b \in Nat /\ 2 ^ b \in Nat \ {0}
BY PowerIsPositive, LinksAssumption DEF Bits

\* The hash of a TTL leads into the table.
LEMMA HomeInTable ==
  ASSUME NEW b \in Bits, NEW k \in TTL PROVE Hash[k] \div 2 ^ (MaxBits - b) \in At(b)
<1>1. PICK c \in Nat : c = MaxBits - b /\ c + b = MaxBits BY LinksAssumption DEF Bits
<1>2. 2 ^ c \in Nat \ {0} /\ 2 ^ b \in Nat \ {0} BY Capacity, PowerIsPositive
<1>3. 2 ^ MaxBits = 2 ^ c * 2 ^ b
  <2>1. 2 ^ (c + b) = 2 ^ c * 2 ^ b BY Capacity, PowerSplits
  <2> QED BY <1>1, <2>1
<1>4. Hash[k] \in 0 .. (2 ^ MaxBits - 1) BY LinksAssumption
<1>5. PICK d, n : d = 2 ^ c /\ n = 2 ^ b OBVIOUS
<1>6. d \in Nat \ {0} /\ n \in Nat \ {0} /\ Hash[k] \in 0 .. (d * n - 1) BY <1>2, <1>3, <1>4, <1>5
<1>7. Hash[k] \div d \in 0 .. (n - 1) BY <1>6, DivBelow
<1> QED BY <1>1, <1>5, <1>7 DEF At

\* Probing goes through every slot once round.
LEMMA Probes ==
  ASSUME NEW b \in Bits, NEW k \in TTL
  PROVE  /\ \A i \in At(b) : ProbeAt(k, b, i) \in At(b)
         /\ \A x \in At(b) : \E i \in At(b) : ProbeAt(k, b, i) = x
<1>1. PICK h, n : h = Hash[k] \div 2 ^ (MaxBits - b) /\ n = 2 ^ b OBVIOUS
<1>2. n \in Nat \ {0} /\ h \in 0 .. (n - 1) /\ At(b) = 0 .. (n - 1) BY <1>1, HomeInTable, Capacity DEF At
<1>3. ASSUME NEW i \in 0 .. (n - 1) PROVE ProbeAt(k, b, i) = IF h + i < n THEN h + i ELSE (h + i) - n
  <2>1. PICK y : y = h + i OBVIOUS
  <2>2. y \in 0 .. (2 * n - 1) BY <1>2, <2>1
  <2>3. y % n = IF y < n THEN y ELSE y - n BY <1>2, <2>2, ModWraps
  <2>4. ProbeAt(k, b, i) = y % n BY <1>1, <2>1, Zenon DEF ProbeAt
  <2> QED BY <1>2, <2>1, <2>3, <2>4
<1>4. \A i \in 0 .. (n - 1) : ProbeAt(k, b, i) \in 0 .. (n - 1) BY <1>2, <1>3
<1>5. ASSUME NEW x \in 0 .. (n - 1) PROVE \E i \in 0 .. (n - 1) : ProbeAt(k, b, i) = x
  <2>1. CASE x >= h
    <3>1. x - h \in 0 .. (n - 1) /\ h + (x - h) = x /\ x < n BY <1>2, <2>1
    <3>2. ProbeAt(k, b, x - h) = x BY <1>3, <3>1
    <3> QED BY <3>1, <3>2
  <2>2. CASE x < h
    <3>1. PICK i \in 0 .. (n - 1) : h + i = x + n
      <4>1. (x + n) - h \in 0 .. (n - 1) /\ h + ((x + n) - h) = x + n BY <1>2, <2>2
      <4> QED BY <4>1
    <3>2. ProbeAt(k, b, i) = IF h + i < n THEN h + i ELSE (h + i) - n BY <1>3
    <3>3. ~ (x + n < n) /\ (x + n) - n = x BY <1>2
    <3>4. ProbeAt(k, b, i) = x BY <1>2, <3>1, <3>2, <3>3
    <3> QED BY <3>4
  <2> QED BY <1>2, <2>1, <2>2
<1> QED BY <1>2, <1>4, <1>5

\* Probe i stops the loop of find_slot, and is the first to do so.
StopAt(t, b, k, i) == ~t[ProbeAt(k, b, i)].used \/ t[ProbeAt(k, b, i)].ttl = k
FirstStop(t, b, k, i) == i \in At(b) /\ StopAt(t, b, k, i) /\ \A j \in 0 .. (i - 1) : ~StopAt(t, b, k, j)

LEMMA FirstStopIsSlot ==
  ASSUME NEW t, NEW b \in Bits, NEW k, NEW i, FirstStop(t, b, k, i)
  PROVE  find_slot(t, b, k) = ProbeAt(k, b, i)
<1>1. \A j : FirstStop(t, b, k, j) => j = i
  <2> SUFFICES ASSUME NEW j, FirstStop(t, b, k, j) PROVE j = i OBVIOUS
  <2>1. i \in Nat /\ j \in Nat BY Capacity DEF FirstStop, At
  <2>2. ~(j \in 0 .. (i - 1)) /\ ~(i \in 0 .. (j - 1)) BY DEF FirstStop
  <2> QED BY <2>1, <2>2
<1>2. (CHOOSE j \in At(b) : StopAt(t, b, k, j) /\ \A m \in 0 .. (j - 1) : ~StopAt(t, b, k, m)) = i
  BY <1>1 DEF FirstStop
<1> QED BY <1>2, Zenon DEF find_slot, StopAt, At

\* While a slot is free the loop stops.
LEMMA SomeFirstStop ==
  ASSUME NEW t, NEW b \in Bits, NEW k \in TTL, \E x \in At(b) : ~t[x].used
  PROVE  \E i : FirstStop(t, b, k, i)
<1> DEFINE stops == {i \in At(b) : StopAt(t, b, k, i)}
<1>1. stops # {} BY Probes DEF StopAt
<1>2. stops \subseteq Nat BY Capacity DEF At
<1> HIDE DEF stops
<1>3. PICK i \in stops : \A j \in stops : i <= j BY <1>1, <1>2, NatLeast
<1>4. \A j \in 0 .. (i - 1) : j \in At(b) /\ ~(i <= j) BY <1>2, <1>3, Capacity DEF stops, At
<1> QED BY <1>3, <1>4 DEF stops, FirstStop

(***************************************************************************)
(* Tables that find their TTLs.                                             *)
(***************************************************************************)
UsedOf(t, b) == {x \in At(b) : t[x].used}
Found(t, b, x) == \E i \in At(b) : FirstStop(t, b, t[x].ttl, i) /\ ProbeAt(t[x].ttl, b, i) = x
GoodTable(t, b) ==
  /\ t \in Slots(b)
  /\ \A x \in UsedOf(t, b) : t[x].ttl \in TTL /\ Found(t, b, x)

\* Table u still has the TTLs of t where they were; the same and no more.
Keeps(t, u, b) == \A x \in UsedOf(t, b) : u[x].used /\ u[x].ttl = t[x].ttl
SameKeys(t, u, b) == u \in Slots(b) /\ \A x \in At(b) : u[x].used = t[x].used /\ u[x].ttl = t[x].ttl

LEMMA KeptStop ==
  ASSUME NEW t, NEW u, NEW b \in Bits, NEW k \in TTL, NEW i,
         Keeps(t, u, b), FirstStop(t, b, k, i), u[ProbeAt(k, b, i)].ttl = k
  PROVE  FirstStop(u, b, k, i)
<1>1. i \in At(b) /\ StopAt(u, b, k, i) BY DEF FirstStop, StopAt
<1>2. ASSUME NEW j \in 0 .. (i - 1) PROVE ~StopAt(u, b, k, j)
  <2>1. j \in At(b) BY <1>1, Capacity DEF At
  <2>2. t[ProbeAt(k, b, j)].used /\ t[ProbeAt(k, b, j)].ttl # k BY DEF FirstStop, StopAt
  <2>3. ProbeAt(k, b, j) \in UsedOf(t, b) BY <2>1, <2>2, Probes DEF UsedOf
  <2> QED BY <2>2, <2>3 DEF Keeps, StopAt
<1> QED BY <1>1, <1>2 DEF FirstStop

LEMMA KeptFound ==
  ASSUME NEW t, NEW u, NEW b \in Bits, GoodTable(t, b), Keeps(t, u, b), NEW x \in UsedOf(t, b)
  PROVE  u[x].ttl \in TTL /\ Found(u, b, x)
<1>1. PICK k \in TTL : k = t[x].ttl BY DEF GoodTable
<1>2. u[x].ttl = k BY <1>1 DEF Keeps
<1>3. PICK i : FirstStop(t, b, k, i) /\ ProbeAt(k, b, i) = x BY <1>1 DEF GoodTable, Found
<1>4. FirstStop(u, b, k, i) BY <1>2, <1>3, KeptStop
<1>5. i \in At(b) BY <1>4 DEF FirstStop
<1> QED BY <1>2, <1>3, <1>4, <1>5 DEF Found

LEMMA SameKeysGood ==
  ASSUME NEW t, NEW u, NEW b \in Bits, GoodTable(t, b), SameKeys(t, u, b)
  PROVE  GoodTable(u, b) /\ UsedOf(u, b) = UsedOf(t, b)
<1>1. UsedOf(u, b) = UsedOf(t, b) BY DEF SameKeys, UsedOf
<1>2. Keeps(t, u, b) BY DEF SameKeys, Keeps, UsedOf
<1>3. \A x \in UsedOf(u, b) : u[x].ttl \in TTL /\ Found(u, b, x) BY <1>1, <1>2, KeptFound
<1> QED BY <1>1, <1>3 DEF GoodTable, SameKeys

LEMMA SameKeysChain ==
  ASSUME NEW t, NEW u, NEW v, NEW b, SameKeys(t, u, b), SameKeys(u, v, b)
  PROVE  SameKeys(t, v, b)
BY DEF SameKeys

\* The slot that find_slot gives for k: free, or the one that holds k.
LEMMA SlotOf ==
  ASSUME NEW t, NEW b \in Bits, NEW k \in TTL, NEW x, x = find_slot(t, b, k),
         \E y \in At(b) : ~t[y].used
  PROVE  /\ x \in At(b)
         /\ t[x].used => t[x].ttl = k
         /\ \E i : FirstStop(t, b, k, i) /\ ProbeAt(k, b, i) = x
<1>1. PICK i : FirstStop(t, b, k, i) BY SomeFirstStop
<1>2. x = ProbeAt(k, b, i) BY <1>1, FirstStopIsSlot
<1>3. i \in At(b) /\ StopAt(t, b, k, i) BY <1>1 DEF FirstStop
<1>4. x \in At(b) BY <1>2, <1>3, Probes
<1>5. t[x].used => t[x].ttl = k BY <1>2, <1>3 DEF StopAt
<1> QED BY <1>1, <1>2, <1>4, <1>5

LEMMA FoundIsFound ==
  ASSUME NEW t, NEW b \in Bits, GoodTable(t, b), NEW x \in UsedOf(t, b)
  PROVE  find_slot(t, b, t[x].ttl) = x
<1>1. PICK k : k = t[x].ttl OBVIOUS
<1>2. PICK i : FirstStop(t, b, k, i) /\ ProbeAt(k, b, i) = x BY <1>1 DEF GoodTable, Found
<1>3. find_slot(t, b, k) = ProbeAt(k, b, i) BY <1>2, FirstStopIsSlot
<1> QED BY <1>1, <1>2, <1>3

LEMMA OneBladePerTTL ==
  ASSUME NEW t, NEW b \in Bits, GoodTable(t, b), NEW x \in UsedOf(t, b), NEW y \in UsedOf(t, b),
         t[x].ttl = t[y].ttl
  PROVE  x = y
<1>1. find_slot(t, b, t[x].ttl) = x /\ find_slot(t, b, t[y].ttl) = y BY FoundIsFound
<1> QED BY <1>1

\* k written into the free slot find_slot gave for it.
Opened(t, u, b, x, k) ==
  /\ u \in Slots(b) /\ u[x].used /\ u[x].ttl = k
  /\ \A y \in At(b) : y # x => u[y].used = t[y].used /\ u[y].ttl = t[y].ttl

LEMMA Put ==
  ASSUME NEW t, NEW u, NEW b \in Bits, NEW k \in TTL, NEW x, x = find_slot(t, b, k),
         GoodTable(t, b), \E y \in At(b) : ~t[y].used, ~t[x].used, Opened(t, u, b, x, k)
  PROVE  GoodTable(u, b) /\ UsedOf(u, b) = UsedOf(t, b) \cup {x} /\ x \notin UsedOf(t, b)
<1>1. x \in At(b) /\ \E i : FirstStop(t, b, k, i) /\ ProbeAt(k, b, i) = x BY SlotOf
<1>2. x \notin UsedOf(t, b) BY DEF UsedOf
<1>3. UsedOf(u, b) = UsedOf(t, b) \cup {x} BY <1>1 DEF UsedOf, Opened
<1>4. Keeps(t, u, b) BY <1>2 DEF Keeps, Opened, UsedOf
<1>5. u[x].ttl = k BY DEF Opened
<1>6. Found(u, b, x)
  <2>1. PICK i : FirstStop(t, b, k, i) /\ ProbeAt(k, b, i) = x BY <1>1
  <2>2. FirstStop(u, b, k, i) BY <1>4, <1>5, <2>1, KeptStop
  <2>3. i \in At(b) BY <2>1 DEF FirstStop
  <2> QED BY <1>5, <2>1, <2>2, <2>3 DEF Found
<1>7. \A y \in UsedOf(t, b) : u[y].ttl \in TTL /\ Found(u, b, y) BY <1>4, KeptFound
<1> QED BY <1>2, <1>3, <1>5, <1>6, <1>7 DEF GoodTable, Opened

\* How many slots are used.
LEMMA UsedIsFinite ==
  ASSUME NEW t, NEW b \in Bits
  PROVE  /\ IsFiniteSet(UsedOf(t, b)) /\ Cardinality(UsedOf(t, b)) \in Nat
         /\ IsFiniteSet(At(b)) /\ Cardinality(At(b)) = 2 ^ b
<1>1. PICK n \in Nat \ {0} : n = 2 ^ b BY Capacity
<1>2. IsFiniteSet(0 .. (n - 1)) /\ Cardinality(0 .. (n - 1)) = n
  <2>1. 0 \in Int /\ n - 1 \in Int /\ ~(0 > n - 1) /\ (n - 1) - 0 + 1 = n BY <1>1
  <2>2. \A a, c \in Int : IsFiniteSet(a .. c) /\ Cardinality(a .. c) = IF a > c THEN 0 ELSE c - a + 1 BY FS_Interval
  <2> QED BY <2>1, <2>2
<1>3. IsFiniteSet(At(b)) /\ Cardinality(At(b)) = 2 ^ b BY <1>1, <1>2 DEF At
<1>4. UsedOf(t, b) \subseteq At(b) BY DEF UsedOf
<1>5. IsFiniteSet(UsedOf(t, b)) BY <1>3, <1>4, FS_Subset
<1> QED BY <1>3, <1>5, FS_CardinalityType

\* A table with fewer used slots than slots has a free one.
LEMMA RoomLeft ==
  ASSUME NEW t, NEW b \in Bits, Cardinality(UsedOf(t, b)) < 2 ^ b
  PROVE  \E y \in At(b) : ~t[y].used
<1> SUFFICES ASSUME \A y \in At(b) : t[y].used PROVE FALSE OBVIOUS
<1>1. UsedOf(t, b) = At(b) BY DEF UsedOf
<1>2. PICK n \in Nat : n = 2 ^ b BY Capacity
<1>3. Cardinality(UsedOf(t, b)) = n BY <1>1, <1>2, UsedIsFinite
<1> QED BY <1>2, <1>3

\* Each used slot has a TTL of its own.
LEMMA NoMoreThanTTLs ==
  ASSUME NEW t, NEW b \in Bits, GoodTable(t, b)
  PROVE  Cardinality(UsedOf(t, b)) <= Cardinality(TTL) /\ Cardinality(TTL) \in Nat
<1> DEFINE f == [x \in UsedOf(t, b) |-> t[x].ttl]
<1>1. f \in [UsedOf(t, b) -> TTL] BY DEF GoodTable
<1>2. \A x, y \in UsedOf(t, b) : f[x] = f[y] => x = y BY OneBladePerTTL
<1>3. f \in Injection(UsedOf(t, b), TTL) BY <1>1, <1>2 DEF Injection, IsInjective
<1>4. IsFiniteSet(TTL) BY LinksAssumption
<1> HIDE DEF f
<1>5. Cardinality(UsedOf(t, b)) <= Cardinality(TTL) BY <1>3, <1>4, FS_Injection
<1> QED BY <1>4, <1>5, FS_CardinalityType

(***************************************************************************)
(* The links of the live list, and the heads and tails of the blades, change *)
(* no key.                                                                  *)
(***************************************************************************)
TableOf(b) == [tab : Slots(b), live_head : BladePtr(b), count : Nat]

LEMMA HeadSet ==
  ASSUME NEW b, NEW t \in Slots(b), NEW x, NEW v \in NodePtr, NEW u, u = [t EXCEPT ![x].head = v]
  PROVE  SameKeys(t, u, b)
BY DEF Slots, Slot, SameKeys, At

LEMMA TailSet ==
  ASSUME NEW b, NEW t \in Slots(b), NEW x, NEW v \in NodePtr, NEW u, u = [t EXCEPT ![x].tail = v]
  PROVE  SameKeys(t, u, b)
BY DEF Slots, Slot, SameKeys, At

LEMMA PrevSet ==
  ASSUME NEW b, NEW t \in Slots(b), NEW x, NEW v \in BladePtr(b), NEW u, u = [t EXCEPT ![x].live_prev = v]
  PROVE  SameKeys(t, u, b)
BY DEF Slots, Slot, SameKeys, At

LEMMA NextSet ==
  ASSUME NEW b, NEW t \in Slots(b), NEW x, NEW v \in BladePtr(b), NEW u, u = [t EXCEPT ![x].live_next = v]
  PROVE  SameKeys(t, u, b)
BY DEF Slots, Slot, SameKeys, At

LEMMA SameKeysItself == ASSUME NEW b, NEW t \in Slots(b) PROVE SameKeys(t, t, b)
BY DEF SameKeys

LEMMA LiveLink ==
  ASSUME NEW b, NEW s \in TableOf(b), NEW x \in At(b), NEW r, r = live_link(s, x)
  PROVE  r \in TableOf(b) /\ SameKeys(s.tab, r.tab, b) /\ r.count = s.count
<1>1. PICK t, h : t = s.tab /\ h = s.live_head OBVIOUS
<1>2. t \in Slots(b) /\ h \in BladePtr(b) /\ NULL \in BladePtr(b) /\ x \in BladePtr(b)
  BY <1>1 DEF TableOf, BladePtr, At
<1>3. PICK t1 : t1 = [t EXCEPT ![x].live_prev = NULL] OBVIOUS
<1>4. SameKeys(t, t1, b) BY <1>2, <1>3, PrevSet
<1>5. PICK t2 : t2 = [t1 EXCEPT ![x].live_next = h] OBVIOUS
<1>6. SameKeys(t1, t2, b)
  <2>1. t1 \in Slots(b) BY <1>4 DEF SameKeys
  <2> QED BY <1>2, <1>5, <2>1, NextSet
<1>7. PICK t3 : t3 = [t2 EXCEPT ![h].live_prev = x] OBVIOUS
<1>8. SameKeys(t2, t3, b)
  <2>1. t2 \in Slots(b) BY <1>6 DEF SameKeys
  <2> QED BY <1>2, <1>7, <2>1, PrevSet
<1>9. PICK u : u = IF h = NULL THEN t2 ELSE t3 OBVIOUS
<1>10. SameKeys(t, u, b) BY <1>4, <1>6, <1>8, <1>9, SameKeysChain
<1>11. r = [s EXCEPT !.tab = u, !.live_head = x]
  BY <1>1, <1>3, <1>5, <1>7, <1>9, Zenon DEF live_link
<1>12. u \in Slots(b) BY <1>10 DEF SameKeys
<1> QED BY <1>1, <1>2, <1>10, <1>11, <1>12 DEF TableOf

\* What live_unlink makes of the table and of the head of the live list.
UnlinkedTab(t, x) ==
  LET p == t[x].live_prev
      n == t[x].live_next
      t1 == IF p = NULL THEN t ELSE [t EXCEPT ![p].live_next = n]
      t2 == IF n = NULL THEN t1 ELSE [t1 EXCEPT ![n].live_prev = p]
  IN  [t2 EXCEPT ![x].live_prev = NULL, ![x].live_next = NULL]
UnlinkedHead(s, x) == IF s.tab[x].live_prev = NULL THEN s.tab[x].live_next ELSE s.live_head

LEMMA LiveUnlink ==
  ASSUME NEW b, NEW s, s.tab \in Slots(b), s.live_head \in BladePtr(b), NEW x \in At(b)
  PROVE  /\ live_unlink(s, x) = [s EXCEPT !.tab = UnlinkedTab(s.tab, x), !.live_head = UnlinkedHead(s, x)]
         /\ SameKeys(s.tab, UnlinkedTab(s.tab, x), b) /\ UnlinkedHead(s, x) \in BladePtr(b)
<1>1. PICK t, p, n : t = s.tab /\ p = t[x].live_prev /\ n = t[x].live_next OBVIOUS
<1>2. t \in Slots(b) /\ p \in BladePtr(b) /\ n \in BladePtr(b) /\ NULL \in BladePtr(b)
  BY <1>1 DEF Slots, Slot, BladePtr, At
<1>3. PICK t1 : t1 = IF p = NULL THEN t ELSE [t EXCEPT ![p].live_next = n] OBVIOUS
<1>4. SameKeys(t, t1, b) BY <1>2, <1>3, NextSet, SameKeysItself
<1>5. PICK t2 : t2 = IF n = NULL THEN t1 ELSE [t1 EXCEPT ![n].live_prev = p] OBVIOUS
<1>6. SameKeys(t1, t2, b)
  <2>1. t1 \in Slots(b) BY <1>4 DEF SameKeys
  <2> QED BY <1>2, <1>5, <2>1, PrevSet, SameKeysItself
<1>7. PICK t3 : t3 = [t2 EXCEPT ![x].live_prev = NULL] OBVIOUS
<1>8. SameKeys(t2, t3, b)
  <2>1. t2 \in Slots(b) BY <1>6 DEF SameKeys
  <2> QED BY <1>2, <1>7, <2>1, PrevSet
<1>9. PICK t4 : t4 = [t3 EXCEPT ![x].live_next = NULL] OBVIOUS
<1>10. SameKeys(t3, t4, b)
  <2>1. t3 \in Slots(b) BY <1>8 DEF SameKeys
  <2> QED BY <1>2, <1>9, <2>1, NextSet
<1>11. SameKeys(t, t4, b) BY <1>4, <1>6, <1>8, <1>10, SameKeysChain
<1>12. UnlinkedTab(s.tab, x) = t4 BY <1>1, <1>3, <1>5, <1>7, <1>9, Zenon DEF UnlinkedTab
<1>13. live_unlink(s, x) = [s EXCEPT !.tab = UnlinkedTab(s.tab, x), !.live_head = UnlinkedHead(s, x)]
  BY Zenon DEF live_unlink, UnlinkedTab, UnlinkedHead
<1>14. UnlinkedHead(s, x) \in BladePtr(b) BY <1>1, <1>2 DEF UnlinkedHead
<1> QED BY <1>1, <1>11, <1>12, <1>13, <1>14

(***************************************************************************)
(* Growth.                                                                  *)
(***************************************************************************)
\* The used slots of the old table that k rounds of grow have moved, and what
\* those rounds made of the new table of 2^c slots.
Done(old, k) == {j \in 0 .. (k - 1) : old[j].used}
Grown(old, c, k, s) ==
  /\ s \in TableOf(c)
  /\ GoodTable(s.tab, c)
  /\ s.count = Cardinality(UsedOf(s.tab, c))
  /\ s.count = Cardinality(Done(old, k))
  /\ \A x \in UsedOf(s.tab, c) : \E j \in Done(old, k) : old[j].ttl = s.tab[x].ttl

LEMMA DoneOneMore ==
  ASSUME NEW old, NEW k \in Nat
  PROVE  /\ IsFiniteSet(Done(old, k)) /\ Cardinality(Done(old, k)) \in Nat
         /\ Cardinality(Done(old, k)) <= k
         /\ k \notin Done(old, k)
         /\ Done(old, k + 1) = IF old[k].used THEN Done(old, k) \cup {k} ELSE Done(old, k)
<1>1. IsFiniteSet(0 .. (k - 1)) /\ Cardinality(0 .. (k - 1)) = k
  <2>1. 0 \in Int /\ k - 1 \in Int /\ (IF 0 > k - 1 THEN 0 ELSE (k - 1) - 0 + 1) = k OBVIOUS
  <2>2. \A a, c \in Int : IsFiniteSet(a .. c) /\ Cardinality(a .. c) = IF a > c THEN 0 ELSE c - a + 1 BY FS_Interval
  <2> QED BY <2>1, <2>2
<1>2. Done(old, k) \subseteq 0 .. (k - 1) BY DEF Done
<1>3. IsFiniteSet(Done(old, k)) /\ Cardinality(Done(old, k)) <= k BY <1>1, <1>2, FS_Subset
<1>4. Cardinality(Done(old, k)) \in Nat BY <1>3, FS_CardinalityType
<1>5. k \notin Done(old, k) BY DEF Done
<1>6. 0 .. ((k + 1) - 1) = 0 .. (k - 1) \cup {k} OBVIOUS
<1>7. Done(old, k + 1) = IF old[k].used THEN Done(old, k) \cup {k} ELSE Done(old, k)
  BY <1>6 DEF Done
<1> QED BY <1>3, <1>4, <1>5, <1>7

\* A used slot in its place in the new table.
LEMMA MoveSlot ==
  ASSUME NEW b \in Bits, NEW c \in Bits, NEW old \in Slots(b), NEW j \in At(b), old[j].used,
         NEW s \in TableOf(c), NEW x \in At(c), NEW r, r = Moved(s, x, old[j])
  PROVE  r \in TableOf(c) /\ Opened(s.tab, r.tab, c, x, old[j].ttl) /\ r.count = s.count + 1
<1>1. PICK o, v : o = old[j] /\ v = [o EXCEPT !.live_prev = NULL, !.live_next = NULL] OBVIOUS
<1>2. o \in Slot(b) /\ o.used BY <1>1 DEF Slots, At
<1>3. v \in Slot(c) /\ v.used /\ v.ttl = o.ttl
  <2>1. NULL \in BladePtr(c) BY DEF BladePtr
  <2> QED BY <1>1, <1>2, <2>1 DEF Slot
<1>4. PICK t, n : t = s.tab /\ n = s.count OBVIOUS
<1>5. t \in Slots(c) /\ n \in Nat BY <1>4 DEF TableOf
<1>6. PICK u : u = [t EXCEPT ![x] = v] OBVIOUS
<1>7. u \in Slots(c) /\ u[x] = v /\ \A y \in At(c) : y # x => u[y] = t[y]
  BY <1>3, <1>5, <1>6 DEF Slots, At
<1>8. PICK n1 \in Nat : n1 = n + 1 BY <1>5
<1>9. r \in TableOf(c) /\ r.tab = u /\ r.count = n + 1
  <2>1. r = [s EXCEPT !.tab = u, !.count = n1] BY <1>1, <1>4, <1>6, <1>8, Zenon DEF Moved
  <2>2. u \in Slots(c) BY <1>7
  <2> QED BY <1>8, <2>1, <2>2 DEF TableOf
<1>10. Opened(t, u, c, x, o.ttl) BY <1>3, <1>7 DEF Opened
<1> QED BY <1>1, <1>4, <1>9, <1>10

\* The free slot a used one moves to.
LEMMA RehashPlace ==
  ASSUME NEW b \in Bits, NEW c \in Bits, NEW old, GoodTable(old, b), 2 ^ b <= 2 ^ c,
         NEW k \in At(b), NEW s, Grown(old, c, k, s), old[k].used,
         NEW x, x = find_slot(s.tab, c, old[k].ttl)
  PROVE  /\ old[k].ttl \in TTL /\ x \in At(c) /\ ~s.tab[x].used
         /\ \E y \in At(c) : ~s.tab[y].used
<1>1. k \in Nat /\ k < 2 ^ b BY Capacity DEF At
<1>2. k \in UsedOf(old, b) BY DEF UsedOf
<1>3. PICK K : K = old[k].ttl OBVIOUS
<1>4. K \in TTL BY <1>2, <1>3 DEF GoodTable
<1>5. s \in TableOf(c) /\ GoodTable(s.tab, c) BY DEF Grown
<1>6. \E y \in At(c) : ~s.tab[y].used
  <2>1. Cardinality(UsedOf(s.tab, c)) = Cardinality(Done(old, k)) BY DEF Grown
  <2>2. Cardinality(Done(old, k)) <= k /\ Cardinality(Done(old, k)) \in Nat BY <1>1, DoneOneMore
  <2>3. 2 ^ b \in Nat /\ 2 ^ c \in Nat BY Capacity
  <2>4. Cardinality(UsedOf(s.tab, c)) < 2 ^ c BY <1>1, <2>1, <2>2, <2>3
  <2> QED BY <2>4, RoomLeft
<1>7. x \in At(c) /\ (s.tab[x].used => s.tab[x].ttl = K) BY <1>3, <1>4, <1>6, SlotOf
<1>8. ~s.tab[x].used
  <2> SUFFICES ASSUME s.tab[x].used PROVE FALSE OBVIOUS
  <2>1. x \in UsedOf(s.tab, c) BY <1>7 DEF UsedOf
  <2>2. PICK j \in Done(old, k) : old[j].ttl = K BY <1>7, <2>1 DEF Grown
  <2>3. j \in UsedOf(old, b) /\ j # k BY <1>1, <2>2, Capacity DEF Done, UsedOf, At
  <2> QED BY <1>2, <1>3, <2>2, <2>3, OneBladePerTTL
<1> QED BY <1>3, <1>4, <1>6, <1>7, <1>8

\* One round of grow.
LEMMA RehashOne ==
  ASSUME NEW b \in Bits, NEW c \in Bits, NEW old, GoodTable(old, b), 2 ^ b <= 2 ^ c,
         NEW k \in At(b), NEW s, Grown(old, c, k, s), NEW r, r = Rehash(s, c, old[k])
  PROVE  Grown(old, c, k + 1, r)
<1>1. k \in Nat /\ k < 2 ^ b BY Capacity DEF At
<1>2. old \in Slots(b) /\ (old[k].used => k \in UsedOf(old, b)) BY DEF GoodTable, UsedOf
<1>3. CASE ~old[k].used
  <2>1. r = s BY <1>3 DEF Rehash
  <2>2. Done(old, k + 1) = Done(old, k) BY <1>1, <1>3, DoneOneMore
  <2> QED BY <2>1, <2>2 DEF Grown
<1>4. CASE old[k].used
  <2>1. PICK K : K = old[k].ttl OBVIOUS
  <2>2. K \in TTL BY <1>2, <1>4, <2>1 DEF GoodTable
  <2>3. s \in TableOf(c) /\ GoodTable(s.tab, c) BY DEF Grown
  <2>4. PICK x : x = find_slot(s.tab, c, K) OBVIOUS
  <2>5. \E y \in At(c) : ~s.tab[y].used BY <1>4, <2>1, <2>4, RehashPlace
  <2>6. x \in At(c) BY <1>4, <2>1, <2>4, RehashPlace
  <2>7. ~s.tab[x].used BY <1>4, <2>1, <2>4, RehashPlace
  <2>8. PICK m : m = Moved(s, x, old[k]) OBVIOUS
  <2>9. m \in TableOf(c) /\ Opened(s.tab, m.tab, c, x, K) /\ m.count = s.count + 1
    BY <1>2, <1>4, <2>1, <2>3, <2>6, <2>8, MoveSlot
  <2>10. GoodTable(m.tab, c) /\ UsedOf(m.tab, c) = UsedOf(s.tab, c) \cup {x} /\ x \notin UsedOf(s.tab, c)
    <3>1. PICK t, u : t = s.tab /\ u = m.tab OBVIOUS
    <3>2. GoodTable(t, c) /\ Opened(t, u, c, x, K) /\ ~t[x].used /\ x = find_slot(t, c, K)
      BY <2>3, <2>4, <2>7, <2>9, <3>1
    <3>3. \E y \in At(c) : ~t[y].used BY <2>5, <3>1
    <3>4. GoodTable(u, c) /\ UsedOf(u, c) = UsedOf(t, c) \cup {x} /\ x \notin UsedOf(t, c)
      BY <2>2, <3>2, <3>3, Put
    <3> QED BY <3>1, <3>4
  <2>11. r \in TableOf(c) /\ SameKeys(m.tab, r.tab, c) /\ r.count = m.count
    <3>1. r = IF old[k].head = NULL THEN m ELSE live_link(m, x)
      BY <1>4, <2>1, <2>4, <2>8, Zenon DEF Rehash
    <3>2. CASE old[k].head = NULL
      <4>1. m.tab \in Slots(c) BY <2>10 DEF GoodTable
      <4> QED BY <2>9, <3>1, <3>2, <4>1, SameKeysItself
    <3>3. CASE old[k].head # NULL
      <4>1. r = live_link(m, x) BY <3>1, <3>3
      <4> QED BY <2>6, <2>9, <4>1, LiveLink
    <3> QED BY <3>2, <3>3
  <2>12. GoodTable(r.tab, c) /\ UsedOf(r.tab, c) = UsedOf(s.tab, c) \cup {x}
    BY <2>10, <2>11, SameKeysGood
  <2>13. r.count = s.count + 1 BY <2>9, <2>11
  <2>14. s.count = Cardinality(UsedOf(s.tab, c)) /\ s.count = Cardinality(Done(old, k)) BY DEF Grown
  <2>15. Done(old, k + 1) = Done(old, k) \cup {k} BY <1>1, <1>4, DoneOneMore
  <2>16. r.count = Cardinality(UsedOf(r.tab, c))
    BY <2>10, <2>12, <2>13, <2>14, UsedIsFinite, FS_AddElement, ZenonT(60)
  <2>17. r.count = Cardinality(Done(old, k + 1))
    <3>1. IsFiniteSet(Done(old, k)) /\ k \notin Done(old, k) BY <1>1, DoneOneMore
    <3> QED BY <2>13, <2>14, <2>15, <3>1, FS_AddElement
  <2>18. ASSUME NEW y \in UsedOf(r.tab, c) PROVE \E j \in Done(old, k + 1) : old[j].ttl = r.tab[y].ttl
    <3>1. y \in At(c) BY DEF UsedOf
    <3>2. r.tab[y].ttl = m.tab[y].ttl BY <2>11, <3>1 DEF SameKeys
    <3>3. CASE y = x
      <4>1. m.tab[y].ttl = K BY <2>9, <3>3 DEF Opened
      <4> QED BY <2>1, <2>15, <3>2, <4>1
    <3>4. CASE y # x
      <4>1. y \in UsedOf(s.tab, c) BY <2>12, <3>4
      <4>2. m.tab[y].ttl = s.tab[y].ttl BY <2>9, <3>1, <3>4 DEF Opened
      <4>3. \E j \in Done(old, k) : old[j].ttl = s.tab[y].ttl BY <4>1 DEF Grown
      <4> QED BY <2>15, <3>2, <4>2, <4>3
    <3> QED BY <3>3, <3>4
  <2> QED BY <2>11, <2>12, <2>16, <2>17, <2>18 DEF Grown
<1> QED BY <1>3, <1>4

\* The doubled table has every TTL of the old one, and no other slot is used.
LEMMA Growth ==
  ASSUME NEW b \in Bits, b + 1 \in Bits, NEW s, s \in TableOf(b), GoodTable(s.tab, b), NEW r, r = grow(s, b)
  PROVE  /\ r \in TableOf(b + 1) /\ GoodTable(r.tab, b + 1)
         /\ r.count = Cardinality(UsedOf(r.tab, b + 1))
         /\ r.count = Cardinality(UsedOf(s.tab, b))
<1>1. PICK c \in Bits : c = b + 1 OBVIOUS
<1>2. PICK old : old = s.tab OBVIOUS
<1>3. b \in Nat /\ 2 ^ b \in Nat \ {0} /\ 2 ^ c \in Nat \ {0} /\ 2 ^ b <= 2 ^ c
  <2>1. b \in Nat /\ 2 ^ b \in Nat \ {0} BY Capacity
  <2>2. 2 ^ c = 2 * 2 ^ b BY <1>1, <2>1, PowerDoubles
  <2> QED BY <2>1, <2>2
<1> DEFINE State == [i : Nat, s : TableOf(c)]
           P == [k \in Nat |-> {g \in State : g.i = k /\ Grown(old, c, k, g.s)}]
           empty == [tab |-> [i \in 0 .. (2 ^ c - 1) |-> FreeSlot], live_head |-> NULL, count |-> 0]
           first == [i |-> 0, s |-> empty]
           f == Rehashing(old, c)
<1>4. f = [g \in State |-> [i |-> g.i + 1, s |-> Rehash(g.s, c, old[g.i])]]
  BY Zenon DEF Rehashing, TableOf
<1>5. r = Iterate(f, first, 2 ^ b).s
  BY <1>1, <1>2, Zenon DEF grow
<1>6. Grown(old, c, 0, empty)
  <2>1. empty \in TableOf(c) /\ empty.count = 0 /\ empty.tab \in Slots(c)
    BY DEF TableOf, Slots, Slot, FreeSlot, BladePtr, NodePtr
  <2>2. \A x \in At(c) : ~empty.tab[x].used BY DEF At, FreeSlot
  <2>3. UsedOf(empty.tab, c) = {} BY <2>2 DEF UsedOf
  <2>4. Done(old, 0) = {} BY DEF Done
  <2> HIDE DEF empty
  <2> QED BY <2>1, <2>3, <2>4, FS_EmptySet DEF Grown, GoodTable
<1>7. first \in P[0]
  <2>1. empty \in TableOf(c) BY <1>6 DEF Grown
  <2> HIDE DEF empty
  <2>2. first \in State /\ first.i = 0 /\ first.s = empty BY <2>1
  <2> HIDE DEF first, State
  <2> QED BY <1>6, <2>2
<1>8. ASSUME NEW k \in 0 .. (2 ^ b - 1), NEW g \in P[k] PROVE f[g] \in P[k + 1]
  <2>1. k \in Nat /\ k + 1 \in Nat /\ k \in At(b) BY DEF At
  <2>2. g \in State /\ g.i = k /\ Grown(old, c, k, g.s) BY <2>1
  <2>3. PICK q : q = Rehash(g.s, c, old[k]) OBVIOUS
  <2>4. Grown(old, c, k + 1, q) BY <1>2, <1>3, <2>1, <2>2, <2>3, RehashOne
  <2>5. q \in TableOf(c) BY <2>4 DEF Grown
  <2>6. PICK h : h = [i |-> k + 1, s |-> q] OBVIOUS
  <2>7. f[g] = h
    <3> HIDE DEF f, State
    <3> QED BY <1>4, <2>2, <2>3, <2>6
  <2>8. h \in State /\ h.i = k + 1 /\ h.s = q BY <2>1, <2>5, <2>6
  <2> HIDE DEF f, State
  <2> QED BY <2>1, <2>4, <2>7, <2>8
<1>9. Iterate(f, first, 2 ^ b) \in P[2 ^ b]
  <2> HIDE DEF f, first, P
  <2>1. PICK n \in Nat : n = 2 ^ b BY <1>3
  <2>2. \A k \in 0 .. (n - 1) : \A g \in P[k] : f[g] \in P[k + 1] BY <1>8, <2>1
  <2>3. Iterate(f, first, n) \in P[n] BY <1>7, <2>2, IteratesThrough
  <2> QED BY <2>1, <2>3
<1>10. Grown(old, c, 2 ^ b, r)
  <2> HIDE DEF f, first, State
  <2> QED BY <1>3, <1>5, <1>9
<1>11. Done(old, 2 ^ b) = UsedOf(old, b) BY DEF Done, UsedOf, At
<1> QED BY <1>1, <1>2, <1>10, <1>11 DEF Grown

(***************************************************************************)
(* The walk of collect_expired.                                             *)
(***************************************************************************)
\* The nodes in the store have a TTL of the program; no node enters the store.
KnownTTLs(m) == m \in [Node -> lawn2_timer] /\ \A n \in Node : m[n].in_store => m[n].ttl \in TTL
NoneEnters(m, m1) ==
  /\ m1 \in [Node -> lawn2_timer]
  /\ \A n \in Node : m1[n].in_store => m[n].in_store /\ m1[n].ttl = m[n].ttl

LEMMA NodeNextSet ==
  ASSUME NEW m \in [Node -> lawn2_timer], NEW x, NEW v \in NodePtr, NEW m1, m1 = [m EXCEPT ![x].next = v]
  PROVE  NoneEnters(m, m1)
BY DEF lawn2_timer, NoneEnters

LEMMA NodePrevSet ==
  ASSUME NEW m \in [Node -> lawn2_timer], NEW x, NEW v \in NodePtr, NEW m1, m1 = [m EXCEPT ![x].prev = v]
  PROVE  NoneEnters(m, m1)
BY DEF lawn2_timer, NoneEnters

LEMMA NodeLeaves ==
  ASSUME NEW m \in [Node -> lawn2_timer], NEW x, NEW m1, m1 = [m EXCEPT ![x].in_store = FALSE]
  PROVE  NoneEnters(m, m1)
BY DEF lawn2_timer, NoneEnters

LEMMA NoneEntersChain ==
  ASSUME NEW m, NEW m1, NEW m2, NoneEnters(m, m1), NoneEnters(m1, m2)
  PROVE  NoneEnters(m, m2)
BY DEF NoneEnters

LEMMA TTLsStayKnown ==
  ASSUME NEW m, NEW m1, KnownTTLs(m), NoneEnters(m, m1) PROVE KnownTTLs(m1)
BY DEF KnownTTLs, NoneEnters

\* Node n out of its blade, next and prev of its neighbours set before.
LEMMA NodeOut ==
  ASSUME NEW m \in [Node -> lawn2_timer], NEW n, NEW v \in NodePtr, NEW m1,
         m1 = [m EXCEPT ![n].next = v, ![n].prev = NULL, ![n].in_store = FALSE]
  PROVE  NoneEnters(m, m1)
<1>1. NULL \in NodePtr BY DEF NodePtr
<1>2. PICK a : a = [m EXCEPT ![n].next = v] OBVIOUS
<1>3. NoneEnters(m, a) BY <1>2, NodeNextSet
<1>4. a \in [Node -> lawn2_timer] BY <1>3 DEF NoneEnters
<1>5. PICK c : c = [a EXCEPT ![n].prev = NULL] OBVIOUS
<1>6. NoneEnters(a, c) BY <1>1, <1>4, <1>5, NodePrevSet
<1>7. c \in [Node -> lawn2_timer] BY <1>6 DEF NoneEnters
<1>8. m1 = [c EXCEPT ![n].in_store = FALSE] BY <1>2, <1>5, Zenon
<1>9. NoneEnters(c, m1) BY <1>7, <1>8, NodeLeaves
<1> QED BY <1>3, <1>6, <1>9, NoneEntersChain

\* What the walk keeps of the table t it began with.
Walked(t, w) == w \in Walk /\ SameKeys(t, w.tab, bits) /\ KnownTTLs(w.node)

LEMMA PopOne ==
  ASSUME NEW t, NEW w, Walked(t, w), w.b # NULL, w.tab[w.b].head # NULL,
         NEW collect, NEW r, r = PopHead(w, collect)
  PROVE  Walked(t, r) /\ r.b = w.b
<1>1. PICK x, tb, n, m : x = w.b /\ tb = w.tab /\ n = tb[x].head /\ m = w.node OBVIOUS
<1>2. w \in Walk /\ SameKeys(t, tb, bits) /\ KnownTTLs(m) BY <1>1 DEF Walked
<1>3. x \in At(bits) /\ tb \in Slots(bits) /\ m \in [Node -> lawn2_timer]
  BY <1>1, <1>2 DEF Walk, BladePtr, At
<1>4. n \in Node
  <2>1. tb[x] \in Slot(bits) BY <1>3 DEF Slots, At
  <2> QED BY <1>1, <2>1 DEF Slot, NodePtr
<1>5. PICK next : next = m[n].next OBVIOUS
<1>6. next \in NodePtr /\ NULL \in NodePtr BY <1>3, <1>4, <1>5 DEF lawn2_timer, NodePtr
<1>7. PICK t1 : t1 = [tb EXCEPT ![x].head = next] OBVIOUS
<1>8. SameKeys(tb, t1, bits) BY <1>3, <1>6, <1>7, HeadSet
<1>9. PICK tail : tail = IF next = NULL THEN NULL ELSE tb[x].tail OBVIOUS
<1>10. t1 \in Slots(bits) /\ tail \in NodePtr
  <2>1. t1 \in Slots(bits) BY <1>8 DEF SameKeys
  <2>2. tb[x].tail \in NodePtr BY <1>3 DEF Slots, Slot, At
  <2> QED BY <1>6, <1>9, <2>1, <2>2
<1>11. PICK t2 : t2 = [t1 EXCEPT ![x].tail = tail] OBVIOUS
<1>12. SameKeys(t1, t2, bits) BY <1>10, <1>11, TailSet
<1>13. SameKeys(t, t2, bits) BY <1>2, <1>8, <1>12, SameKeysChain
<1>14. PICK m1 : m1 = IF next = NULL THEN m ELSE [m EXCEPT ![next].prev = NULL] OBVIOUS
<1>15. NoneEnters(m, m1)
  <2>1. CASE next = NULL BY <1>3, <1>14, <2>1 DEF NoneEnters
  <2>2. CASE next # NULL
    <3>1. m1 = [m EXCEPT ![next].prev = NULL] BY <1>14, <2>2
    <3> QED BY <1>3, <1>6, <3>1, NodePrevSet
  <2> QED BY <2>1, <2>2
<1>16. PICK v, o : v = (IF collect THEN w.out ELSE NULL) /\ o = (IF collect THEN n ELSE NULL) OBVIOUS
<1>17. v \in NodePtr /\ o \in NodePtr
  <2>1. w.out \in NodePtr /\ n \in NodePtr BY <1>2, <1>4 DEF Walk, NodePtr
  <2> QED BY <1>6, <1>16, <2>1
<1>18. PICK m2 : m2 = [m1 EXCEPT ![n].next = v, ![n].prev = NULL, ![n].in_store = FALSE] OBVIOUS
<1>19. KnownTTLs(m2)
  <2>1. m1 \in [Node -> lawn2_timer] BY <1>15 DEF NoneEnters
  <2>2. NoneEnters(m1, m2) BY <1>17, <1>18, <2>1, NodeOut
  <2>3. NoneEnters(m, m2) BY <1>15, <2>2, NoneEntersChain
  <2> QED BY <1>2, <2>3, TTLsStayKnown
<1>20. PICK f \in Nat : f = w.fired + 1
  <2>1. w.fired \in Nat BY <1>2 DEF Walk
  <2> QED BY <2>1
<1>21. r = [w EXCEPT !.tab = t2, !.node = m2, !.out = o, !.fired = f]
  <2>1. PICK w1 : w1 = [w EXCEPT !.tab[x].head = next] OBVIOUS
  <2>2. w1 = [w EXCEPT !.tab = t1] BY <1>1, <1>7, <2>1, Zenon
  <2>3. r = [w1 EXCEPT !.tab[x].tail = tail, !.node = m2, !.out = o, !.fired = f]
    BY <1>1, <1>5, <1>9, <1>14, <1>16, <1>18, <1>20, <2>1, Zenon DEF PopHead
  <2>4. w1.tab = t1 BY <1>2, <2>2 DEF Walk
  <2>5. r = [w1 EXCEPT !.tab = t2, !.node = m2, !.out = o, !.fired = f] BY <1>11, <2>3, <2>4, Zenon
  <2> QED BY <1>2, <2>2, <2>5 DEF Walk
<1>22. t2 \in Slots(bits) /\ m2 \in [Node -> lawn2_timer] BY <1>13, <1>19 DEF SameKeys, KnownTTLs
<1>23. r \in Walk /\ r.tab = t2 /\ r.node = m2 /\ r.b = w.b
  BY <1>2, <1>17, <1>20, <1>21, <1>22 DEF Walk
<1> QED BY <1>13, <1>19, <1>23 DEF Walked

\* The inner loop.
LEMMA PopAll ==
  ASSUME NEW t, NEW w, Walked(t, w), w.b # NULL, NEW tm, NEW collect, NEW k \in Nat,
         NEW r, r = Iterate(Popping(tm, collect), w, k)
  PROVE  Walked(t, r) /\ r.b = w.b
<1> DEFINE P == {v \in Walk : Walked(t, v) /\ v.b = w.b}
           f == Popping(tm, collect)
<1>1. w \in P BY DEF Walked
<1>2. ASSUME NEW v \in P PROVE f[v] \in P
  <2>1. v \in Walk /\ Walked(t, v) /\ v.b = w.b OBVIOUS
  <2>2. PICK q : q = PopHead(v, collect) OBVIOUS
  <2>3. f[v] = v \/ (v.tab[v.b].head # NULL /\ f[v] = q)
    BY <2>1, <2>2, Zenon DEF Popping
  <2>4. v.tab[v.b].head # NULL => Walked(t, q) /\ q.b = v.b BY <2>1, <2>2, PopOne
  <2>5. Walked(t, q) => q \in Walk BY DEF Walked
  <2> HIDE DEF f
  <2> QED BY <2>1, <2>3, <2>4, <2>5
<1> HIDE DEF f, P
<1>3. Iterate(f, w, k) \in P BY <1>1, <1>2, Iterates
<1>4. r \in P BY <1>3 DEF f
<1> QED BY <1>4 DEF P

\* What the outer loop does with a blade once its nodes are popped.
LEMMA BladePopped ==
  ASSUME NEW t, NEW w, Walked(t, w), w.b # NULL, NEW r, r = Popped(w)
  PROVE  Walked(t, r)
<1>1. w \in Walk /\ SameKeys(t, w.tab, bits) /\ KnownTTLs(w.node) BY DEF Walked
<1>2. w.b \in At(bits) /\ w.tab \in Slots(bits) /\ w.live_head \in BladePtr(bits)
  BY <1>1 DEF Walk, BladePtr, At
<1>3. PICK x, head : x = w.b /\ head = w.tab[x].head OBVIOUS
<1>4. CASE head = NULL
  <2>1. PICK u, h : u = UnlinkedTab(w.tab, x) /\ h = UnlinkedHead(w, x) OBVIOUS
  <2>2. live_unlink(w, x) = [w EXCEPT !.tab = u, !.live_head = h] /\ SameKeys(w.tab, u, bits) /\ h \in BladePtr(bits)
    <3>1. x \in At(bits) /\ w.tab \in Slots(bits) /\ w.live_head \in BladePtr(bits) BY <1>2, <1>3
    <3>2. /\ live_unlink(w, x) = [w EXCEPT !.tab = UnlinkedTab(w.tab, x), !.live_head = UnlinkedHead(w, x)]
          /\ SameKeys(w.tab, UnlinkedTab(w.tab, x), bits) /\ UnlinkedHead(w, x) \in BladePtr(bits)
      BY <3>1, LiveUnlink, Zenon
    <3> QED BY <2>1, <3>2, Zenon
  <2>3. r = [w EXCEPT !.tab = u, !.live_head = h] BY <1>3, <1>4, <2>2, Zenon DEF Popped
  <2>4. u \in Slots(bits) BY <2>2 DEF SameKeys
  <2>5. r \in Walk /\ r.tab = u /\ r.node = w.node BY <1>1, <2>2, <2>3, <2>4 DEF Walk
  <2>6. SameKeys(t, u, bits) BY <1>1, <2>2, SameKeysChain
  <2> QED BY <1>1, <2>5, <2>6 DEF Walked
<1>5. CASE head # NULL
  <2>1. head \in Node
    <3>1. w.tab[x] \in Slot(bits) BY <1>2, <1>3 DEF Slots, At
    <3> QED BY <1>3, <1>5, <3>1 DEF Slot, NodePtr
  <2>2. PICK e : e = Earlier(w.node[head].expiration, w.ne) OBVIOUS
  <2>3. e \in Nat
    <3>1. w.node[head] \in lawn2_timer /\ w.ne \in Nat BY <1>1, <2>1 DEF Walk
    <3> QED BY <2>2, <3>1 DEF Earlier, lawn2_timer
  <2>4. r = [w EXCEPT !.ne = e] BY <1>3, <1>5, <2>2, Zenon DEF Popped
  <2>5. r \in Walk /\ r.tab = w.tab /\ r.node = w.node BY <1>1, <2>3, <2>4 DEF Walk
  <2> QED BY <1>1, <2>5 DEF Walked
<1> QED BY <1>4, <1>5

\* The outer loop.
LEMMA WalkAll ==
  ASSUME NEW t, NEW w, Walked(t, w), NEW tm, NEW collect, NEW k \in Nat,
         NEW r, r = Iterate(Walking(tm, collect), w, k)
  PROVE  Walked(t, r)
<1> DEFINE P == {v \in Walk : Walked(t, v)}
           f == Walking(tm, collect)
<1>1. w \in P BY DEF Walked
<1>2. ASSUME NEW v \in P PROVE f[v] \in P
  <2>1. v \in Walk /\ Walked(t, v) OBVIOUS
  <2>2. CASE v.b = NULL
    <3>1. f[v] = v BY <2>1, <2>2, Zenon DEF Walking
    <3> QED BY <2>1, <3>1
  <2>3. CASE v.b # NULL
    <3>1. PICK p : p = Iterate(Popping(tm, collect), v, Cardinality(Node)) OBVIOUS
    <3>2. PICK q, x : q = Popped(p) /\ x = v.tab[v.b].live_next OBVIOUS
    <3>3. f[v] = [q EXCEPT !.b = x] BY <2>1, <2>3, <3>1, <3>2, Zenon DEF Walking
    <3>4. Cardinality(Node) \in Nat BY LinksAssumption, FS_CardinalityType
    <3>5. Walked(t, p) /\ p.b # NULL BY <2>1, <2>3, <3>1, <3>4, PopAll
    <3>6. Walked(t, q) BY <3>2, <3>5, BladePopped
    <3>7. x \in BladePtr(bits)
      <4>1. v.b \in At(bits) /\ v.tab \in Slots(bits) BY <2>1, <2>3 DEF Walk, BladePtr, At
      <4> QED BY <3>2, <4>1 DEF Slots, Slot, At
    <3>8. PICK z : z = [q EXCEPT !.b = x] OBVIOUS
    <3>9. z \in Walk /\ z.tab = q.tab /\ z.node = q.node BY <3>6, <3>7, <3>8 DEF Walked, Walk
    <3>10. Walked(t, z) BY <3>6, <3>9 DEF Walked
    <3> HIDE DEF f
    <3> QED BY <3>3, <3>8, <3>9, <3>10
  <2> QED BY <2>2, <2>3
<1> HIDE DEF f, P
<1>3. Iterate(f, w, k) \in P BY <1>1, <1>2, Iterates
<1>4. r \in P BY <1>3 DEF f
<1> QED BY <1>4 DEF P

(***************************************************************************)
(* The invariant.                                                           *)
(***************************************************************************)
TypesOK ==
  /\ bits \in InitBits .. MaxBits
  /\ tab \in Slots(bits) /\ live_head \in BladePtr(bits) /\ count \in Nat
  /\ now \in Nat /\ next_expiration \in Nat
  /\ KnownTTLs(node)

\* A table of 2^b slots is good, counted and not too full for one more TTL
\* than it holds to be looked up.
Sound(t, b, c) == GoodTable(t, b) /\ c = Cardinality(UsedOf(t, b)) /\ c * 10 < 2 ^ b * 7

TableInv == TypesOK /\ Sound(tab, bits, count)

LEMMA SoundHasRoom ==
  ASSUME NEW t, NEW b \in Bits, NEW c \in Nat, Sound(t, b, c)
  PROVE  \E y \in At(b) : ~t[y].used
<1>1. 2 ^ b \in Nat BY Capacity
<1>2. c * 10 < 2 ^ b * 7 /\ c = Cardinality(UsedOf(t, b)) BY DEF Sound
<1>3. c < 2 ^ b BY <1>1, <1>2
<1> QED BY <1>2, <1>3, RoomLeft

LEMMA SoundSameKeys ==
  ASSUME NEW t, NEW u, NEW b \in Bits, NEW c, Sound(t, b, c), SameKeys(t, u, b)
  PROVE  Sound(u, b, c) /\ u \in Slots(b)
BY SameKeysGood DEF Sound, GoodTable

LEMMA TableInvImplies == TableInv => TableFindsEveryTTL
<1> SUFFICES ASSUME TableInv PROVE TableFindsEveryTTL OBVIOUS
<1>1. bits \in Bits BY LinksAssumption DEF TableInv, TypesOK, Bits
<1>2. GoodTable(tab, bits) /\ count = Cardinality(UsedOf(tab, bits)) /\ count * 10 < cap * 7
  BY DEF TableInv, Sound, cap
<1>3. Used = UsedOf(tab, bits) BY <1>2 DEF Used, UsedOf, GoodTable, Slots, At
<1>4. \A x \in Used : find_slot(tab, bits, tab[x].ttl) = x BY <1>1, <1>2, <1>3, FoundIsFound
<1> QED BY <1>2, <1>3, <1>4 DEF TableFindsEveryTTL

LEMMA TableInvInit == Init => TableInv
<1> SUFFICES ASSUME Init PROVE TableInv OBVIOUS
<1>1. bits \in Bits /\ bits \in InitBits .. MaxBits /\ bits >= 1 BY LinksAssumption DEF Init, Bits
<1>2. 2 ^ bits \in Nat \ {0} BY <1>1, Capacity
<1>3. tab = [i \in At(bits) |-> FreeSlot] BY DEF Init, At
<1>4. tab \in Slots(bits) BY <1>3 DEF Slots, Slot, FreeSlot, At, BladePtr, NodePtr
<1>5. UsedOf(tab, bits) = {} BY <1>3 DEF UsedOf, FreeSlot
<1>6. Sound(tab, bits, count)
  <2>1. count = 0 BY DEF Init
  <2> QED BY <1>2, <1>4, <1>5, <2>1, FS_EmptySet DEF Sound, GoodTable
<1>7. KnownTTLs(node) BY DEF Init, KnownTTLs, FreshNode, lawn2_timer, NodePtr
<1>8. live_head \in BladePtr(bits) /\ count \in Nat /\ now \in Nat /\ next_expiration \in Nat
  BY LinksAssumption DEF Init, BladePtr
<1> QED BY <1>1, <1>4, <1>6, <1>7, <1>8 DEF TableInv, TypesOK

\* A table whose slots alone change.
LEMMA TabSet ==
  ASSUME NEW b, NEW s \in TableOf(b), NEW t \in Slots(b), NEW r, r = [s EXCEPT !.tab = t]
  PROVE  r \in TableOf(b) /\ r.tab = t /\ r.live_head = s.live_head /\ r.count = s.count
BY DEF TableOf

\* Before lawn2_add looks for its blade there is room for one more.
LEMMA RoomMade ==
  ASSUME TableInv, NEW b, b = (IF MustGrow THEN bits + 1 ELSE bits),
         NEW s, s = (IF MustGrow THEN grow(Table, bits) ELSE Table)
  PROVE  /\ b \in InitBits .. MaxBits /\ s \in TableOf(b)
         /\ Sound(s.tab, b, s.count) /\ (s.count + 1) * 10 < 2 ^ b * 7
<1>1. bits \in Bits /\ bits \in Nat /\ bits \in InitBits .. MaxBits
  BY LinksAssumption DEF TableInv, TypesOK, Bits
<1>2. Table \in TableOf(bits) /\ Table.tab = tab /\ Table.count = count
  BY DEF TableInv, TypesOK, TableOf, Table
<1>3. GoodTable(tab, bits) /\ count = Cardinality(UsedOf(tab, bits)) /\ count * 10 < 2 ^ bits * 7
  BY DEF TableInv, Sound
<1>4. count \in Nat BY DEF TableInv, TypesOK
<1>5. CASE ~MustGrow
  <2>1. b = bits /\ s = Table BY <1>5
  <2>2. (count + 1) * 10 < 2 ^ bits * 7
    <3>1. 2 ^ bits \in Nat BY <1>1, Capacity
    <3> QED BY <1>4, <1>5, <3>1 DEF MustGrow, cap
  <2> QED BY <1>1, <1>2, <1>3, <2>1, <2>2 DEF Sound
<1>6. CASE MustGrow
  <2>1. b = bits + 1 /\ s = grow(Table, bits) BY <1>6
  <2>2. bits # MaxBits
    <3> SUFFICES ASSUME bits = MaxBits PROVE FALSE OBVIOUS
    <3>1. PICK n \in Nat : n = 2 ^ MaxBits BY <1>1, Capacity
    <3>2. count <= Cardinality(TTL) /\ Cardinality(TTL) \in Nat BY <1>1, <1>3, NoMoreThanTTLs
    <3>3. (Cardinality(TTL) + 1) * 10 < n * 7 BY <3>1, LinksAssumption
    <3>4. (count + 1) * 10 >= n * 7 BY <1>6, <3>1 DEF MustGrow, cap
    <3> QED BY <1>4, <3>2, <3>3, <3>4
  <2>3. b \in Bits /\ bits + 1 \in Bits /\ b \in InitBits .. MaxBits
    BY <1>1, <2>1, <2>2, LinksAssumption DEF Bits
  <2>4. GoodTable(Table.tab, bits) BY <1>2, <1>3
  <2>5. /\ s \in TableOf(bits + 1) /\ GoodTable(s.tab, bits + 1)
        /\ s.count = Cardinality(UsedOf(s.tab, bits + 1))
        /\ s.count = Cardinality(UsedOf(Table.tab, bits))
    BY <1>1, <1>2, <2>1, <2>3, <2>4, Growth
  <2>6. s.count = count BY <1>2, <1>3, <2>5
  <2>7. (count + 1) * 10 < 2 ^ b * 7 /\ count * 10 < 2 ^ b * 7
    <3>1. PICK n \in Nat : n = 2 ^ bits BY <1>1, Capacity
    <3>2. 2 ^ b = 2 * n BY <1>1, <2>1, <3>1, PowerDoubles
    <3>3. n >= 2
      <4>1. PICK a \in Nat : bits = a + 1
        <5>1. bits - 1 \in Nat /\ bits = (bits - 1) + 1 BY <1>1, LinksAssumption
        <5> QED BY <5>1
      <4>2. n = 2 * 2 ^ a /\ 2 ^ a \in Nat \ {0} BY <3>1, <4>1, PowerDoubles, PowerIsPositive
      <4> QED BY <4>2
    <3>4. count * 10 < n * 7 BY <1>3, <3>1
    <3> QED BY <1>4, <3>1, <3>2, <3>3, <3>4
  <2> QED BY <2>1, <2>3, <2>5, <2>6, <2>7 DEF Sound
<1> QED BY <1>5, <1>6

\* A free slot becomes the blade of k.
LEMMA BladeOpened ==
  ASSUME NEW b, NEW s \in TableOf(b), NEW x \in At(b), NEW k \in TTL, NEW r, r = OpenBlade(s, x, k)
  PROVE  r \in TableOf(b) /\ Opened(s.tab, r.tab, b, x, k) /\ r.count = s.count + 1
<1>1. PICK t : t = s.tab OBVIOUS
<1>2. t \in Slots(b) BY <1>1 DEF TableOf
<1>3. NULL \in NodePtr /\ k \in Nat BY LinksAssumption DEF NodePtr
<1>4. PICK s1, t1 : s1 = [s EXCEPT !.tab[x].used = TRUE] /\ t1 = [t EXCEPT ![x].used = TRUE] OBVIOUS
<1>5. /\ t1 \in Slots(b) /\ t1[x].used
      /\ \A y \in At(b) : y # x => t1[y] = t[y]
  BY <1>2, <1>4 DEF Slots, Slot, At
<1>6. s1 \in TableOf(b) /\ s1.tab = t1 /\ s1.count = s.count
  <2>1. s1 = [s EXCEPT !.tab = t1] BY <1>1, <1>4, Zenon
  <2> QED BY <1>5, <2>1, TabSet
<1>7. PICK s2, t2 : s2 = [s1 EXCEPT !.tab[x].ttl = k] /\ t2 = [t1 EXCEPT ![x].ttl = k] OBVIOUS
<1>8. /\ t2 \in Slots(b) /\ t2[x].used /\ t2[x].ttl = k
      /\ \A y \in At(b) : y # x => t2[y] = t[y]
  BY <1>3, <1>5, <1>7 DEF Slots, Slot, At
<1>9. s2 \in TableOf(b) /\ s2.tab = t2 /\ s2.count = s.count
  <2>1. s2 = [s1 EXCEPT !.tab = t2] BY <1>6, <1>7, Zenon
  <2> QED BY <1>6, <1>8, <2>1, TabSet
<1>10. PICK s3, t3 : s3 = [s2 EXCEPT !.tab[x].head = NULL] /\ t3 = [t2 EXCEPT ![x].head = NULL] OBVIOUS
<1>11. SameKeys(t2, t3, b) BY <1>3, <1>8, <1>10, HeadSet
<1>12. s3 \in TableOf(b) /\ s3.tab = t3 /\ s3.count = s.count
  <2>1. s3 = [s2 EXCEPT !.tab = t3] BY <1>9, <1>10, Zenon
  <2>2. t3 \in Slots(b) BY <1>11 DEF SameKeys
  <2> QED BY <1>9, <2>1, <2>2, TabSet
<1>13. PICK s4, t4 : s4 = [s3 EXCEPT !.tab[x].tail = NULL] /\ t4 = [t3 EXCEPT ![x].tail = NULL] OBVIOUS
<1>14. SameKeys(t3, t4, b)
  <2>1. t3 \in Slots(b) BY <1>11 DEF SameKeys
  <2> QED BY <1>3, <1>13, <2>1, TailSet
<1>15. s4 \in TableOf(b) /\ s4.tab = t4 /\ s4.count = s.count
  <2>1. s4 = [s3 EXCEPT !.tab = t4] BY <1>12, <1>13, Zenon
  <2>2. t4 \in Slots(b) BY <1>14 DEF SameKeys
  <2> QED BY <1>12, <2>1, <2>2, TabSet
<1>16. PICK c \in Nat : c = s.count + 1
  <2>1. s.count \in Nat BY DEF TableOf
  <2> QED BY <2>1
<1>17. r = [s4 EXCEPT !.count = c] BY <1>4, <1>7, <1>10, <1>13, <1>16, Zenon DEF OpenBlade
<1>18. r \in TableOf(b) /\ r.tab = t4 /\ r.count = s.count + 1 BY <1>15, <1>16, <1>17 DEF TableOf
<1>19. SameKeys(t2, t4, b) BY <1>11, <1>14, SameKeysChain
<1>20. Opened(t, t4, b, x, k) BY <1>8, <1>19 DEF Opened, SameKeys
<1> QED BY <1>1, <1>18, <1>20

\* A node at the tail of blade x.
LEMMA NodeAppended ==
  ASSUME NEW b, NEW s \in TableOf(b), NEW x \in At(b), NEW n \in Node, NEW r, r = PushTail(s, x, n)
  PROVE  r \in TableOf(b) /\ SameKeys(s.tab, r.tab, b) /\ r.count = s.count
<1>1. PICK t, h : t = s.tab /\ h = IF t[x].tail = NULL THEN n ELSE t[x].head OBVIOUS
<1>2. t \in Slots(b) BY <1>1 DEF TableOf
<1>3. h \in NodePtr /\ n \in NodePtr BY <1>1, <1>2 DEF Slots, Slot, At, NodePtr
<1>4. PICK s1, t1 : s1 = [s EXCEPT !.tab[x].head = h] /\ t1 = [t EXCEPT ![x].head = h] OBVIOUS
<1>5. SameKeys(t, t1, b) BY <1>2, <1>3, <1>4, HeadSet
<1>6. s1 \in TableOf(b) /\ s1.tab = t1 /\ s1.count = s.count
  <2>1. s1 = [s EXCEPT !.tab = t1] BY <1>1, <1>4, Zenon
  <2>2. t1 \in Slots(b) BY <1>5 DEF SameKeys
  <2> QED BY <2>1, <2>2, TabSet
<1>7. PICK t2 : t2 = [t1 EXCEPT ![x].tail = n] OBVIOUS
<1>8. SameKeys(t1, t2, b)
  <2>1. t1 \in Slots(b) BY <1>5 DEF SameKeys
  <2> QED BY <1>3, <1>7, <2>1, TailSet
<1>9. r = [s1 EXCEPT !.tab[x].tail = n] BY <1>1, <1>4, Zenon DEF PushTail
<1>10. r \in TableOf(b) /\ r.tab = t2 /\ r.count = s.count
  <2>1. r = [s1 EXCEPT !.tab = t2] BY <1>6, <1>7, <1>9, Zenon
  <2>2. t2 \in Slots(b) BY <1>8 DEF SameKeys
  <2>3. PICK q : q = [s1 EXCEPT !.tab = t2] OBVIOUS
  <2>4. q \in TableOf(b) /\ q.tab = t2 /\ q.count = s1.count BY <1>6, <2>2, <2>3, TabSet
  <2> QED BY <1>6, <2>1, <2>3, <2>4, Zenon
<1>11. SameKeys(t, t2, b) BY <1>5, <1>8, SameKeysChain
<1> QED BY <1>1, <1>10, <1>11

\* The slot of k once it is a blade of k.
LEMMA BladeReady ==
  ASSUME NEW b \in Bits, NEW s \in TableOf(b), Sound(s.tab, b, s.count), (s.count + 1) * 10 < 2 ^ b * 7,
         NEW k \in TTL, NEW x, x = find_slot(s.tab, b, k),
         NEW r, r = (IF s.tab[x].used THEN s ELSE OpenBlade(s, x, k))
  PROVE  /\ x \in At(b) /\ r \in TableOf(b) /\ Sound(r.tab, b, r.count)
         /\ x \in UsedOf(r.tab, b) /\ r.tab[x].ttl = k
<1>1. s.count \in Nat /\ s.tab \in Slots(b) BY DEF TableOf
<1>2. \E y \in At(b) : ~s.tab[y].used BY <1>1, SoundHasRoom
<1>3. x \in At(b) /\ (s.tab[x].used => s.tab[x].ttl = k) BY <1>2, SlotOf
<1>4. CASE s.tab[x].used
  <2>1. r = s BY <1>4
  <2> QED BY <1>3, <1>4, <2>1 DEF UsedOf
<1>5. CASE ~s.tab[x].used
  <2>1. r = OpenBlade(s, x, k) BY <1>5
  <2>2. r \in TableOf(b) /\ Opened(s.tab, r.tab, b, x, k) /\ r.count = s.count + 1 BY <1>3, <2>1, BladeOpened
  <2>3. PICK t, u, c : t = s.tab /\ u = r.tab /\ c = r.count OBVIOUS
  <2>4. GoodTable(t, b) /\ ~t[x].used /\ x = find_slot(t, b, k) /\ Opened(t, u, b, x, k)
    BY <1>5, <2>2, <2>3 DEF Sound
  <2>5. \E y \in At(b) : ~t[y].used BY <1>2, <2>3
  <2>6. GoodTable(u, b) /\ UsedOf(u, b) = UsedOf(t, b) \cup {x} /\ x \notin UsedOf(t, b) BY <2>4, <2>5, Put
  <2>7. Cardinality(UsedOf(u, b)) = Cardinality(UsedOf(t, b)) + 1
    <3>1. PICK V : V = UsedOf(t, b) OBVIOUS
    <3>2. IsFiniteSet(V) /\ x \notin V /\ UsedOf(u, b) = V \cup {x} BY <2>6, <3>1, UsedIsFinite
    <3> QED BY <3>1, <3>2, FS_AddElement
  <2>8. s.count = Cardinality(UsedOf(t, b)) BY <2>3 DEF Sound
  <2>9. c = Cardinality(UsedOf(u, b)) /\ c * 10 < 2 ^ b * 7 BY <2>2, <2>3, <2>7, <2>8
  <2> QED BY <1>3, <2>2, <2>3, <2>4, <2>6, <2>9 DEF Sound, Opened
<1> QED BY <1>4, <1>5

LEMMA AddKeeps ==
  ASSUME TableInv, NEW n \in Node, NEW k \in TTL, lawn2_add(n, k) PROVE TableInv'
<1>1. PICK nb : nb = IF MustGrow THEN bits + 1 ELSE bits OBVIOUS
<1>2. PICK s0 : s0 = IF MustGrow THEN grow(Table, bits) ELSE Table OBVIOUS
<1>3. /\ nb \in InitBits .. MaxBits /\ s0 \in TableOf(nb)
      /\ Sound(s0.tab, nb, s0.count) /\ (s0.count + 1) * 10 < 2 ^ nb * 7
  BY <1>1, <1>2, RoomMade
<1>4. nb \in Bits /\ s0.count \in Nat BY <1>3, LinksAssumption DEF Bits, TableOf
<1>5. PICK x : x = find_slot(s0.tab, nb, k) OBVIOUS
<1>6. \E y \in At(nb) : ~s0.tab[y].used BY <1>3, <1>4, SoundHasRoom
<1>7. x \in At(nb) /\ (s0.tab[x].used => s0.tab[x].ttl = k) BY <1>4, <1>5, <1>6, SlotOf
<1>8. PICK s1 : s1 = IF s0.tab[x].used THEN s0 ELSE OpenBlade(s0, x, k) OBVIOUS
<1>9. s1 \in TableOf(nb) /\ Sound(s1.tab, nb, s1.count) BY <1>3, <1>4, <1>5, <1>8, BladeReady
<1>10. PICK tail : tail = s1.tab[x].tail OBVIOUS
<1>11. tail \in NodePtr
  <2>1. s1.tab \in Slots(nb) BY <1>9 DEF TableOf
  <2> QED BY <1>7, <1>10, <2>1 DEF Slots, Slot, At
<1>12. PICK s2 : s2 = PushTail(s1, x, n) OBVIOUS
<1>13. s2 \in TableOf(nb) /\ SameKeys(s1.tab, s2.tab, nb) /\ s2.count = s1.count
  BY <1>7, <1>9, <1>12, NodeAppended
<1>14. PICK s3 : s3 = IF s0.tab[x].head = NULL THEN live_link(s2, x) ELSE s2 OBVIOUS
<1>15. s3 \in TableOf(nb) /\ SameKeys(s2.tab, s3.tab, nb) /\ s3.count = s2.count
  <2>1. CASE s0.tab[x].head = NULL
    <3>1. s3 = live_link(s2, x) BY <1>14, <2>1
    <3> QED BY <1>7, <1>13, <3>1, LiveLink
  <2>2. CASE s0.tab[x].head # NULL
    <3>1. s3 = s2 BY <1>14, <2>2
    <3>2. s2.tab \in Slots(nb) BY <1>13 DEF SameKeys
    <3> QED BY <1>13, <3>1, <3>2, SameKeysItself
  <2> QED BY <2>1, <2>2
<1>16. Sound(s3.tab, nb, s3.count) /\ s3.tab \in Slots(nb)
  <2>1. SameKeys(s1.tab, s3.tab, nb) BY <1>13, <1>15, SameKeysChain
  <2>2. s3.count = s1.count BY <1>13, <1>15
  <2> QED BY <1>4, <1>9, <2>1, <2>2, SoundSameKeys
<1>17. PICK exp : exp = Add64(now, k) OBVIOUS
<1>18. exp \in Nat
  <2>1. now \in Nat /\ k \in Nat /\ UINT64_MAX \in Nat BY LinksAssumption DEF TableInv, TypesOK
  <2> QED BY <1>17, <2>1 DEF Add64
<1>19. PICK m1 : m1 = [node EXCEPT ![n] = [ttl |-> k, expiration |-> exp, next |-> NULL,
                                          prev |-> tail, in_store |-> TRUE]]
  OBVIOUS
<1>20. KnownTTLs(m1)
  <2>1. KnownTTLs(node) BY DEF TableInv, TypesOK
  <2>2. PICK v : v = [ttl |-> k, expiration |-> exp, next |-> NULL, prev |-> tail, in_store |-> TRUE] OBVIOUS
  <2>3. v \in lawn2_timer /\ v.ttl \in TTL
    <3>1. k \in Nat /\ NULL \in NodePtr BY LinksAssumption DEF NodePtr
    <3> QED BY <1>11, <1>18, <2>2, <3>1 DEF lawn2_timer
  <2>4. m1 = [node EXCEPT ![n] = v] BY <1>19, <2>2
  <2> QED BY <2>1, <2>3, <2>4 DEF KnownTTLs
<1>21. PICK m2 : m2 = IF tail = NULL THEN m1 ELSE [m1 EXCEPT ![tail].next = n] OBVIOUS
<1>22. KnownTTLs(m2)
  <2>1. CASE tail = NULL BY <1>20, <1>21, <2>1
  <2>2. CASE tail # NULL
    <3>1. m2 = [m1 EXCEPT ![tail].next = n] BY <1>21, <2>2
    <3>2. m1 \in [Node -> lawn2_timer] /\ n \in NodePtr BY <1>20 DEF KnownTTLs, NodePtr
    <3>3. NoneEnters(m1, m2) BY <3>1, <3>2, NodeNextSet
    <3> QED BY <1>20, <3>3, TTLsStayKnown
  <2> QED BY <2>1, <2>2
<1>23. /\ node' = m2 /\ bits' = nb /\ tab' = s3.tab /\ live_head' = s3.live_head /\ count' = s3.count
       /\ next_expiration' = Earlier(exp, next_expiration) /\ now' = now
  <2>1. bits' = nb /\ now' = now /\ next_expiration' = Earlier(exp, next_expiration)
    BY <1>1, <1>17, Zenon DEF lawn2_add
  <2>2. tab' = s3.tab BY <1>1, <1>2, <1>5, <1>8, <1>12, <1>14, Zenon DEF lawn2_add
  <2>3. live_head' = s3.live_head BY <1>1, <1>2, <1>5, <1>8, <1>12, <1>14, Zenon DEF lawn2_add
  <2>4. count' = s3.count BY <1>1, <1>2, <1>5, <1>8, <1>12, <1>14, Zenon DEF lawn2_add
  <2>5. node' = Appended(n, k, exp, tail) BY <1>1, <1>2, <1>5, <1>8, <1>10, <1>17, Zenon DEF lawn2_add
  <2>6. node' = m2 BY <1>19, <1>21, <2>5, Zenon DEF Appended
  <2> QED BY <2>1, <2>2, <2>3, <2>4, <2>6
<1>24. next_expiration' \in Nat /\ now' \in Nat BY <1>18, <1>23 DEF Earlier, TableInv, TypesOK
<1>25. s3.live_head \in BladePtr(nb) /\ s3.count \in Nat BY <1>15 DEF TableOf
<1>26. TypesOK' BY <1>3, <1>16, <1>22, <1>23, <1>24, <1>25 DEF TypesOK
<1>27. Sound(tab', bits', count') BY <1>16, <1>23
<1> QED BY <1>26, <1>27 DEF TableInv

LEMMA DelKeeps ==
  ASSUME TableInv, NEW n \in Node, lawn2_del(n) PROVE TableInv'
<1>1. /\ bits \in InitBits .. MaxBits /\ bits \in Bits
      /\ tab \in Slots(bits) /\ live_head \in BladePtr(bits) /\ count \in Nat
      /\ KnownTTLs(node) /\ Sound(tab, bits, count)
  BY LinksAssumption DEF TableInv, TypesOK, Bits
<1>2. CASE ~node[n].in_store
  <2>1. UNCHANGED <<now, next_expiration, bits, tab, count, live_head, node>> BY <1>2, Zenon DEF lawn2_del
  <2> QED BY <2>1 DEF TableInv, TypesOK
<1>3. CASE node[n].in_store
  <2>1. PICK k \in TTL : k = node[n].ttl BY <1>1, <1>3 DEF KnownTTLs
  <2>2. PICK p, z : p = node[n].prev /\ z = node[n].next OBVIOUS
  <2>3. p \in NodePtr /\ z \in NodePtr /\ NULL \in NodePtr
    BY <1>1, <2>2 DEF KnownTTLs, lawn2_timer, NodePtr
  <2>4. PICK x : x = find_slot(tab, bits, k) OBVIOUS
  <2>5. x \in At(bits)
    <3>1. \E y \in At(bits) : ~tab[y].used BY <1>1, SoundHasRoom
    <3> QED BY <1>1, <2>4, <3>1, SlotOf
  <2>6. Table \in TableOf(bits) /\ Table.tab = tab BY <1>1 DEF TableOf, Table
  <2>7. PICK h, e : /\ h = IF p = NULL THEN z ELSE tab[x].head
                    /\ e = IF z = NULL THEN p ELSE tab[x].tail
    OBVIOUS
  <2>8. h \in NodePtr /\ e \in NodePtr BY <1>1, <2>3, <2>5, <2>7 DEF Slots, Slot, At
  <2>9. PICK t1, t2 : t1 = [tab EXCEPT ![x].head = h] /\ t2 = [t1 EXCEPT ![x].tail = e] OBVIOUS
  <2>10. SameKeys(tab, t1, bits) BY <1>1, <2>8, <2>9, HeadSet
  <2>11. SameKeys(t1, t2, bits)
    <3>1. t1 \in Slots(bits) BY <2>10 DEF SameKeys
    <3> QED BY <2>8, <2>9, <3>1, TailSet
  <2>12. PICK s1, s : s1 = [Table EXCEPT !.tab[x].head = h] /\ s = [s1 EXCEPT !.tab[x].tail = e] OBVIOUS
  <2>13. s1 \in TableOf(bits) /\ s1.tab = t1
    <3>1. t1 \in Slots(bits) BY <2>10 DEF SameKeys
    <3>2. s1 = [Table EXCEPT !.tab = t1] BY <2>6, <2>9, <2>12, Zenon
    <3> QED BY <2>6, <3>1, <3>2, TabSet
  <2>14. s \in TableOf(bits) /\ s.tab = t2
    <3>1. t2 \in Slots(bits) BY <2>11 DEF SameKeys
    <3>2. s = [s1 EXCEPT !.tab = t2] BY <2>9, <2>12, <2>13, Zenon
    <3> QED BY <2>13, <3>1, <3>2, TabSet
  <2>15. PICK r : r = IF s.tab[x].head = NULL THEN live_unlink(s, x) ELSE s OBVIOUS
  <2>16. r \in TableOf(bits) /\ SameKeys(t2, r.tab, bits)
    <3>1. CASE s.tab[x].head # NULL
      <4>1. r = s BY <2>15, <3>1
      <4>2. t2 \in Slots(bits) BY <2>11 DEF SameKeys
      <4> QED BY <2>14, <4>1, <4>2, SameKeysItself
    <3>2. CASE s.tab[x].head = NULL
      <4>1. s.tab \in Slots(bits) /\ s.live_head \in BladePtr(bits) BY <2>14 DEF TableOf
      <4>2. PICK u, g : u = UnlinkedTab(s.tab, x) /\ g = UnlinkedHead(s, x) OBVIOUS
      <4>3. /\ live_unlink(s, x) = [s EXCEPT !.tab = UnlinkedTab(s.tab, x), !.live_head = UnlinkedHead(s, x)]
            /\ SameKeys(s.tab, UnlinkedTab(s.tab, x), bits) /\ UnlinkedHead(s, x) \in BladePtr(bits)
        BY <2>5, <4>1, LiveUnlink, Zenon
      <4>4. r = [s EXCEPT !.tab = u, !.live_head = g] BY <2>15, <3>2, <4>2, <4>3, Zenon
      <4>5. SameKeys(t2, u, bits) /\ g \in BladePtr(bits) BY <2>14, <4>2, <4>3
      <4>6. u \in Slots(bits) BY <4>5 DEF SameKeys
      <4> QED BY <2>14, <4>4, <4>5, <4>6 DEF TableOf
    <3> QED BY <3>1, <3>2
  <2>17. tab' = r.tab /\ live_head' = r.live_head
    BY <1>3, <2>1, <2>2, <2>4, <2>6, <2>7, <2>12, <2>15, Zenon DEF lawn2_del
  <2>18. /\ node' = Unlinked(n) /\ bits' = bits /\ count' = count
         /\ now' = now /\ next_expiration' = next_expiration
    BY <1>3, Zenon DEF lawn2_del
  <2>19. KnownTTLs(node')
    <3>1. node \in [Node -> lawn2_timer] BY <1>1 DEF KnownTTLs
    <3>2. PICK m1 : m1 = IF p = NULL THEN node ELSE [node EXCEPT ![p].next = z] OBVIOUS
    <3>3. NoneEnters(node, m1)
      <4>1. NoneEnters(node, node) BY <3>1 DEF NoneEnters
      <4>2. PICK q : q = [node EXCEPT ![p].next = z] OBVIOUS
      <4>3. NoneEnters(node, q) BY <2>3, <3>1, <4>2, NodeNextSet
      <4> QED BY <3>2, <4>1, <4>2, <4>3
    <3>4. m1 \in [Node -> lawn2_timer] BY <3>3 DEF NoneEnters
    <3>5. PICK m2 : m2 = IF z = NULL THEN m1 ELSE [m1 EXCEPT ![z].prev = p] OBVIOUS
    <3>6. NoneEnters(m1, m2)
      <4>1. NoneEnters(m1, m1) BY <3>4 DEF NoneEnters
      <4>2. PICK q : q = [m1 EXCEPT ![z].prev = p] OBVIOUS
      <4>3. NoneEnters(m1, q) BY <2>3, <3>4, <4>2, NodePrevSet
      <4> QED BY <3>5, <4>1, <4>2, <4>3
    <3>7. m2 \in [Node -> lawn2_timer] BY <3>6 DEF NoneEnters
    <3>8. PICK m3 : m3 = [m2 EXCEPT ![n].next = NULL, ![n].prev = NULL, ![n].in_store = FALSE] OBVIOUS
    <3>9. NoneEnters(m2, m3) BY <2>3, <3>7, <3>8, NodeOut
    <3>10. node' = m3 BY <2>2, <2>18, <3>2, <3>5, <3>8, Zenon DEF Unlinked
    <3> QED BY <1>1, <3>3, <3>6, <3>9, <3>10, NoneEntersChain, TTLsStayKnown
  <2>20. Sound(r.tab, bits, count) /\ r.tab \in Slots(bits)
    <3>1. SameKeys(tab, r.tab, bits) BY <2>10, <2>11, <2>16, SameKeysChain
    <3> QED BY <1>1, <3>1, SoundSameKeys
  <2>21. r.live_head \in BladePtr(bits) BY <2>16 DEF TableOf
  <2>22. TypesOK' BY <1>1, <2>17, <2>18, <2>19, <2>20, <2>21 DEF TableInv, TypesOK
  <2>23. Sound(tab', bits', count') BY <2>17, <2>18, <2>20
  <2> QED BY <2>22, <2>23 DEF TableInv
<1> QED BY <1>2, <1>3

LEMMA CollectKeeps ==
  ASSUME TableInv, NEW tm, NEW collect, collect_expired(tm, collect), bits' = bits, count' = count, now' \in Nat
  PROVE  TableInv'
<1>1. /\ bits \in InitBits .. MaxBits /\ bits \in Bits
      /\ tab \in Slots(bits) /\ live_head \in BladePtr(bits) /\ count \in Nat
      /\ KnownTTLs(node) /\ Sound(tab, bits, count)
  BY LinksAssumption DEF TableInv, TypesOK, Bits
<1>2. CASE UNCHANGED <<live, next_expiration, tab, live_head, node>>
  <2>1. TypesOK' BY <1>1, <1>2 DEF TableInv, TypesOK
  <2>2. Sound(tab', bits', count') BY <1>1, <1>2
  <2> QED BY <2>1, <2>2 DEF TableInv
<1>3. CASE ~UNCHANGED <<live, next_expiration, tab, live_head, node>>
  <2>1. PICK w0 : w0 = [tab |-> tab, live_head |-> live_head, node |-> node,
                        out |-> NULL, fired |-> 0, ne |-> UINT64_MAX, b |-> live_head]
    OBVIOUS
  <2>2. Walked(tab, w0)
    <3>1. node \in [Node -> lawn2_timer] BY <1>1 DEF KnownTTLs
    <3>2. UINT64_MAX \in Nat /\ NULL \in NodePtr BY LinksAssumption DEF NodePtr
    <3>3. w0 \in Walk /\ w0.tab = tab /\ w0.node = node BY <1>1, <2>1, <3>1, <3>2 DEF Walk
    <3>4. SameKeys(tab, tab, bits) BY <1>1, SameKeysItself
    <3> QED BY <1>1, <3>3, <3>4 DEF Walked
  <2>3. PICK w : w = Iterate(Walking(tm, collect), w0, cap) OBVIOUS
  <2>4. Walked(tab, w)
    <3>1. PICK c \in Nat : c = cap BY <1>1, Capacity DEF cap
    <3>2. w = Iterate(Walking(tm, collect), w0, c) BY <2>3, <3>1
    <3> QED BY <2>2, <3>2, WalkAll
  <2>5. tab' = w.tab /\ live_head' = w.live_head /\ node' = w.node /\ next_expiration' = w.ne
    BY <1>3, <2>1, <2>3, Zenon DEF collect_expired, WalkLive
  <2>6. w \in Walk /\ SameKeys(tab, w.tab, bits) /\ KnownTTLs(w.node) BY <2>4 DEF Walked
  <2>7. Sound(w.tab, bits, count) /\ w.tab \in Slots(bits) BY <1>1, <2>6, SoundSameKeys
  <2>8. w.live_head \in BladePtr(bits) /\ w.ne \in Nat BY <2>6 DEF Walk
  <2>9. TypesOK' BY <1>1, <2>5, <2>6, <2>7, <2>8 DEF TypesOK
  <2>10. Sound(tab', bits', count') BY <2>5, <2>7
  <2> QED BY <2>9, <2>10 DEF TableInv
<1> QED BY <1>2, <1>3

LEMMA TableInvNext == TableInv /\ [Next]_vars => TableInv'
<1> SUFFICES ASSUME TableInv, [Next]_vars PROVE TableInv' OBVIOUS
<1>1. ASSUME NEW n \in Node, NEW k \in TTL, lawn2_add(n, k) PROVE TableInv' BY <1>1, AddKeeps
<1>2. ASSUME NEW n \in Node, lawn2_del(n) PROVE TableInv' BY <1>2, DelKeeps
<1>3. ASSUME NEW collect, lawn2_tick(collect) PROVE TableInv'
  <2>1. now' = Add64(now, 1) /\ collect_expired(now', collect) /\ bits' = bits /\ count' = count
    BY <1>3, Zenon DEF lawn2_tick
  <2>2. now' \in Nat BY <2>1, LinksAssumption DEF Add64, TableInv, TypesOK
  <2>3. PICK tm : tm = now' OBVIOUS
  <2>4. collect_expired(tm, collect) BY <2>1, <2>3, Zenon
  <2> QED BY <2>1, <2>2, <2>4, CollectKeeps
<1>4. ASSUME NEW target \in 0 .. MaxNow, NEW collect, lawn2_advance(target, collect) PROVE TableInv'
  <2>1. bits' = bits /\ count' = count BY <1>4, Zenon DEF lawn2_advance
  <2>2. CASE UNCHANGED <<now, next_expiration, tab, live_head, node>>
    BY <2>1, <2>2 DEF TableInv, TypesOK
  <2>3. CASE ~UNCHANGED <<now, next_expiration, tab, live_head, node>>
    <3>1. now' = target /\ collect_expired(target, collect) BY <1>4, <2>3, Zenon DEF lawn2_advance
    <3>2. now' \in Nat BY <3>1, LinksAssumption
    <3> QED BY <2>1, <3>1, <3>2, CollectKeeps
  <2> QED BY <2>2, <2>3
<1>5. ASSUME NEW target \in now .. MaxNow, lawn2_set_now(target) PROVE TableInv'
  <2>1. now' = target /\ UNCHANGED <<next_expiration, bits, tab, count, live_head, node>>
    BY <1>5, Zenon DEF lawn2_set_now
  <2>2. now' \in Nat BY <2>1, LinksAssumption DEF TableInv, TypesOK
  <2> QED BY <2>1, <2>2 DEF TableInv, TypesOK
<1>6. CASE UNCHANGED vars BY <1>6 DEF vars, TableInv, TypesOK
<1> QED BY <1>1, <1>2, <1>3, <1>4, <1>5, <1>6, Zenon DEF Next

\* Types, and a table that is good, counted and below its load, at all times.
THEOREM Lawn2TableInvariant == Spec => []TableInv
<1>1. TableInv /\ [Next]_vars => TableInv' BY TableInvNext
<1> QED BY <1>1, TableInvInit, PTL DEF Spec

\* find_slot (src/src/lawn2.c) finds every TTL ever used in the one slot that
\* holds it, and always has a free slot to stop at, whatever the hashes, the
\* initial table and the order of calls, growth by grow included.
THEOREM Lawn2TableFindsEveryTTL == Spec => []TableFindsEveryTTL
<1> QED BY Lawn2TableInvariant, TableInvImplies, PTL

(***************************************************************************)
(* Doubly linked lists.  A sequence s is listed by the links nx and pv when  *)
(* they lead from each member to the next and to the one before.             *)
(***************************************************************************)
In(s) == {s[i] : i \in 1 .. Len(s)}
FirstOf(s) == IF Len(s) = 0 THEN NULL ELSE s[1]
LastOf(s) == IF Len(s) = 0 THEN NULL ELSE s[Len(s)]
After(s, i) == IF i = Len(s) THEN NULL ELSE s[i + 1]
Before(s, i) == IF i = 1 THEN NULL ELSE s[i - 1]

Simple(s, D) == s \in Seq(D) /\ \A i, j \in 1 .. Len(s) : s[i] = s[j] => i = j
Listed(s, D, nx, pv) ==
  Simple(s, D) /\ \A i \in 1 .. Len(s) : nx[s[i]] = After(s, i) /\ pv[s[i]] = Before(s, i)

\* Links that differ elsewhere.
LEMMA ListedFrame ==
  ASSUME NEW s, NEW D, NEW nx, NEW pv, Listed(s, D, nx, pv), NEW nx1, NEW pv1,
         \A y \in In(s) : nx1[y] = nx[y] /\ pv1[y] = pv[y]
  PROVE  Listed(s, D, nx1, pv1)
BY DEF Listed, In

LEMMA InProps ==
  ASSUME NEW D, NULL \notin D, NEW s \in Seq(D)
  PROVE  /\ Len(s) \in Nat /\ In(s) \subseteq D /\ (Len(s) = 0 <=> s = <<>>)
         /\ In(s) = {} <=> Len(s) = 0
         /\ (Len(s) = 0 => FirstOf(s) = NULL /\ LastOf(s) = NULL)
         /\ Len(s) # 0 => FirstOf(s) = s[1] /\ LastOf(s) = s[Len(s)] /\ FirstOf(s) \in In(s) /\ LastOf(s) \in In(s)
         /\ FirstOf(s) = NULL <=> Len(s) = 0
         /\ LastOf(s) = NULL <=> Len(s) = 0
<1>1. Len(s) \in Nat /\ (Len(s) = 0 <=> s = <<>>) BY LenProperties, EmptySeq
<1>2. \A i \in 1 .. Len(s) : s[i] \in D BY ElementOfSeq
<1>3. Len(s) # 0 => 1 \in 1 .. Len(s) /\ Len(s) \in 1 .. Len(s) BY <1>1
<1>4. Len(s) = 0 => 1 .. Len(s) = {} BY <1>1
<1>5. In(s) \subseteq D /\ (In(s) = {} <=> Len(s) = 0) BY <1>2, <1>3, <1>4 DEF In
<1>6. Len(s) # 0 => FirstOf(s) = s[1] /\ LastOf(s) = s[Len(s)] /\ FirstOf(s) \in In(s) /\ LastOf(s) \in In(s)
  BY <1>3 DEF In, FirstOf, LastOf
<1>7. Len(s) = 0 => FirstOf(s) = NULL /\ LastOf(s) = NULL BY DEF FirstOf, LastOf
<1> QED BY <1>1, <1>5, <1>6, <1>7

\* A member goes to the end.
Appends(nx, pv, nx1, pv1, D, n, t) ==
  /\ nx1[n] = NULL /\ pv1[n] = t
  /\ t # NULL => nx1[t] = n
  /\ \A y \in D : y # n => pv1[y] = pv[y]
  /\ \A y \in D : y # n /\ y # t => nx1[y] = nx[y]

Behind(s, n) == Append(s, n)

LEMMA ListAppend ==
  ASSUME NEW D, NULL \notin D, NEW s, NEW nx, NEW pv, Listed(s, D, nx, pv), NEW n \in D, n \notin In(s),
         NEW nx1, NEW pv1, Appends(nx, pv, nx1, pv1, D, n, LastOf(s)), NEW r, r = Behind(s, n)
  PROVE  /\ Listed(r, D, nx1, pv1) /\ In(r) = In(s) \cup {n}
         /\ FirstOf(r) = (IF LastOf(s) = NULL THEN n ELSE FirstOf(s)) /\ LastOf(r) = n
<1>1. s \in Seq(D) BY DEF Listed, Simple
<1>2. PICK k \in Nat : k = Len(s) BY <1>1, LenProperties
<1>3. /\ r \in Seq(D) /\ Len(r) = k + 1 /\ r[k + 1] = n
      /\ \A i \in 1 .. k : r[i] = s[i]
  BY <1>1, <1>2, AppendProperties DEF Behind
<1>4. \A i \in 1 .. k : s[i] \in D /\ s[i] # n BY <1>1, <1>2, ElementOfSeq DEF In
<1>5. \A i, j \in 1 .. k : s[i] = s[j] => i = j BY <1>2 DEF Listed, Simple
<1>6. \A i \in 1 .. (k + 1) : i \in 1 .. k \/ i = k + 1 BY <1>2
<1>7. Simple(r, D) BY <1>3, <1>4, <1>5, <1>6 DEF Simple
<1>8. LastOf(s) = (IF k = 0 THEN NULL ELSE s[k]) /\ FirstOf(s) = (IF k = 0 THEN NULL ELSE s[1]) BY <1>2 DEF LastOf, FirstOf
<1>9. \A i \in 1 .. k : nx[s[i]] = (IF i = k THEN NULL ELSE s[i + 1]) /\ pv[s[i]] = (IF i = 1 THEN NULL ELSE s[i - 1])
  BY <1>2 DEF Listed, After, Before
<1>10. ASSUME NEW i \in 1 .. (k + 1) PROVE nx1[r[i]] = After(r, i) /\ pv1[r[i]] = Before(r, i)
  <2>1. After(r, i) = (IF i = k + 1 THEN NULL ELSE r[i + 1]) /\ Before(r, i) = (IF i = 1 THEN NULL ELSE r[i - 1])
    BY <1>3 DEF After, Before
  <2>2. CASE i = k + 1
    <3>1. k # 0 => k \in 1 .. k /\ i - 1 = k /\ i # 1 BY <1>2, <2>2
    <3>2. k = 0 => i = 1 BY <2>2
    <3> QED BY <1>3, <1>8, <2>1, <2>2, <3>1, <3>2 DEF Appends
  <2>3. CASE i \in 1 .. k
    <3>1. r[i] = s[i] /\ s[i] \in D /\ s[i] # n /\ i # k + 1 BY <1>2, <1>3, <1>4, <2>3
    <3>2. i # 1 => i - 1 \in 1 .. k /\ r[i - 1] = s[i - 1] BY <1>3, <2>3
    <3>3. pv1[r[i]] = Before(r, i) BY <1>9, <2>1, <2>3, <3>1, <3>2 DEF Appends
    <3>4. CASE i = k
      <4>1. LastOf(s) = s[i] /\ LastOf(s) # NULL BY <1>8, <2>3, <3>1, <3>4
      <4>2. nx1[s[i]] = n BY <4>1 DEF Appends
      <4> QED BY <1>3, <2>1, <3>1, <3>3, <3>4, <4>2
    <3>5. CASE i # k
      <4>1. k \in 1 .. k /\ i + 1 \in 1 .. k BY <2>3, <3>5
      <4>2. s[i] # LastOf(s) BY <1>5, <1>8, <2>3, <3>5, <4>1
      <4>3. nx1[s[i]] = nx[s[i]] BY <3>1, <4>2 DEF Appends
      <4> QED BY <1>3, <1>9, <2>1, <2>3, <3>1, <3>3, <3>5, <4>1, <4>3
    <3> QED BY <3>4, <3>5
  <2> QED BY <1>6, <2>2, <2>3
<1>11. In(r) = In(s) \cup {n}
  <2>1. k + 1 \in 1 .. (k + 1) OBVIOUS
  <2> QED BY <1>2, <1>3, <1>6, <2>1 DEF In
<1>12. FirstOf(r) = (IF LastOf(s) = NULL THEN n ELSE FirstOf(s)) /\ LastOf(r) = n
  <2>1. k + 1 # 0 /\ LastOf(r) = n /\ FirstOf(r) = r[1] BY <1>3 DEF FirstOf, LastOf
  <2>2. k # 0 => 1 \in 1 .. k /\ k \in 1 .. k /\ r[1] = s[1] /\ s[k] # NULL BY <1>3, <1>4
  <2>3. k = 0 => r[1] = n BY <1>3
  <2> QED BY <1>8, <2>1, <2>2, <2>3
<1> QED BY <1>3, <1>7, <1>10, <1>11, <1>12 DEF Listed

\* One goes to the front.
Pushes(nx, pv, nx1, pv1, D, x, h) ==
  /\ nx1[x] = h /\ pv1[x] = NULL
  /\ h # NULL => pv1[h] = x
  /\ \A y \in D : y # x => nx1[y] = nx[y]
  /\ \A y \in D : y # x /\ y # h => pv1[y] = pv[y]

InFront(s, x) == <<x>> \o s

LEMMA ListPush ==
  ASSUME NEW D, NULL \notin D, NEW s, NEW nx, NEW pv, Listed(s, D, nx, pv), NEW x \in D, x \notin In(s),
         NEW nx1, NEW pv1, Pushes(nx, pv, nx1, pv1, D, x, FirstOf(s)), NEW r, r = InFront(s, x)
  PROVE  Listed(r, D, nx1, pv1) /\ In(r) = In(s) \cup {x} /\ FirstOf(r) = x
<1>1. s \in Seq(D) BY DEF Listed, Simple
<1>2. PICK k \in Nat : k = Len(s) BY <1>1, LenProperties
<1>3. <<x>> \in Seq(D) /\ Len(<<x>>) = 1 /\ <<x>>[1] = x OBVIOUS
<1>4. /\ r \in Seq(D) /\ Len(r) = 1 + k
      /\ \A i \in 1 .. (1 + k) : r[i] = IF i <= 1 THEN <<x>>[i] ELSE s[i - 1]
  BY <1>1, <1>2, <1>3, ConcatProperties DEF InFront
<1>5. r[1] = x /\ \A i \in 1 .. k : i + 1 \in 1 .. (1 + k) /\ r[i + 1] = s[i]
  <2>1. 1 \in 1 .. (1 + k) /\ \A i \in 1 .. k : i + 1 \in 1 .. (1 + k) /\ ~(i + 1 <= 1) /\ (i + 1) - 1 = i OBVIOUS
  <2> QED BY <1>3, <1>4, <2>1
<1>6. \A i \in 1 .. k : s[i] \in D /\ s[i] # x BY <1>1, <1>2, ElementOfSeq DEF In
<1>7. \A i, j \in 1 .. k : s[i] = s[j] => i = j BY <1>2 DEF Listed, Simple
<1>8. \A i \in 1 .. (1 + k) : i = 1 \/ \E j \in 1 .. k : i = j + 1
  <2> SUFFICES ASSUME NEW i \in 1 .. (1 + k), i # 1 PROVE \E j \in 1 .. k : i = j + 1 OBVIOUS
  <2>1. i - 1 \in 1 .. k /\ i = (i - 1) + 1 OBVIOUS
  <2> QED BY <2>1
<1>9. ASSUME NEW i \in 1 .. (1 + k), NEW j \in 1 .. (1 + k), r[i] = r[j] PROVE i = j
  <2>1. CASE i = 1
    <3> SUFFICES ASSUME j # 1 PROVE FALSE BY <2>1
    <3>1. PICK c \in 1 .. k : j = c + 1 BY <1>8
    <3>2. r[j] = s[c] /\ s[c] # x BY <1>5, <1>6, <3>1
    <3> QED BY <1>5, <1>9, <2>1, <3>2
  <2>2. CASE j = 1
    <3> SUFFICES ASSUME i # 1 PROVE FALSE BY <2>2
    <3>1. PICK c \in 1 .. k : i = c + 1 BY <1>8
    <3>2. r[i] = s[c] /\ s[c] # x BY <1>5, <1>6, <3>1
    <3> QED BY <1>5, <1>9, <2>2, <3>2
  <2>3. CASE i # 1 /\ j # 1
    <3>1. PICK a \in 1 .. k, c \in 1 .. k : i = a + 1 /\ j = c + 1 BY <1>8, <2>3
    <3>2. s[a] = s[c] BY <1>5, <1>9, <3>1
    <3> QED BY <1>7, <3>1, <3>2
  <2> QED BY <2>1, <2>2, <2>3
<1>10. FirstOf(s) = (IF k = 0 THEN NULL ELSE s[1]) BY <1>2 DEF FirstOf
<1>11. \A i \in 1 .. k : nx[s[i]] = (IF i = k THEN NULL ELSE s[i + 1]) /\ pv[s[i]] = (IF i = 1 THEN NULL ELSE s[i - 1])
  BY <1>2 DEF Listed, After, Before
<1>12. nx1[r[1]] = After(r, 1) /\ pv1[r[1]] = Before(r, 1)
  <2>1. After(r, 1) = (IF 1 = 1 + k THEN NULL ELSE r[1 + 1]) /\ Before(r, 1) = NULL BY <1>4 DEF After, Before
  <2>2. 1 = 1 + k <=> k = 0 OBVIOUS
  <2>3. k # 0 => 1 \in 1 .. k /\ r[1 + 1] = s[1]
    <3>1. k # 0 => 1 \in 1 .. k OBVIOUS
    <3>2. \A c : c \in 1 .. k => r[c + 1] = s[c] BY <1>5
    <3> QED BY <3>1, <3>2
  <2> QED BY <1>5, <1>10, <2>1, <2>2, <2>3 DEF Pushes
<1>13. ASSUME NEW i \in 1 .. k PROVE nx1[r[i + 1]] = After(r, i + 1) /\ pv1[r[i + 1]] = Before(r, i + 1)
  <2>1. After(r, i + 1) = (IF i + 1 = 1 + k THEN NULL ELSE r[(i + 1) + 1]) /\ Before(r, i + 1) = r[(i + 1) - 1]
    <3>1. i + 1 # 1 OBVIOUS
    <3> QED BY <1>4, <3>1 DEF After, Before
  <2>2. (i + 1 = 1 + k <=> i = k) /\ (i + 1) - 1 = i OBVIOUS
  <2>3. i # k => i + 1 \in 1 .. k /\ r[(i + 1) + 1] = s[i + 1]
    <3>1. i # k => i + 1 \in 1 .. k OBVIOUS
    <3>2. \A c : c \in 1 .. k => r[c + 1] = s[c] BY <1>5
    <3>3. PICK e : e = i + 1 OBVIOUS
    <3>4. e \in 1 .. k => r[e + 1] = s[e] BY <3>2
    <3> QED BY <3>1, <3>3, <3>4
  <2>4. r[i + 1] = s[i] BY <1>5
  <2>5. nx1[s[i]] = nx[s[i]] BY <1>6 DEF Pushes
  <2>6. CASE i = 1
    <3>1. FirstOf(s) = s[1] /\ FirstOf(s) # NULL BY <1>6, <1>10, <2>6
    <3>2. pv1[s[1]] = x BY <3>1 DEF Pushes
    <3> QED BY <1>5, <1>11, <2>1, <2>2, <2>3, <2>4, <2>5, <2>6, <3>2
  <2>7. CASE i # 1
    <3>1. i - 1 \in 1 .. k /\ (i - 1) + 1 = i /\ 1 \in 1 .. k BY <2>7
    <3>2. s[i] # FirstOf(s) BY <1>7, <1>10, <2>7, <3>1
    <3>3. pv1[s[i]] = pv[s[i]] BY <1>6, <3>2 DEF Pushes
    <3>4. r[i] = s[i - 1] BY <1>5, <3>1
    <3> QED BY <1>11, <2>1, <2>2, <2>3, <2>4, <2>5, <2>7, <3>3, <3>4
  <2> QED BY <2>6, <2>7
<1>14. ASSUME NEW i \in 1 .. Len(r) PROVE nx1[r[i]] = After(r, i) /\ pv1[r[i]] = Before(r, i)
  <2>1. i = 1 \/ \E j \in 1 .. k : i = j + 1 BY <1>4, <1>8
  <2>2. CASE i = 1 BY <1>12, <2>2
  <2>3. CASE \E j \in 1 .. k : i = j + 1
    <3>1. PICK j \in 1 .. k : i = j + 1 BY <2>3
    <3> QED BY <1>13, <3>1
  <2> QED BY <2>1, <2>2, <2>3
<1>15. In(r) = In(s) \cup {x}
  <2>1. \A y \in In(r) : y \in In(s) \cup {x} BY <1>2, <1>4, <1>5, <1>8 DEF In
  <2>2. \A y \in In(s) : y \in In(r) BY <1>2, <1>4, <1>5 DEF In
  <2>3. x \in In(r)
    <3>1. 1 \in 1 .. Len(r) BY <1>4
    <3> QED BY <1>5, <3>1 DEF In
  <2> QED BY <2>1, <2>2, <2>3
<1>16. FirstOf(r) = x BY <1>4, <1>5 DEF FirstOf
<1> QED BY <1>4, <1>9, <1>14, <1>15, <1>16 DEF Listed, Simple

\* A member is taken out by its links.
Takes(nx, pv, nx1, pv1, D, n) ==
  /\ pv[n] # NULL => nx1[pv[n]] = nx[n]
  /\ nx[n] # NULL => pv1[nx[n]] = pv[n]
  /\ \A y \in D : y # n /\ y # pv[n] => nx1[y] = nx[y]
  /\ \A y \in D : y # n /\ y # nx[n] => pv1[y] = pv[y]

LEMMA ListTake ==
  ASSUME NEW D, NULL \notin D, NEW s, NEW nx, NEW pv, Listed(s, D, nx, pv), NEW a \in 1 .. Len(s),
         NEW n, n = s[a], NEW nx1, NEW pv1, Takes(nx, pv, nx1, pv1, D, n), NEW r, r = TakenOut(s, a)
  PROVE  /\ Listed(r, D, nx1, pv1) /\ In(r) = In(s) \ {n}
         /\ FirstOf(r) = (IF pv[n] = NULL THEN nx[n] ELSE FirstOf(s))
         /\ LastOf(r) = (IF nx[n] = NULL THEN pv[n] ELSE LastOf(s))
<1>1. s \in Seq(D) BY DEF Listed, Simple
<1>2. PICK k \in Nat : k = Len(s) BY <1>1, LenProperties
<1>3. /\ r \in Seq(D) /\ Len(r) = k - 1
      /\ \A i \in 1 .. (k - 1) : Past(a, i) \in 1 .. k /\ Past(a, i) # a /\ r[i] = s[Past(a, i)]
  BY <1>1, <1>2, SeqTakeOut
<1>4. /\ \A i, j \in 1 .. (k - 1) : Past(a, i) = Past(a, j) => i = j
      /\ \A i \in 1 .. k : i # a => \E j \in 1 .. (k - 1) : Past(a, j) = i
  BY <1>2, PastIsMonotone, ZenonT(60)
<1>5. \A i \in 1 .. k : s[i] \in D /\ s[i] # NULL BY <1>1, <1>2, ElementOfSeq
<1>6. \A i, j \in 1 .. k : s[i] = s[j] => i = j BY <1>2 DEF Listed, Simple
<1>7. \A i \in 1 .. k : nx[s[i]] = (IF i = k THEN NULL ELSE s[i + 1]) /\ pv[s[i]] = (IF i = 1 THEN NULL ELSE s[i - 1])
  BY <1>2 DEF Listed, After, Before
<1>8. nx[n] = (IF a = k THEN NULL ELSE s[a + 1]) /\ pv[n] = (IF a = 1 THEN NULL ELSE s[a - 1])
  BY <1>2, <1>7
<1>9. \A i \in 1 .. (k - 1) : (i < a => r[i] = s[i]) /\ (i >= a => r[i] = s[i + 1])
  BY <1>2, <1>3 DEF Past
<1>10. (a # 1 => a - 1 \in 1 .. k) /\ (a # k => a + 1 \in 1 .. k) /\ a \in 1 .. k BY <1>2
<1>11. ASSUME NEW j \in 1 .. k, j # a - 1, j # a PROVE nx1[s[j]] = nx[s[j]]
  <2>1. s[j] \in D /\ s[j] # NULL /\ s[j] # n BY <1>5, <1>6, <1>10, <1>11
  <2>2. a # 1 => s[j] # s[a - 1] BY <1>6, <1>10, <1>11
  <2>3. s[j] # pv[n] BY <1>8, <2>1, <2>2
  <2> QED BY <2>1, <2>3 DEF Takes
<1>12. ASSUME NEW j \in 1 .. k, j # a + 1, j # a PROVE pv1[s[j]] = pv[s[j]]
  <2>1. s[j] \in D /\ s[j] # NULL /\ s[j] # n BY <1>5, <1>6, <1>10, <1>12
  <2>2. a # k => s[j] # s[a + 1] BY <1>6, <1>10, <1>12
  <2>3. s[j] # nx[n] BY <1>8, <2>1, <2>2
  <2> QED BY <2>1, <2>3 DEF Takes
<1>13. a # 1 => nx1[s[a - 1]] = nx[n] BY <1>5, <1>8, <1>10 DEF Takes
<1>14. a # k => pv1[s[a + 1]] = pv[n] BY <1>5, <1>8, <1>10 DEF Takes
<1>15. ASSUME NEW i \in 1 .. (k - 1) PROVE nx1[r[i]] = After(r, i) /\ pv1[r[i]] = Before(r, i)
  <2>1. After(r, i) = (IF i = k - 1 THEN NULL ELSE r[i + 1]) /\ Before(r, i) = (IF i = 1 THEN NULL ELSE r[i - 1])
    BY <1>3 DEF After, Before
  <2>2. PICK u : u = i + 1 OBVIOUS
  <2>3. PICK d : d = i - 1 OBVIOUS
  <2>4. /\ i # k - 1 => u \in 1 .. (k - 1)
        /\ i # 1 => d \in 1 .. (k - 1)
        /\ u \in 1 .. k /\ i \in 1 .. k /\ a \in 1 .. k
    BY <1>2, <1>10, <2>2, <2>3
  <2>5. nx1[r[i]] = After(r, i)
    <3>1. CASE i < a - 1
      <4>1. r[i] = s[i] /\ r[u] = s[u] /\ i # k - 1 /\ i # k /\ i # a BY <1>9, <1>10, <2>2, <2>4, <3>1
      <4>2. nx1[s[i]] = nx[s[i]] BY <1>11, <2>4, <3>1, <4>1
      <4>3. nx[s[i]] = s[u] BY <1>7, <2>2, <2>4, <4>1
      <4> QED BY <2>1, <2>2, <4>1, <4>2, <4>3
    <3>2. CASE i = a - 1
      <4>1. r[i] = s[a - 1] /\ a # 1 /\ u = a BY <1>9, <1>10, <2>2, <3>2
      <4>2. a = k <=> i = k - 1 BY <1>10, <3>2
      <4>3. i # k - 1 => r[u] = s[a + 1] BY <1>9, <2>4, <4>1
      <4> QED BY <1>8, <1>13, <2>1, <2>2, <4>1, <4>2, <4>3
    <3>3. CASE i >= a
      <4>1. r[i] = s[u] /\ u # a - 1 /\ u # a BY <1>9, <1>10, <2>2, <3>3
      <4>2. nx1[s[u]] = nx[s[u]] BY <1>11, <2>4, <4>1
      <4>3. nx[s[u]] = (IF u = k THEN NULL ELSE s[u + 1]) BY <1>7, <2>4
      <4>4. i # k - 1 => r[u] = s[u + 1] BY <1>9, <1>10, <2>2, <2>4, <3>3
      <4>5. u = k <=> i = k - 1 BY <1>2, <2>2
      <4> QED BY <2>1, <2>2, <4>1, <4>2, <4>3, <4>4, <4>5
    <3> QED BY <1>10, <3>1, <3>2, <3>3
  <2>6. pv1[r[i]] = Before(r, i)
    <3>1. CASE i < a
      <4>1. r[i] = s[i] /\ i # a + 1 /\ i # a BY <1>9, <1>10, <3>1
      <4>2. pv1[s[i]] = pv[s[i]] BY <1>12, <2>4, <4>1
      <4>3. pv[s[i]] = (IF i = 1 THEN NULL ELSE s[d]) BY <1>7, <2>3, <2>4
      <4>4. i # 1 => r[d] = s[d] BY <1>9, <1>10, <2>3, <2>4, <3>1
      <4> QED BY <2>1, <2>3, <4>1, <4>2, <4>3, <4>4
    <3>2. CASE i = a
      <4>1. r[i] = s[a + 1] /\ a # k BY <1>2, <1>9, <3>2
      <4>2. i # 1 => r[d] = s[a - 1] BY <1>9, <1>10, <2>3, <2>4, <3>2
      <4> QED BY <1>8, <1>14, <2>1, <2>3, <3>2, <4>1, <4>2
    <3>3. CASE i > a
      <4>1. r[i] = s[u] /\ u # a + 1 /\ u # a /\ i # 1 /\ u # 1 BY <1>9, <1>10, <2>2, <3>3
      <4>2. pv1[s[u]] = pv[s[u]] BY <1>12, <2>4, <4>1
      <4>3. u - 1 = i BY <2>2
      <4>4. pv[s[u]] = s[i] BY <1>7, <2>4, <4>1, <4>3
      <4>5. d >= a /\ d + 1 = i BY <1>10, <2>3, <3>3
      <4>6. r[d] = s[i] BY <1>9, <2>4, <4>1, <4>5
      <4> QED BY <2>1, <2>3, <4>1, <4>2, <4>4, <4>6
    <3> QED BY <1>10, <3>1, <3>2, <3>3
  <2> QED BY <2>5, <2>6
<1>16. ASSUME NEW i \in 1 .. (k - 1), NEW j \in 1 .. (k - 1), r[i] = r[j] PROVE i = j
  <2>1. s[Past(a, i)] = s[Past(a, j)] BY <1>3, <1>16
  <2>2. Past(a, i) = Past(a, j) BY <1>3, <1>6, <2>1
  <2> QED BY <1>4, <2>2
<1>17. In(r) = In(s) \ {n}
  <2>1. ASSUME NEW y \in In(r) PROVE y \in In(s) \ {n}
    <3>1. PICK i \in 1 .. (k - 1) : y = r[i] BY <1>3 DEF In
    <3>2. y = s[Past(a, i)] /\ Past(a, i) \in 1 .. k /\ Past(a, i) # a BY <1>3, <3>1
    <3>3. y # n BY <1>6, <1>10, <3>2
    <3> QED BY <1>2, <3>2, <3>3 DEF In
  <2>2. ASSUME NEW y \in In(s), y # n PROVE y \in In(r)
    <3>1. PICK i \in 1 .. k : y = s[i] BY <1>2 DEF In
    <3>2. i # a BY <2>2, <3>1
    <3>3. PICK j \in 1 .. (k - 1) : Past(a, j) = i BY <1>4, <3>2
    <3> QED BY <1>3, <3>1, <3>3 DEF In
  <2> QED BY <2>1, <2>2
<1>18. FirstOf(r) = (IF pv[n] = NULL THEN nx[n] ELSE FirstOf(s))
  <2>1. FirstOf(r) = (IF k - 1 = 0 THEN NULL ELSE r[1]) /\ FirstOf(s) = (IF k = 0 THEN NULL ELSE s[1])
    BY <1>2, <1>3 DEF FirstOf
  <2>2. CASE a = 1
    <3>1. pv[n] = NULL /\ (k - 1 = 0 <=> a = k) BY <1>8, <1>10, <2>2
    <3>2. k - 1 # 0 => r[1] = s[a + 1]
      <4>1. k - 1 # 0 => a \in 1 .. (k - 1) /\ a >= a BY <1>2, <2>2
      <4>2. k - 1 # 0 => r[a] = s[a + 1] BY <1>9, <4>1
      <4> QED BY <2>2, <4>2
    <3> QED BY <1>8, <2>1, <3>1, <3>2
  <2>3. CASE a # 1
    <3>1. k - 1 # 0 /\ k # 0 /\ 1 \in 1 .. (k - 1) /\ 1 < a BY <1>10, <2>3
    <3>2. pv[n] # NULL /\ r[1] = s[1] BY <1>5, <1>8, <1>9, <1>10, <2>3, <3>1
    <3> QED BY <2>1, <3>1, <3>2
  <2> QED BY <2>2, <2>3
<1>19. LastOf(r) = (IF nx[n] = NULL THEN pv[n] ELSE LastOf(s))
  <2>1. LastOf(r) = (IF k - 1 = 0 THEN NULL ELSE r[k - 1]) /\ LastOf(s) = (IF k = 0 THEN NULL ELSE s[k])
    BY <1>2, <1>3 DEF LastOf
  <2>2. CASE a = k
    <3>1. nx[n] = NULL /\ (k - 1 = 0 <=> a = 1) BY <1>8, <1>10, <2>2
    <3>2. k - 1 # 0 => r[k - 1] = s[a - 1] BY <1>9, <2>2
    <3> QED BY <1>8, <2>1, <3>1, <3>2
  <2>3. CASE a # k
    <3>1. k - 1 # 0 /\ k # 0 /\ k - 1 \in 1 .. (k - 1) /\ k - 1 >= a BY <1>10, <2>3
    <3>2. (k - 1) + 1 = k BY <1>2
    <3>3. nx[n] # NULL /\ r[k - 1] = s[k] BY <1>5, <1>8, <1>9, <1>10, <2>3, <3>1, <3>2
    <3> QED BY <2>1, <3>1, <3>3
  <2> QED BY <2>2, <2>3
<1> QED BY <1>3, <1>15, <1>16, <1>17, <1>18, <1>19 DEF Listed, Simple

(***************************************************************************)
(* Following the links.                                                     *)
(***************************************************************************)
\* A list has at most as many members as there are.
LEMMA ListLength ==
  ASSUME NEW D, IsFiniteSet(D), NEW s, Simple(s, D)
  PROVE  Len(s) \in Nat /\ Cardinality(D) \in Nat /\ Len(s) <= Cardinality(D)
<1>1. s \in Seq(D) BY DEF Simple
<1>2. PICK k \in Nat : k = Len(s) BY <1>1, LenProperties
<1>3. s \in [1 .. k -> D] BY <1>1, <1>2, LenProperties
<1>4. s \in Injection(1 .. k, D) BY <1>2, <1>3 DEF Simple, Injection, IsInjective
<1>5. Cardinality(1 .. k) <= Cardinality(D) BY <1>4, FS_Injection
<1>6. Cardinality(1 .. k) = k
  <2>1. 1 \in Int /\ k \in Int /\ (IF 1 > k THEN 0 ELSE k - 1 + 1) = k OBVIOUS
  <2>2. \A a, c \in Int : IsFiniteSet(a .. c) /\ Cardinality(a .. c) = IF a > c THEN 0 ELSE c - a + 1 BY FS_Interval
  <2> QED BY <2>1, <2>2
<1>7. Cardinality(D) \in Nat BY FS_CardinalityType
<1> QED BY <1>2, <1>5, <1>6, <1>7

\* The first k members of s.
Prefix(s, k) == [i \in 1 .. k |-> s[i]]

LEMMA PrefixGrows ==
  ASSUME NEW D, NEW s \in Seq(D), NEW k \in 0 .. Len(s)
  PROVE  /\ Prefix(s, k) \in Seq(D) /\ Len(Prefix(s, k)) = k /\ DOMAIN Prefix(s, k) = 1 .. k
         /\ \A i \in 1 .. k : Prefix(s, k)[i] = s[i]
         /\ Prefix(s, k) = <<>> <=> k = 0
         /\ k < Len(s) => Append(Prefix(s, k), s[k + 1]) = Prefix(s, k + 1)
<1>1. k \in Nat /\ Len(s) \in Nat BY LenProperties
<1>2. \A i \in 1 .. Len(s) : s[i] \in D BY ElementOfSeq
<1>3. PICK p : p = Prefix(s, k) OBVIOUS
<1>4. p \in [1 .. k -> D] BY <1>1, <1>2, <1>3 DEF Prefix
<1>5. p \in Seq(D) /\ Len(p) = k /\ DOMAIN p = 1 .. k BY <1>1, <1>4
<1>6. \A i \in 1 .. k : p[i] = s[i] BY <1>3 DEF Prefix
<1>7. p = <<>> <=> k = 0 BY <1>5, EmptySeq
<1>8. ASSUME k < Len(s) PROVE Append(p, s[k + 1]) = Prefix(s, k + 1)
  <2>1. PICK x, q : x = s[k + 1] /\ q = Append(p, x) OBVIOUS
  <2>2. x \in D BY <1>1, <1>2, <1>8, <2>1
  <2>3. /\ q \in Seq(D) /\ Len(q) = k + 1 /\ q[k + 1] = x
        /\ \A i \in 1 .. k : q[i] = p[i]
    BY <1>5, <2>1, <2>2, AppendProperties
  <2>4. PICK v : v = Prefix(s, k + 1) OBVIOUS
  <2>5. q = [i \in 1 .. (k + 1) |-> q[i]] BY <1>1, <2>3, LenProperties
  <2>6. v = [i \in 1 .. (k + 1) |-> s[i]] BY <2>4 DEF Prefix
  <2>7. \A i \in 1 .. (k + 1) : q[i] = s[i]
    <3> SUFFICES ASSUME NEW i \in 1 .. (k + 1) PROVE q[i] = s[i] OBVIOUS
    <3>1. i \in 1 .. k \/ i = k + 1 BY <1>1
    <3> QED BY <1>6, <2>1, <2>3, <3>1
  <2> QED BY <2>1, <2>4, <2>5, <2>6, <2>7
<1> QED BY <1>3, <1>5, <1>6, <1>7, <1>8

\* A round of Follow.
Step(x, link) ==
  [met \in Seq(DOMAIN link) |->
     LET y == IF met = <<>> THEN x ELSE link[met[Len(met)]]
     IN  IF y = NULL \/ \E i \in DOMAIN met : met[i] = y THEN met ELSE Append(met, y)]

LEMMA FollowSpells ==
  ASSUME NEW D, IsFiniteSet(D), NULL \notin D, NEW link, DOMAIN link = D, NEW s, Simple(s, D),
         \A i \in 1 .. Len(s) : link[s[i]] = After(s, i), NEW x, x = FirstOf(s)
  PROVE  Follow(x, link) = s
<1>1. s \in Seq(D) BY DEF Simple
<1>2. PICK k \in Nat, c \in Nat : k = Len(s) /\ c = Cardinality(D) /\ k <= c BY ListLength
<1> DEFINE f == Step(x, link)
           P == [i \in Nat |-> {Prefix(s, IF i <= k THEN i ELSE k)}]
<1>3. <<>> \in P[0]
  <2>1. Prefix(s, 0) = <<>> BY <1>1, <1>2, PrefixGrows
  <2> QED BY <2>1
<1>4. ASSUME NEW j \in 0 .. k PROVE f[Prefix(s, j)] = Prefix(s, IF j < k THEN j + 1 ELSE j)
  <2>1. PICK p : p = Prefix(s, j) OBVIOUS
  <2>2. /\ p \in Seq(D) /\ Len(p) = j /\ DOMAIN p = 1 .. j
        /\ \A i \in 1 .. j : p[i] = s[i]
        /\ p = <<>> <=> j = 0
        /\ j < k => Append(p, s[j + 1]) = Prefix(s, j + 1)
    BY <1>1, <1>2, <2>1, PrefixGrows
  <2>3. PICK y : y = IF p = <<>> THEN x ELSE link[p[Len(p)]] OBVIOUS
  <2>4. f[p] = IF y = NULL \/ \E i \in DOMAIN p : p[i] = y THEN p ELSE Append(p, y)
    BY <2>2, <2>3, Zenon DEF Step
  <2>5. y = IF j = k THEN NULL ELSE s[j + 1]
    <3>1. CASE j = 0
      <4>1. y = FirstOf(s) BY <2>2, <2>3, <3>1
      <4> QED BY <1>2, <3>1, <4>1 DEF FirstOf
    <3>2. CASE j # 0
      <4>1. j \in 1 .. j /\ j \in 1 .. k BY <3>2
      <4>2. y = link[s[j]] BY <2>2, <2>3, <3>2, <4>1
      <4> QED BY <1>2, <4>1, <4>2 DEF After
    <3> QED BY <3>1, <3>2
  <2>6. CASE j = k BY <2>1, <2>4, <2>5, <2>6
  <2>7. CASE j # k
    <3>1. j < k /\ j + 1 \in 1 .. k BY <2>7
    <3>2. y = s[j + 1] /\ y \in D BY <1>1, <1>2, <2>5, <2>7, <3>1, ElementOfSeq
    <3>3. ASSUME NEW i \in 1 .. j PROVE p[i] # y
      <4>1. i \in 1 .. k /\ i # j + 1 BY <3>1
      <4>2. s[i] # s[j + 1] BY <1>2, <3>1, <4>1 DEF Simple
      <4> QED BY <2>2, <3>2, <4>2
    <3>4. f[p] = Append(p, y) BY <2>2, <2>4, <3>2, <3>3
    <3> QED BY <2>1, <2>2, <3>1, <3>2, <3>4
  <2> QED BY <2>6, <2>7
<1>5. ASSUME NEW i \in 0 .. (c - 1), NEW p \in P[i] PROVE f[p] \in P[i + 1]
  <2>1. PICK j : j = IF i <= k THEN i ELSE k OBVIOUS
  <2>2. j \in 0 .. k /\ p = Prefix(s, j) BY <2>1
  <2>3. f[p] = Prefix(s, IF j < k THEN j + 1 ELSE j) BY <1>4, <2>2
  <2>4. (IF j < k THEN j + 1 ELSE j) = IF i + 1 <= k THEN i + 1 ELSE k BY <2>1
  <2>5. f[p] = Prefix(s, IF i + 1 <= k THEN i + 1 ELSE k) BY <2>3, <2>4
  <2> HIDE DEF f
  <2> QED BY <2>5
<1>6. Iterate(f, <<>>, c) \in P[c]
  <2> HIDE DEF f, P
  <2> QED BY <1>2, <1>3, <1>5, IteratesThrough
<1>7. Iterate(f, <<>>, c) = Prefix(s, k)
  <2>1. (IF c <= k THEN c ELSE k) = k BY <1>2
  <2> HIDE DEF f
  <2> QED BY <1>6, <2>1
<1>8. Prefix(s, k) = s BY <1>1, <1>2, LenProperties DEF Prefix
<1> QED BY <1>2, <1>7, <1>8, Zenon DEF Follow, Step

\* Read from its end, a list is its reverse.
LEMMA ReversedListed ==
  ASSUME NEW D, NULL \notin D, NEW s, NEW nx, NEW pv, Listed(s, D, nx, pv), NEW r, r = Reversed(s)
  PROVE  Listed(r, D, pv, nx) /\ FirstOf(r) = LastOf(s)
<1>1. s \in Seq(D) BY DEF Listed, Simple
<1>2. PICK k \in Nat : k = Len(s) BY <1>1, LenProperties
<1>3. \A i \in 1 .. k : s[i] \in D BY <1>1, <1>2, ElementOfSeq
<1>4. \A i \in 1 .. k : (k + 1) - i \in 1 .. k BY <1>2
<1>5. r = [i \in 1 .. k |-> s[(k + 1) - i]] BY <1>2 DEF Reversed
<1>6. r \in Seq(D) /\ Len(r) = k
  <2>1. r \in [1 .. k -> D] BY <1>3, <1>4, <1>5
  <2> QED BY <1>2, <2>1
<1>7. \A i, j \in 1 .. k : s[i] = s[j] => i = j BY <1>2 DEF Listed, Simple
<1>8. ASSUME NEW i \in 1 .. k, NEW j \in 1 .. k, r[i] = r[j] PROVE i = j
  <2>1. (k + 1) - i = (k + 1) - j BY <1>4, <1>5, <1>7, <1>8
  <2> QED BY <1>2, <2>1
<1>9. \A i \in 1 .. k : nx[s[i]] = (IF i = k THEN NULL ELSE s[i + 1]) /\ pv[s[i]] = (IF i = 1 THEN NULL ELSE s[i - 1])
  BY <1>2 DEF Listed, After, Before
<1>10. ASSUME NEW i \in 1 .. k PROVE pv[r[i]] = After(r, i) /\ nx[r[i]] = Before(r, i)
  <2>1. PICK j : j = (k + 1) - i OBVIOUS
  <2>2. j \in 1 .. k /\ r[i] = s[j] BY <1>4, <1>5, <2>1
  <2>3. (j = 1 <=> i = k) /\ (j = k <=> i = 1) BY <1>2, <2>1
  <2>4. i # k => r[i + 1] = s[j - 1]
    <3>1. i # k => i + 1 \in 1 .. k /\ (k + 1) - (i + 1) = j - 1 BY <1>2, <2>1
    <3> QED BY <1>5, <3>1
  <2>5. i # 1 => r[i - 1] = s[j + 1]
    <3>1. i # 1 => i - 1 \in 1 .. k /\ (k + 1) - (i - 1) = j + 1 BY <1>2, <2>1
    <3> QED BY <1>5, <3>1
  <2> QED BY <1>6, <1>9, <2>2, <2>3, <2>4, <2>5 DEF After, Before
<1>11. FirstOf(r) = LastOf(s)
  <2>1. FirstOf(r) = (IF k = 0 THEN NULL ELSE r[1]) /\ LastOf(s) = (IF k = 0 THEN NULL ELSE s[k])
    BY <1>2, <1>6 DEF FirstOf, LastOf
  <2>2. k # 0 => 1 \in 1 .. k /\ (k + 1) - 1 = k BY <1>2
  <2> QED BY <1>5, <2>1, <2>2
<1> QED BY <1>6, <1>8, <1>10, <1>11 DEF Listed, Simple

LEMMA ListFollowed ==
  ASSUME NEW D, IsFiniteSet(D), NULL \notin D, NEW nx, NEW pv, DOMAIN nx = D, DOMAIN pv = D,
         NEW s, Listed(s, D, nx, pv), NEW h, h = FirstOf(s), NEW t, t = LastOf(s)
  PROVE  Follow(h, nx) = s /\ Follow(t, pv) = Reversed(s)
<1>1. Follow(h, nx) = s BY FollowSpells DEF Listed
<1>2. PICK r : r = Reversed(s) OBVIOUS
<1>3. Listed(r, D, pv, nx) /\ FirstOf(r) = LastOf(s) BY <1>2, ReversedListed
<1>4. Follow(t, pv) = r BY <1>3, FollowSpells DEF Listed
<1> QED BY <1>1, <1>2, <1>4

(***************************************************************************)
(* The links of nodes and blades as functions, and what a change of one      *)
(* field leaves alone.                                                      *)
(***************************************************************************)
Nexts(m) == [n \in Node |-> m[n].next]
Prevs(m) == [n \in Node |-> m[n].prev]
LiveNexts(t, b) == [x \in At(b) |-> t[x].live_next]
LivePrevs(t, b) == [x \in At(b) |-> t[x].live_prev]

SameTimers(m, m1) ==
  /\ m1 \in [Node -> lawn2_timer]
  /\ \A y \in Node : m1[y].ttl = m[y].ttl /\ m1[y].expiration = m[y].expiration
SameBlades(t, u, b) ==
  /\ SameKeys(t, u, b)
  /\ \A y \in At(b) : u[y].head = t[y].head /\ u[y].tail = t[y].tail

\* Table u is t, and the nodes m1 are m, but for one field of one of them.
NextIs(m, m1, x, v) ==
  /\ SameTimers(m, m1)
  /\ \A y \in Node : /\ m1[y].next = (IF y = x THEN v ELSE m[y].next)
                     /\ m1[y].prev = m[y].prev /\ m1[y].in_store = m[y].in_store
PrevIs(m, m1, x, v) ==
  /\ SameTimers(m, m1)
  /\ \A y \in Node : /\ m1[y].prev = (IF y = x THEN v ELSE m[y].prev)
                     /\ m1[y].next = m[y].next /\ m1[y].in_store = m[y].in_store
IsOut(m, m1, x) ==
  /\ SameTimers(m, m1)
  /\ \A y \in Node : /\ m1[y].in_store = (IF y = x THEN FALSE ELSE m[y].in_store)
                     /\ m1[y].next = m[y].next /\ m1[y].prev = m[y].prev
LivePrevIs(t, u, b, x, v) ==
  /\ SameBlades(t, u, b)
  /\ \A y \in At(b) : /\ u[y].live_prev = (IF y = x THEN v ELSE t[y].live_prev)
                      /\ u[y].live_next = t[y].live_next
LiveNextIs(t, u, b, x, v) ==
  /\ SameBlades(t, u, b)
  /\ \A y \in At(b) : /\ u[y].live_next = (IF y = x THEN v ELSE t[y].live_next)
                      /\ u[y].live_prev = t[y].live_prev

LEMMA SetNext ==
  ASSUME NEW m \in [Node -> lawn2_timer], NEW x \in Node, NEW v \in NodePtr,
         NEW m1, m1 = [m EXCEPT ![x].next = v]
  PROVE  NextIs(m, m1, x, v)
BY DEF NextIs, SameTimers, lawn2_timer

LEMMA SetPrev ==
  ASSUME NEW m \in [Node -> lawn2_timer], NEW x \in Node, NEW v \in NodePtr,
         NEW m1, m1 = [m EXCEPT ![x].prev = v]
  PROVE  PrevIs(m, m1, x, v)
BY DEF PrevIs, SameTimers, lawn2_timer

LEMMA ClearInStore ==
  ASSUME NEW m \in [Node -> lawn2_timer], NEW x \in Node, NEW m1, m1 = [m EXCEPT ![x].in_store = FALSE]
  PROVE  IsOut(m, m1, x)
BY DEF IsOut, SameTimers, lawn2_timer

LEMMA SameTimersChain ==
  ASSUME NEW m, NEW m1, NEW m2, SameTimers(m, m1), SameTimers(m1, m2) PROVE SameTimers(m, m2)
BY DEF SameTimers

LEMMA SetLivePrev ==
  ASSUME NEW b, NEW t \in Slots(b), NEW x \in At(b), NEW v \in BladePtr(b),
         NEW u, u = [t EXCEPT ![x].live_prev = v]
  PROVE  LivePrevIs(t, u, b, x, v)
BY DEF LivePrevIs, SameBlades, SameKeys, Slots, Slot, At

LEMMA SetLiveNext ==
  ASSUME NEW b, NEW t \in Slots(b), NEW x \in At(b), NEW v \in BladePtr(b),
         NEW u, u = [t EXCEPT ![x].live_next = v]
  PROVE  LiveNextIs(t, u, b, x, v)
BY DEF LiveNextIs, SameBlades, SameKeys, Slots, Slot, At

LEMMA SameBladesChain ==
  ASSUME NEW b, NEW t, NEW u, NEW v, SameBlades(t, u, b), SameBlades(u, v, b) PROVE SameBlades(t, v, b)
BY DEF SameBlades, SameKeys

\* A change of head or tail.
HeadIs(t, u, b, x, v) ==
  /\ SameKeys(t, u, b)
  /\ \A y \in At(b) : /\ u[y].head = (IF y = x THEN v ELSE t[y].head) /\ u[y].tail = t[y].tail
                      /\ u[y].live_next = t[y].live_next /\ u[y].live_prev = t[y].live_prev
TailIs(t, u, b, x, v) ==
  /\ SameKeys(t, u, b)
  /\ \A y \in At(b) : /\ u[y].tail = (IF y = x THEN v ELSE t[y].tail) /\ u[y].head = t[y].head
                      /\ u[y].live_next = t[y].live_next /\ u[y].live_prev = t[y].live_prev

LEMMA SetHead ==
  ASSUME NEW b, NEW t \in Slots(b), NEW x \in At(b), NEW v \in NodePtr, NEW u, u = [t EXCEPT ![x].head = v]
  PROVE  HeadIs(t, u, b, x, v)
BY DEF HeadIs, SameKeys, Slots, Slot, At

LEMMA SetTail ==
  ASSUME NEW b, NEW t \in Slots(b), NEW x \in At(b), NEW v \in NodePtr, NEW u, u = [t EXCEPT ![x].tail = v]
  PROVE  TailIs(t, u, b, x, v)
BY DEF TailIs, SameKeys, Slots, Slot, At

\* Blade x gets head h and tail e.
Ends(t, u, b, x, h, e) ==
  /\ SameKeys(t, u, b)
  /\ \A y \in At(b) : /\ u[y].head = (IF y = x THEN h ELSE t[y].head)
                      /\ u[y].tail = (IF y = x THEN e ELSE t[y].tail)
                      /\ u[y].live_next = t[y].live_next /\ u[y].live_prev = t[y].live_prev

LEMMA SetEnds ==
  ASSUME NEW b, NEW t \in Slots(b), NEW x \in At(b), NEW h \in NodePtr, NEW e \in NodePtr,
         NEW t1, t1 = [t EXCEPT ![x].head = h], NEW u, u = [t1 EXCEPT ![x].tail = e]
  PROVE  Ends(t, u, b, x, h, e)
<1>1. HeadIs(t, t1, b, x, h) BY SetHead
<1>2. t1 \in Slots(b) BY <1>1 DEF HeadIs, SameKeys
<1>3. TailIs(t1, u, b, x, e) BY <1>2, SetTail
<1>4. SameKeys(t, u, b)
  <2>1. SameKeys(t, t1, b) /\ SameKeys(t1, u, b) BY <1>1, <1>3 DEF HeadIs, TailIs
  <2> QED BY <2>1, SameKeysChain
<1>5. ASSUME NEW y \in At(b)
      PROVE  /\ u[y].head = (IF y = x THEN h ELSE t[y].head)
             /\ u[y].tail = (IF y = x THEN e ELSE t[y].tail)
             /\ u[y].live_next = t[y].live_next /\ u[y].live_prev = t[y].live_prev
  <2>1. /\ t1[y].head = (IF y = x THEN h ELSE t[y].head) /\ t1[y].tail = t[y].tail
        /\ t1[y].live_next = t[y].live_next /\ t1[y].live_prev = t[y].live_prev
    BY <1>1 DEF HeadIs
  <2>2. /\ u[y].tail = (IF y = x THEN e ELSE t1[y].tail) /\ u[y].head = t1[y].head
        /\ u[y].live_next = t1[y].live_next /\ u[y].live_prev = t1[y].live_prev
    BY <1>3 DEF TailIs
  <2> QED BY <2>1, <2>2
<1> QED BY <1>4, <1>5 DEF Ends

\* Node n out of the store, with v as its next.
Left(m, n, v) == [m EXCEPT ![n].next = v, ![n].prev = NULL, ![n].in_store = FALSE]
LeftIs(m, m1, n, v) ==
  /\ SameTimers(m, m1)
  /\ \A y \in Node : /\ m1[y].in_store = (IF y = n THEN FALSE ELSE m[y].in_store)
                     /\ m1[y].next = (IF y = n THEN v ELSE m[y].next)
                     /\ m1[y].prev = (IF y = n THEN NULL ELSE m[y].prev)

LEMMA SetLeft ==
  ASSUME NEW m \in [Node -> lawn2_timer], NEW n \in Node, NEW v \in NodePtr,
         NEW m1, m1 = Left(m, n, v)
  PROVE  LeftIs(m, m1, n, v)
<1>1. NULL \in NodePtr BY DEF NodePtr
<1>2. PICK a : a = [m EXCEPT ![n].next = v] OBVIOUS
<1>3. NextIs(m, a, n, v) BY <1>2, SetNext
<1>4. a \in [Node -> lawn2_timer] BY <1>3 DEF NextIs, SameTimers
<1>5. PICK c : c = [a EXCEPT ![n].prev = NULL] OBVIOUS
<1>6. PrevIs(a, c, n, NULL) BY <1>1, <1>4, <1>5, SetPrev
<1>7. c \in [Node -> lawn2_timer] BY <1>6 DEF PrevIs, SameTimers
<1>8. m1 = [c EXCEPT ![n].in_store = FALSE] BY <1>2, <1>5, Zenon DEF Left
<1>9. IsOut(c, m1, n) BY <1>7, <1>8, ClearInStore
<1>10. SameTimers(m, m1)
  <2>1. SameTimers(m, a) /\ SameTimers(a, c) /\ SameTimers(c, m1) BY <1>3, <1>6, <1>9 DEF NextIs, PrevIs, IsOut
  <2> QED BY <2>1, SameTimersChain
<1>11. ASSUME NEW y \in Node
       PROVE  /\ m1[y].in_store = (IF y = n THEN FALSE ELSE m[y].in_store)
              /\ m1[y].next = (IF y = n THEN v ELSE m[y].next)
              /\ m1[y].prev = (IF y = n THEN NULL ELSE m[y].prev)
  <2>1. a[y].next = (IF y = n THEN v ELSE m[y].next) /\ a[y].prev = m[y].prev /\ a[y].in_store = m[y].in_store
    BY <1>3 DEF NextIs
  <2>2. c[y].prev = (IF y = n THEN NULL ELSE a[y].prev) /\ c[y].next = a[y].next /\ c[y].in_store = a[y].in_store
    BY <1>6 DEF PrevIs
  <2>3. m1[y].in_store = (IF y = n THEN FALSE ELSE c[y].in_store) /\ m1[y].next = c[y].next /\ m1[y].prev = c[y].prev
    BY <1>9 DEF IsOut
  <2> QED BY <2>1, <2>2, <2>3
<1> QED BY <1>10, <1>11 DEF LeftIs

\* The nodes once v is the next of p, and once it is the one before z, if
\* there is such a node.
NextTo(m, p, v) == IF p = NULL THEN m ELSE [m EXCEPT ![p].next = v]
PrevTo(m, z, v) == IF z = NULL THEN m ELSE [m EXCEPT ![z].prev = v]

\* A node that leaves its blade.
LEMMA NodeTaken ==
  ASSUME NEW m \in [Node -> lawn2_timer], NEW n \in Node, NEW p, p = m[n].prev, NEW z, z = m[n].next,
         p # n, z # n, NEW v \in NodePtr,
         NEW m1, m1 = NextTo(m, p, z), NEW m2, m2 = PrevTo(m1, z, p),
         NEW m3, m3 = Left(m2, n, v)
  PROVE  /\ SameTimers(m, m3)
         /\ \A y \in Node : m3[y].in_store = (y # n /\ m[y].in_store)
         /\ m3[n].next = v
         /\ \A y \in Node : y # n /\ y # p => m3[y].next = m[y].next
         /\ Takes(Nexts(m), Prevs(m), Nexts(m3), Prevs(m3), Node, n)
<1>1. NULL \notin Node /\ NULL \in NodePtr BY LinksAssumption DEF NodePtr
<1>2. p \in NodePtr /\ z \in NodePtr BY DEF lawn2_timer
<1>3. (p # NULL => p \in Node) /\ (z # NULL => z \in Node) BY <1>2 DEF NodePtr
<1>4. NextIs(m, m1, p, z)
  <2>1. CASE p = NULL BY <1>1, <2>1 DEF NextIs, SameTimers, NextTo
  <2>2. CASE p # NULL
    <3>1. p \in Node /\ m1 = [m EXCEPT ![p].next = z] BY <1>3, <2>2 DEF NextTo
    <3> QED BY <1>2, <3>1, SetNext
  <2> QED BY <2>1, <2>2
<1>5. m1 \in [Node -> lawn2_timer] BY <1>4 DEF NextIs, SameTimers
<1>6. PrevIs(m1, m2, z, p)
  <2>1. CASE z = NULL BY <1>1, <1>5, <2>1 DEF PrevIs, SameTimers, PrevTo
  <2>2. CASE z # NULL
    <3>1. z \in Node /\ m2 = [m1 EXCEPT ![z].prev = p] BY <1>3, <2>2 DEF PrevTo
    <3> QED BY <1>2, <1>5, <3>1, SetPrev
  <2> QED BY <2>1, <2>2
<1>7. m2 \in [Node -> lawn2_timer] BY <1>6 DEF PrevIs, SameTimers
<1>8. LeftIs(m2, m3, n, v)
  <2>1. m2 \in [Node -> lawn2_timer] /\ n \in Node /\ v \in NodePtr /\ m3 = Left(m2, n, v) BY <1>7
  <2> QED BY <2>1, SetLeft, Zenon
<1>16. SameTimers(m, m3)
  <2>1. SameTimers(m, m1) /\ SameTimers(m1, m2) /\ SameTimers(m2, m3) BY <1>4, <1>6, <1>8 DEF NextIs, PrevIs, LeftIs
  <2> QED BY <2>1, SameTimersChain
<1>17. ASSUME NEW y \in Node
       PROVE  /\ m3[y].next = (IF y = n THEN v ELSE IF y = p THEN z ELSE m[y].next)
              /\ m3[y].prev = (IF y = n THEN NULL ELSE IF y = z THEN p ELSE m[y].prev)
              /\ m3[y].in_store = (y # n /\ m[y].in_store)
  <2>1. m1[y].next = (IF y = p THEN z ELSE m[y].next) /\ m1[y].prev = m[y].prev /\ m1[y].in_store = m[y].in_store
    BY <1>4 DEF NextIs
  <2>2. m2[y].prev = (IF y = z THEN p ELSE m1[y].prev) /\ m2[y].next = m1[y].next /\ m2[y].in_store = m1[y].in_store
    BY <1>6 DEF PrevIs
  <2>3. /\ m3[y].in_store = (IF y = n THEN FALSE ELSE m2[y].in_store)
        /\ m3[y].next = (IF y = n THEN v ELSE m2[y].next)
        /\ m3[y].prev = (IF y = n THEN NULL ELSE m2[y].prev)
    BY <1>8 DEF LeftIs
  <2>6. m[y].in_store \in BOOLEAN BY DEF lawn2_timer
  <2>7. m3[y].in_store = (y # n /\ m[y].in_store)
    <3>1. m3[y].in_store = (IF y = n THEN FALSE ELSE m[y].in_store) BY <2>1, <2>2, <2>3
    <3>2. y = n \/ y # n OBVIOUS
    <3> QED BY <2>6, <3>1, <3>2
  <2> QED BY <2>1, <2>2, <2>3, <2>7
<1>18. Takes(Nexts(m), Prevs(m), Nexts(m3), Prevs(m3), Node, n)
  <2>1. Nexts(m)[n] = z /\ Prevs(m)[n] = p BY DEF Nexts, Prevs
  <2>2. p # NULL => Nexts(m3)[p] = z BY <1>3, <1>17 DEF Nexts
  <2>3. z # NULL => Prevs(m3)[z] = p BY <1>3, <1>17 DEF Prevs
  <2>4. \A y \in Node : y # n /\ y # p => Nexts(m3)[y] = Nexts(m)[y] BY <1>17 DEF Nexts
  <2>5. \A y \in Node : y # n /\ y # z => Prevs(m3)[y] = Prevs(m)[y] BY <1>17 DEF Prevs
  <2> QED BY <2>1, <2>2, <2>3, <2>4, <2>5 DEF Takes
<1> QED BY <1>16, <1>17, <1>18

\* A blade that leaves the live list, and one that enters it.
LEMMA BladeTaken ==
  ASSUME NEW b, NEW t \in Slots(b), NEW x \in At(b), t[x].live_prev # x, t[x].live_next # x,
         NEW u, u = UnlinkedTab(t, x)
  PROVE  /\ SameBlades(t, u, b)
         /\ \A y \in At(b) : y # x /\ y # t[x].live_prev => u[y].live_next = t[y].live_next
         /\ Takes(LiveNexts(t, b), LivePrevs(t, b), LiveNexts(u, b), LivePrevs(u, b), At(b), x)
<1>1. PICK p, n : p = t[x].live_prev /\ n = t[x].live_next OBVIOUS
<1>2. p \in BladePtr(b) /\ n \in BladePtr(b) /\ NULL \in BladePtr(b) /\ p # x /\ n # x
  BY <1>1 DEF Slots, Slot, BladePtr, At
<1>3. NULL \notin At(b)
  <2>1. NULL \notin Nat BY LinksAssumption
  <2>2. \A y \in At(b) : y \in Nat BY DEF At
  <2> QED BY <2>1, <2>2
<1>4. (p # NULL => p \in At(b)) /\ (n # NULL => n \in At(b)) BY <1>2 DEF BladePtr, At
<1>5. PICK t1 : t1 = IF p = NULL THEN t ELSE [t EXCEPT ![p].live_next = n] OBVIOUS
<1>6. LiveNextIs(t, t1, b, p, n)
  <2>1. CASE p = NULL BY <1>3, <1>5, <2>1 DEF LiveNextIs, SameBlades, SameKeys
  <2>2. CASE p # NULL
    <3>1. p \in At(b) /\ t1 = [t EXCEPT ![p].live_next = n] BY <1>4, <1>5, <2>2
    <3> QED BY <1>2, <3>1, SetLiveNext
  <2> QED BY <2>1, <2>2
<1>7. t1 \in Slots(b) BY <1>6 DEF LiveNextIs, LivePrevIs, SameBlades, SameKeys
<1>8. PICK t2 : t2 = IF n = NULL THEN t1 ELSE [t1 EXCEPT ![n].live_prev = p] OBVIOUS
<1>9. LivePrevIs(t1, t2, b, n, p)
  <2>1. CASE n = NULL BY <1>3, <1>7, <1>8, <2>1 DEF LivePrevIs, SameBlades, SameKeys
  <2>2. CASE n # NULL
    <3>1. n \in At(b) /\ t2 = [t1 EXCEPT ![n].live_prev = p] BY <1>4, <1>8, <2>2
    <3> QED BY <1>2, <1>7, <3>1, SetLivePrev
  <2> QED BY <2>1, <2>2
<1>10. t2 \in Slots(b) BY <1>9 DEF LiveNextIs, LivePrevIs, SameBlades, SameKeys
<1>11. PICK t3 : t3 = [t2 EXCEPT ![x].live_prev = NULL] OBVIOUS
<1>12. LivePrevIs(t2, t3, b, x, NULL)
  BY <1>2, <1>10, <1>11, SetLivePrev
<1>13. t3 \in Slots(b) BY <1>12 DEF LiveNextIs, LivePrevIs, SameBlades, SameKeys
<1>14. u = [t3 EXCEPT ![x].live_next = NULL]
  BY <1>1, <1>5, <1>8, <1>11, Zenon DEF UnlinkedTab
<1>15. LiveNextIs(t3, u, b, x, NULL)
  BY <1>2, <1>13, <1>14, SetLiveNext
<1>16. SameBlades(t, u, b)
  <2>1. SameBlades(t, t1, b) /\ SameBlades(t1, t2, b) /\ SameBlades(t2, t3, b) /\ SameBlades(t3, u, b)
    BY <1>6, <1>9, <1>12, <1>15 DEF LiveNextIs, LivePrevIs
  <2> QED BY <2>1, SameBladesChain
<1>17. ASSUME NEW y \in At(b)
       PROVE  /\ u[y].live_next = (IF y = x THEN NULL ELSE IF y = p THEN n ELSE t[y].live_next)
              /\ u[y].live_prev = (IF y = x THEN NULL ELSE IF y = n THEN p ELSE t[y].live_prev)
  <2>1. t1[y].live_next = (IF y = p THEN n ELSE t[y].live_next) /\ t1[y].live_prev = t[y].live_prev
    BY <1>6 DEF LiveNextIs
  <2>2. t2[y].live_prev = (IF y = n THEN p ELSE t1[y].live_prev) /\ t2[y].live_next = t1[y].live_next
    BY <1>9 DEF LivePrevIs
  <2>3. t3[y].live_prev = (IF y = x THEN NULL ELSE t2[y].live_prev) /\ t3[y].live_next = t2[y].live_next
    BY <1>12 DEF LivePrevIs
  <2>4. u[y].live_next = (IF y = x THEN NULL ELSE t3[y].live_next) /\ u[y].live_prev = t3[y].live_prev
    BY <1>15 DEF LiveNextIs
  <2> QED BY <2>1, <2>2, <2>3, <2>4
<1>18. Takes(LiveNexts(t, b), LivePrevs(t, b), LiveNexts(u, b), LivePrevs(u, b), At(b), x)
  <2>1. LiveNexts(t, b)[x] = n /\ LivePrevs(t, b)[x] = p BY <1>1 DEF LiveNexts, LivePrevs
  <2>2. p # NULL => LiveNexts(u, b)[p] = n BY <1>2, <1>4, <1>17 DEF LiveNexts
  <2>3. n # NULL => LivePrevs(u, b)[n] = p BY <1>2, <1>4, <1>17 DEF LivePrevs
  <2>4. \A y \in At(b) : y # x /\ y # p => LiveNexts(u, b)[y] = LiveNexts(t, b)[y] BY <1>17 DEF LiveNexts
  <2>5. \A y \in At(b) : y # x /\ y # n => LivePrevs(u, b)[y] = LivePrevs(t, b)[y] BY <1>17 DEF LivePrevs
  <2> QED BY <2>1, <2>2, <2>3, <2>4, <2>5 DEF Takes
<1> QED BY <1>1, <1>16, <1>17, <1>18

LEMMA BladePushed ==
  ASSUME NEW b, NEW s \in TableOf(b), NEW x \in At(b), s.live_head # x, NEW r, r = live_link(s, x)
  PROVE  /\ r \in TableOf(b) /\ SameBlades(s.tab, r.tab, b) /\ r.count = s.count /\ r.live_head = x
         /\ Pushes(LiveNexts(s.tab, b), LivePrevs(s.tab, b), LiveNexts(r.tab, b), LivePrevs(r.tab, b),
                   At(b), x, s.live_head)
<1>1. PICK t, h : t = s.tab /\ h = s.live_head OBVIOUS
<1>2. t \in Slots(b) /\ h \in BladePtr(b) /\ NULL \in BladePtr(b) /\ x \in BladePtr(b) /\ h # x
  BY <1>1 DEF TableOf, BladePtr, At
<1>3. h # NULL => h \in At(b) BY <1>2 DEF BladePtr, At
<1>4. NULL \notin At(b)
  <2>1. NULL \notin Nat BY LinksAssumption
  <2>2. \A y \in At(b) : y \in Nat BY DEF At
  <2> QED BY <2>1, <2>2
<1>5. PICK t1 : t1 = [t EXCEPT ![x].live_prev = NULL] OBVIOUS
<1>6. LivePrevIs(t, t1, b, x, NULL)
  BY <1>2, <1>5, SetLivePrev
<1>7. t1 \in Slots(b) BY <1>6 DEF LiveNextIs, LivePrevIs, SameBlades, SameKeys
<1>8. PICK t2 : t2 = [t1 EXCEPT ![x].live_next = h] OBVIOUS
<1>9. LiveNextIs(t1, t2, b, x, h)
  BY <1>2, <1>7, <1>8, SetLiveNext
<1>10. t2 \in Slots(b) BY <1>9 DEF LiveNextIs, LivePrevIs, SameBlades, SameKeys
<1>11. PICK u : u = IF h = NULL THEN t2 ELSE [t2 EXCEPT ![h].live_prev = x] OBVIOUS
<1>12. LivePrevIs(t2, u, b, h, x)
  <2>1. CASE h = NULL BY <1>4, <1>10, <1>11, <2>1 DEF LivePrevIs, SameBlades, SameKeys
  <2>2. CASE h # NULL
    <3>1. h \in At(b) /\ u = [t2 EXCEPT ![h].live_prev = x] BY <1>3, <1>11, <2>2
    <3> QED BY <1>2, <1>10, <3>1, SetLivePrev
  <2> QED BY <2>1, <2>2
<1>13. SameBlades(t, u, b)
  <2>1. SameBlades(t, t1, b) /\ SameBlades(t1, t2, b) /\ SameBlades(t2, u, b)
    BY <1>6, <1>9, <1>12 DEF LiveNextIs, LivePrevIs
  <2> QED BY <2>1, SameBladesChain
<1>14. r = [s EXCEPT !.tab = u, !.live_head = x]
  BY <1>1, <1>5, <1>8, <1>11, Zenon DEF live_link
<1>15. u \in Slots(b) BY <1>12 DEF LiveNextIs, LivePrevIs, SameBlades, SameKeys
<1>16. r \in TableOf(b) /\ r.tab = u /\ r.live_head = x /\ r.count = s.count
  BY <1>2, <1>14, <1>15 DEF TableOf
<1>17. ASSUME NEW y \in At(b)
       PROVE  /\ u[y].live_next = (IF y = x THEN h ELSE t[y].live_next)
              /\ u[y].live_prev = (IF y = h THEN x ELSE IF y = x THEN NULL ELSE t[y].live_prev)
  <2>1. t1[y].live_prev = (IF y = x THEN NULL ELSE t[y].live_prev) /\ t1[y].live_next = t[y].live_next
    BY <1>6 DEF LivePrevIs
  <2>2. t2[y].live_next = (IF y = x THEN h ELSE t1[y].live_next) /\ t2[y].live_prev = t1[y].live_prev
    BY <1>9 DEF LiveNextIs
  <2>3. u[y].live_prev = (IF y = h THEN x ELSE t2[y].live_prev) /\ u[y].live_next = t2[y].live_next
    BY <1>12 DEF LivePrevIs
  <2> QED BY <2>1, <2>2, <2>3
<1>18. Pushes(LiveNexts(t, b), LivePrevs(t, b), LiveNexts(u, b), LivePrevs(u, b), At(b), x, h)
  <2>1. LiveNexts(u, b)[x] = h /\ LivePrevs(u, b)[x] = NULL BY <1>2, <1>17 DEF LiveNexts, LivePrevs
  <2>2. h # NULL => LivePrevs(u, b)[h] = x BY <1>3, <1>17 DEF LivePrevs
  <2>3. \A y \in At(b) : y # x => LiveNexts(u, b)[y] = LiveNexts(t, b)[y] BY <1>17 DEF LiveNexts
  <2>4. \A y \in At(b) : y # x /\ y # h => LivePrevs(u, b)[y] = LivePrevs(t, b)[y] BY <1>17 DEF LivePrevs
  <2> QED BY <2>1, <2>2, <2>3, <2>4 DEF Pushes
<1> QED BY <1>1, <1>13, <1>16, <1>18

(***************************************************************************)
(* The blades as sequences: qs[k] is the one of TTL k, lv the live list.     *)
(***************************************************************************)
\* The nodes thread the sequences.
Threads(m, qs) ==
  /\ qs \in [TTL -> Seq(Node)]
  /\ \A k \in TTL : /\ Listed(qs[k], Node, Nexts(m), Prevs(m))
                    /\ \A n \in In(qs[k]) : m[n].in_store /\ m[n].ttl = k
  /\ \A n \in Node : m[n].in_store => n \in In(qs[m[n].ttl])

\* The sequences once q is the one of TTL k.
With(qs, k, q) == [qs EXCEPT ![k] = q]

\* The used slots have their ends.
Heads(t, b, qs) ==
  /\ \A x \in At(b) : t[x].used => t[x].head = FirstOf(qs[t[x].ttl]) /\ t[x].tail = LastOf(qs[t[x].ttl])
  /\ \A x \in At(b) : ~t[x].used => t[x].head = NULL
  /\ \A k \in TTL : qs[k] # <<>> => \E x \in UsedOf(t, b) : t[x].ttl = k

\* The live list is lv, and has the blades with a head, z aside.
LiveIs(t, b, h, lv) == Listed(lv, At(b), LiveNexts(t, b), LivePrevs(t, b)) /\ h = FirstOf(lv)
LiveBut(t, b, lv, z) == \A x \in At(b) : x # z => (x \in In(lv) <=> t[x].head # NULL)

LEMMA NullIsNoBlade == ASSUME NEW b PROVE NULL \notin At(b)
<1>1. NULL \notin Nat BY LinksAssumption
<1>2. \A y \in At(b) : y \in Nat BY DEF At
<1> QED BY <1>1, <1>2

LEMMA NoOtherBlade ==
  ASSUME NEW m, NEW qs, Threads(m, qs), NEW k \in TTL, NEW j \in TTL, j # k, NEW y \in In(qs[j])
  PROVE  y \notin In(qs[k])
BY DEF Threads

LEMMA EndsOfBlades ==
  ASSUME NEW m, NEW qs, Threads(m, qs), NEW k \in TTL
  PROVE  /\ qs[k] \in Seq(Node) /\ Len(qs[k]) \in Nat /\ In(qs[k]) \subseteq Node
         /\ FirstOf(qs[k]) \in NodePtr /\ LastOf(qs[k]) \in NodePtr
         /\ FirstOf(qs[k]) # NULL => FirstOf(qs[k]) \in In(qs[k])
         /\ LastOf(qs[k]) # NULL => LastOf(qs[k]) \in In(qs[k])
         /\ FirstOf(qs[k]) = NULL <=> qs[k] = <<>>
         /\ LastOf(qs[k]) = NULL <=> qs[k] = <<>>
<1>1. PICK s : s = qs[k] OBVIOUS
<1>2. s \in Seq(Node) /\ NULL \notin Node BY <1>1, LinksAssumption DEF Threads
<1>3. /\ Len(s) \in Nat /\ In(s) \subseteq Node /\ (Len(s) = 0 <=> s = <<>>)
      /\ Len(s) # 0 => FirstOf(s) \in In(s) /\ LastOf(s) \in In(s)
      /\ FirstOf(s) = NULL <=> Len(s) = 0
      /\ LastOf(s) = NULL <=> Len(s) = 0
  BY <1>2, InProps
<1> QED BY <1>1, <1>2, <1>3 DEF NodePtr

\* A node at the end of blade k.
AppendedIs(m, m1, n, k, tail) ==
  /\ m1[n].ttl = k /\ m1[n].in_store
  /\ \A y \in Node : y # n => m1[y].ttl = m[y].ttl /\ m1[y].in_store = m[y].in_store
  /\ Appends(Nexts(m), Prevs(m), Nexts(m1), Prevs(m1), Node, n, tail)

LEMMA ThreadsAppend ==
  ASSUME NEW m, KnownTTLs(m), NEW qs, Threads(m, qs), NEW n \in Node, ~m[n].in_store, NEW k \in TTL,
         NEW m1, AppendedIs(m, m1, n, k, LastOf(qs[k])),
         NEW qs1, qs1 = With(qs, k, Behind(qs[k], n))
  PROVE  /\ Threads(m1, qs1) /\ FirstOf(qs1[k]) = (IF LastOf(qs[k]) = NULL THEN n ELSE FirstOf(qs[k]))
         /\ LastOf(qs1[k]) = n
<1>1. NULL \notin Node BY LinksAssumption
<1>2. PICK s, r : s = qs[k] /\ r = Append(s, n) /\ r = Behind(s, n) BY DEF Behind
<1>3. s \in Seq(Node) /\ Listed(s, Node, Nexts(m), Prevs(m)) BY <1>2 DEF Threads
<1>4. \A j \in TTL : n \notin In(qs[j]) BY DEF Threads
<1>5. r \in Seq(Node)
  <2>1. s \in Seq(Node) /\ n \in Node /\ r = Append(s, n) BY <1>2, <1>3
  <2> QED BY <2>1
<1>6. /\ qs1 \in [TTL -> Seq(Node)] /\ qs1[k] = r /\ \A j \in TTL : j # k => qs1[j] = qs[j]
  <2>1. qs \in [TTL -> Seq(Node)] BY DEF Threads
  <2> QED BY <1>2, <1>5, <2>1 DEF With
<1>7. PICK nx, pv, nx1, pv1 : nx = Nexts(m) /\ pv = Prevs(m) /\ nx1 = Nexts(m1) /\ pv1 = Prevs(m1) OBVIOUS
<1>8. Appends(nx, pv, nx1, pv1, Node, n, LastOf(s)) BY <1>2, <1>7 DEF AppendedIs
<1>9. /\ Listed(r, Node, nx1, pv1) /\ In(r) = In(s) \cup {n}
      /\ FirstOf(r) = (IF LastOf(s) = NULL THEN n ELSE FirstOf(s)) /\ LastOf(r) = n
  <2>1. /\ NULL \notin Node /\ Listed(s, Node, nx, pv) /\ n \in Node /\ n \notin In(s)
        /\ Appends(nx, pv, nx1, pv1, Node, n, LastOf(s)) /\ r = Behind(s, n)
    BY <1>1, <1>2, <1>3, <1>4, <1>7, <1>8 DEF Behind
  <2> QED BY <2>1, ListAppend
<1>10. ASSUME NEW j \in TTL
       PROVE  /\ Listed(qs1[j], Node, nx1, pv1)
              /\ \A y \in In(qs1[j]) : m1[y].in_store /\ m1[y].ttl = j
  <2>1. CASE j = k
    <3>1. \A y \in In(s) : y # n /\ y \in Node /\ m[y].in_store /\ m[y].ttl = k
      BY <1>2, <1>4, EndsOfBlades DEF Threads
    <3>2. \A y \in In(r) : m1[y].in_store /\ m1[y].ttl = k BY <1>9, <3>1 DEF AppendedIs
    <3> QED BY <1>6, <1>9, <2>1, <3>2
  <2>2. CASE j # k
    <3>1. qs1[j] = qs[j] BY <1>6, <2>2
    <3>2. \A y \in In(qs[j]) : y # n /\ y \in Node /\ m[y].in_store /\ m[y].ttl = j
      BY <1>4, EndsOfBlades DEF Threads
    <3>3. \A y \in In(qs[j]) : m1[y].in_store /\ m1[y].ttl = j BY <3>2 DEF AppendedIs
    <3>4. \A y \in In(qs[j]) : y # LastOf(s)
      <4>1. LastOf(s) = NULL \/ LastOf(s) \in In(s) BY <1>2, EndsOfBlades
      <4> QED BY <1>1, <1>2, <2>2, <3>2, <4>1, NoOtherBlade
    <3>5. \A y \in In(qs[j]) : nx1[y] = nx[y] /\ pv1[y] = pv[y] BY <1>8, <3>2, <3>4 DEF Appends
    <3>6. Listed(qs[j], Node, nx, pv) BY <1>7 DEF Threads
    <3> QED BY <3>1, <3>3, <3>5, <3>6, ListedFrame
  <2> QED BY <2>1, <2>2
<1>11. ASSUME NEW y \in Node, m1[y].in_store PROVE y \in In(qs1[m1[y].ttl])
  <2>1. CASE y = n BY <1>6, <1>9, <2>1 DEF AppendedIs
  <2>2. CASE y # n
    <3>1. PICK j : j = m[y].ttl OBVIOUS
    <3>2. m[y].in_store /\ m1[y].ttl = j BY <1>11, <2>2, <3>1 DEF AppendedIs
    <3>3. j \in TTL /\ y \in In(qs[j]) BY <3>1, <3>2 DEF KnownTTLs, Threads
    <3>4. j = k => qs[j] = s BY <1>2
    <3> QED BY <1>6, <1>9, <3>2, <3>3, <3>4
  <2> QED BY <2>1, <2>2
<1> QED BY <1>2, <1>6, <1>7, <1>9, <1>10, <1>11 DEF Threads

\* One leaves blade k.
TakenIs(m, m1, n) ==
  /\ \A y \in Node : m1[y].ttl = m[y].ttl
  /\ \A y \in Node : m1[y].in_store = (y # n /\ m[y].in_store)
  /\ Takes(Nexts(m), Prevs(m), Nexts(m1), Prevs(m1), Node, n)

\* n is at place a of q; qs1 is qs with q for k; the ends q has after n, a
\* node of the blade of k, is out.
NodeAt(q, a, n) == a \in 1 .. Len(q) /\ n = q[a]
GoesTo(qs, qs1, k, q) == qs1 = With(qs, k, q)
EndsWithout(m, qs, q, k, n) ==
  /\ FirstOf(q) = (IF m[n].prev = NULL THEN m[n].next ELSE FirstOf(qs[k]))
  /\ LastOf(q) = (IF m[n].next = NULL THEN m[n].prev ELSE LastOf(qs[k]))

LEMMA ThreadsTake ==
  ASSUME NEW m, KnownTTLs(m), NEW qs, Threads(m, qs), NEW k \in TTL, NEW a, NEW n, NodeAt(qs[k], a, n),
         NEW m1, TakenIs(m, m1, n), NEW qs1, GoesTo(qs, qs1, k, TakenOut(qs[k], a))
  PROVE  Threads(m1, qs1) /\ EndsWithout(m, qs, qs1[k], k, n)
<1>0. a \in 1 .. Len(qs[k]) /\ n = qs[k][a] /\ qs1 = With(qs, k, TakenOut(qs[k], a)) BY DEF NodeAt, GoesTo
<1>1. NULL \notin Node BY LinksAssumption
<1>2. PICK s, r : s = qs[k] /\ r = TakenOut(s, a) OBVIOUS
<1>3. s \in Seq(Node) /\ Listed(s, Node, Nexts(m), Prevs(m)) /\ a \in 1 .. Len(s) /\ n = s[a]
  BY <1>0, <1>2 DEF Threads
<1>4. r \in Seq(Node) BY <1>2, <1>3, SeqTakeOut
<1>5. n \in In(s) /\ n \in Node BY <1>3, ElementOfSeq DEF In
<1>6. /\ qs1 \in [TTL -> Seq(Node)] /\ qs1[k] = r /\ \A j \in TTL : j # k => qs1[j] = qs[j]
  <2>1. qs \in [TTL -> Seq(Node)] BY DEF Threads
  <2> QED BY <1>0, <1>2, <1>4, <2>1 DEF With
<1>7. PICK nx, pv, nx1, pv1 : nx = Nexts(m) /\ pv = Prevs(m) /\ nx1 = Nexts(m1) /\ pv1 = Prevs(m1) OBVIOUS
<1>8. Takes(nx, pv, nx1, pv1, Node, n) BY <1>7 DEF TakenIs
<1>9. nx[n] = m[n].next /\ pv[n] = m[n].prev BY <1>5, <1>7 DEF Nexts, Prevs
<1>10. /\ Listed(r, Node, nx1, pv1) /\ In(r) = In(s) \ {n}
       /\ FirstOf(r) = (IF pv[n] = NULL THEN nx[n] ELSE FirstOf(s))
       /\ LastOf(r) = (IF nx[n] = NULL THEN pv[n] ELSE LastOf(s))
  <2>1. /\ NULL \notin Node /\ Listed(s, Node, nx, pv) /\ a \in 1 .. Len(s) /\ n = s[a]
        /\ Takes(nx, pv, nx1, pv1, Node, n) /\ r = TakenOut(s, a)
    BY <1>1, <1>2, <1>3, <1>7, <1>8
  <2> QED BY <2>1, ListTake
<1>11. (nx[n] = NULL \/ nx[n] \in In(s)) /\ (pv[n] = NULL \/ pv[n] \in In(s))
  <2>1. PICK c \in Nat : c = Len(s) BY <1>3, LenProperties
  <2>2. nx[n] = (IF a = c THEN NULL ELSE s[a + 1]) /\ pv[n] = (IF a = 1 THEN NULL ELSE s[a - 1])
    BY <1>3, <1>7, <2>1 DEF Listed, After, Before
  <2>3. (a # c => a + 1 \in 1 .. c) /\ (a # 1 => a - 1 \in 1 .. c) BY <1>3, <2>1
  <2> QED BY <2>1, <2>2, <2>3 DEF In
<1>12. ASSUME NEW j \in TTL
       PROVE  /\ Listed(qs1[j], Node, nx1, pv1)
              /\ \A y \in In(qs1[j]) : m1[y].in_store /\ m1[y].ttl = j
  <2>1. CASE j = k
    <3>1. \A y \in In(s) : y \in Node /\ m[y].in_store /\ m[y].ttl = k
      BY <1>2, EndsOfBlades DEF Threads
    <3>2. \A y \in In(r) : m1[y].in_store /\ m1[y].ttl = k BY <1>10, <3>1 DEF TakenIs
    <3> QED BY <1>6, <1>10, <2>1, <3>2
  <2>2. CASE j # k
    <3>1. qs1[j] = qs[j] BY <1>6, <2>2
    <3>2. \A y \in In(qs[j]) : y \in Node /\ m[y].in_store /\ m[y].ttl = j
      BY EndsOfBlades DEF Threads
    <3>3. \A y \in In(qs[j]) : y \notin In(s) BY <1>2, <2>2, NoOtherBlade
    <3>4. \A y \in In(qs[j]) : y # n /\ y # nx[n] /\ y # pv[n] BY <1>1, <1>5, <1>11, <3>2, <3>3
    <3>5. \A y \in In(qs[j]) : m1[y].in_store /\ m1[y].ttl = j BY <3>2, <3>4 DEF TakenIs
    <3>6. \A y \in In(qs[j]) : nx1[y] = nx[y] /\ pv1[y] = pv[y] BY <1>8, <3>2, <3>4 DEF Takes
    <3>7. Listed(qs[j], Node, nx, pv) BY <1>7 DEF Threads
    <3> QED BY <3>1, <3>5, <3>6, <3>7, ListedFrame
  <2> QED BY <2>1, <2>2
<1>13. ASSUME NEW y \in Node, m1[y].in_store PROVE y \in In(qs1[m1[y].ttl])
  <2>1. PICK j : j = m[y].ttl OBVIOUS
  <2>2. y # n /\ m[y].in_store /\ m1[y].ttl = j BY <1>13, <2>1 DEF TakenIs
  <2>3. j \in TTL /\ y \in In(qs[j]) BY <2>1, <2>2 DEF KnownTTLs, Threads
  <2>4. j = k => qs[j] = s BY <1>2
  <2> QED BY <1>6, <1>10, <2>2, <2>3, <2>4
<1>14. Threads(m1, qs1) BY <1>6, <1>7, <1>12, <1>13 DEF Threads
<1>15. EndsWithout(m, qs, qs1[k], k, n) BY <1>2, <1>6, <1>9, <1>10 DEF EndsWithout
<1> QED BY <1>14, <1>15

\* Blade x, the one of TTL k, becomes q.
LEMMA HeadsSet ==
  ASSUME NEW b \in Bits, NEW t, GoodTable(t, b), NEW qs, qs \in [TTL -> Seq(Node)], Heads(t, b, qs),
         NEW x \in UsedOf(t, b), NEW k, k = t[x].ttl, NEW q, NEW u, Ends(t, u, b, x, FirstOf(q), LastOf(q)),
         NEW qs1, qs1 = With(qs, k, q)
  PROVE  Heads(u, b, qs1)
<1>1. k \in TTL /\ x \in At(b) /\ t[x].used BY DEF GoodTable, UsedOf
<1>2. SameKeys(t, u, b) /\ UsedOf(u, b) = UsedOf(t, b) BY SameKeysGood DEF Ends
<1>3. qs1[k] = q /\ \A j \in TTL : j # k => qs1[j] = qs[j] BY <1>1 DEF With
<1>4. ASSUME NEW y \in At(b), u[y].used PROVE u[y].head = FirstOf(qs1[u[y].ttl]) /\ u[y].tail = LastOf(qs1[u[y].ttl])
  <2>1. t[y].used /\ u[y].ttl = t[y].ttl /\ y \in UsedOf(t, b) BY <1>2, <1>4 DEF SameKeys, UsedOf
  <2>2. CASE y = x
    <3>1. u[y].head = FirstOf(q) /\ u[y].tail = LastOf(q) BY <2>2 DEF Ends
    <3> QED BY <1>3, <2>1, <2>2, <3>1
  <2>3. CASE y # x
    <3>1. t[y].ttl # k /\ t[y].ttl \in TTL BY <2>1, <2>3, OneBladePerTTL DEF GoodTable
    <3>2. u[y].head = t[y].head /\ u[y].tail = t[y].tail BY <2>3 DEF Ends
    <3> QED BY <1>3, <2>1, <3>1, <3>2 DEF Heads
  <2> QED BY <2>2, <2>3
<1>5. ASSUME NEW y \in At(b), ~u[y].used PROVE u[y].head = NULL
  <2>1. ~t[y].used /\ y # x BY <1>1, <1>2, <1>5 DEF SameKeys
  <2> QED BY <2>1 DEF Ends, Heads
<1>6. ASSUME NEW j \in TTL, qs1[j] # <<>> PROVE \E y \in UsedOf(u, b) : u[y].ttl = j
  <2>1. \E y \in UsedOf(t, b) : t[y].ttl = j
    <3>1. CASE j = k BY <3>1
    <3>2. CASE j # k BY <1>3, <1>6, <3>2 DEF Heads
    <3> QED BY <3>1, <3>2
  <2> QED BY <1>2, <2>1 DEF SameKeys, UsedOf
<1> QED BY <1>4, <1>5, <1>6 DEF Heads

LEMMA HeadsSame ==
  ASSUME NEW b \in Bits, NEW t, GoodTable(t, b), NEW qs, Heads(t, b, qs), NEW u, SameBlades(t, u, b)
  PROVE  Heads(u, b, qs)
<1>1. SameKeys(t, u, b) /\ UsedOf(u, b) = UsedOf(t, b) BY SameKeysGood DEF SameBlades
<1>2. \A x \in At(b) : u[x].used = t[x].used /\ u[x].ttl = t[x].ttl /\ u[x].head = t[x].head /\ u[x].tail = t[x].tail
  BY <1>1 DEF SameBlades, SameKeys
<1>3. \A x \in UsedOf(t, b) : u[x].ttl = t[x].ttl BY <1>2 DEF UsedOf
<1> QED BY <1>1, <1>2, <1>3 DEF Heads

\* The blade of a TTL that has nodes, and the others.
LEMMA BladeOf ==
  ASSUME NEW t, NEW b \in Bits, GoodTable(t, b), \E y \in At(b) : ~t[y].used,
         NEW qs, Heads(t, b, qs), NEW k \in TTL, NEW x, x = find_slot(t, b, k)
  PROVE  /\ x \in At(b) /\ (t[x].used => t[x].ttl = k)
         /\ qs[k] # <<>> => x \in UsedOf(t, b)
<1>1. x \in At(b) /\ (t[x].used => t[x].ttl = k) BY SlotOf
<1>2. ASSUME qs[k] # <<>> PROVE x \in UsedOf(t, b)
  <2>1. PICK y \in UsedOf(t, b) : t[y].ttl = k BY <1>2 DEF Heads
  <2>2. find_slot(t, b, t[y].ttl) = y BY <2>1, FoundIsFound
  <2> QED BY <2>1, <2>2
<1> QED BY <1>1, <1>2

\* The live links with no change of theirs.
LEMMA LiveSame ==
  ASSUME NEW b, NEW t, NEW u, NEW h, NEW lv, LiveIs(t, b, h, lv),
         \A y \in At(b) : u[y].live_next = t[y].live_next /\ u[y].live_prev = t[y].live_prev
  PROVE  LiveIs(u, b, h, lv)
<1>1. LiveNexts(u, b) = LiveNexts(t, b) /\ LivePrevs(u, b) = LivePrevs(t, b) BY DEF LiveNexts, LivePrevs
<1> QED BY <1>1 DEF LiveIs

\* The neighbours of a blade on the live list.
LEMMA LiveNeighbours ==
  ASSUME NEW b, NEW t, NEW h, NEW lv, LiveIs(t, b, h, lv), NEW a \in 1 .. Len(lv), NEW x, x = lv[a]
  PROVE  /\ x \in At(b) /\ Len(lv) \in Nat
         /\ t[x].live_next = (IF a = Len(lv) THEN NULL ELSE lv[a + 1])
         /\ t[x].live_prev = (IF a = 1 THEN NULL ELSE lv[a - 1])
         /\ t[x].live_next # x /\ t[x].live_prev # x
         /\ t[x].live_prev # NULL => t[x].live_prev \in At(b) /\ t[t[x].live_prev].live_next = x
<1>1. NULL \notin At(b) BY NullIsNoBlade
<1>2. lv \in Seq(At(b)) BY DEF LiveIs, Listed, Simple
<1>3. PICK k \in Nat : k = Len(lv) BY <1>2, LenProperties
<1>4. \A i \in 1 .. k : lv[i] \in At(b) BY <1>2, <1>3, ElementOfSeq
<1>5. ASSUME NEW i \in 1 .. k
      PROVE  /\ t[lv[i]].live_next = (IF i = k THEN NULL ELSE lv[i + 1])
             /\ t[lv[i]].live_prev = (IF i = 1 THEN NULL ELSE lv[i - 1])
  <2>1. LiveNexts(t, b)[lv[i]] = After(lv, i) /\ LivePrevs(t, b)[lv[i]] = Before(lv, i)
    BY <1>3 DEF LiveIs, Listed
  <2>2. LiveNexts(t, b)[lv[i]] = t[lv[i]].live_next /\ LivePrevs(t, b)[lv[i]] = t[lv[i]].live_prev
    BY <1>4 DEF LiveNexts, LivePrevs
  <2> QED BY <1>3, <2>1, <2>2 DEF After, Before
<1>6. \A i, j \in 1 .. k : lv[i] = lv[j] => i = j BY <1>3 DEF LiveIs, Listed, Simple
<1>7. (a # k => a + 1 \in 1 .. k /\ a + 1 # a) /\ (a # 1 => a - 1 \in 1 .. k /\ a - 1 # a /\ a - 1 # k) /\ a \in 1 .. k
  BY <1>3
<1>8. t[x].live_next = (IF a = k THEN NULL ELSE lv[a + 1]) /\ t[x].live_prev = (IF a = 1 THEN NULL ELSE lv[a - 1])
  BY <1>5, <1>7
<1>9. t[x].live_next # x
  <2>1. a # k => lv[a + 1] # lv[a] BY <1>6, <1>7
  <2> QED BY <1>1, <1>4, <1>7, <1>8, <2>1
<1>10. t[x].live_prev # x
  <2>1. a # 1 => lv[a - 1] # lv[a] BY <1>6, <1>7
  <2> QED BY <1>1, <1>4, <1>7, <1>8, <2>1
<1>11. ASSUME a # 1 PROVE t[lv[a - 1]].live_next = x
  <2>1. PICK c : c = a - 1 OBVIOUS
  <2>2. c \in 1 .. k /\ c # k /\ c + 1 = a BY <1>3, <1>7, <1>11, <2>1
  <2>3. t[lv[c]].live_next = lv[c + 1] BY <1>5, <2>2
  <2> QED BY <2>1, <2>2, <2>3
<1> QED BY <1>3, <1>4, <1>7, <1>8, <1>9, <1>10, <1>11

\* An empty blade leaves the live list.
LEMMA LiveOut ==
  ASSUME NEW b, NEW t \in Slots(b), NEW h, NEW lv, LiveIs(t, b, h, lv), NEW x \in In(lv),
         LiveBut(t, b, lv, x), t[x].head = NULL, NEW u, u = UnlinkedTab(t, x),
         NEW g, g = (IF t[x].live_prev = NULL THEN t[x].live_next ELSE h)
  PROVE  \E lv1 : LiveIs(u, b, g, lv1) /\ LiveBut(u, b, lv1, NULL)
<1>1. NULL \notin At(b) BY NullIsNoBlade
<1>2. PICK a \in 1 .. Len(lv) : x = lv[a] BY DEF In
<1>3. x \in At(b) /\ t[x].live_next # x /\ t[x].live_prev # x BY <1>2, LiveNeighbours
<1>4. /\ SameBlades(t, u, b)
      /\ Takes(LiveNexts(t, b), LivePrevs(t, b), LiveNexts(u, b), LivePrevs(u, b), At(b), x)
  BY <1>3, BladeTaken
<1>5. PICK nx, pv, nx1, pv1 : /\ nx = LiveNexts(t, b) /\ pv = LivePrevs(t, b)
                              /\ nx1 = LiveNexts(u, b) /\ pv1 = LivePrevs(u, b)
  OBVIOUS
<1>6. nx[x] = t[x].live_next /\ pv[x] = t[x].live_prev BY <1>3, <1>5 DEF LiveNexts, LivePrevs
<1>7. PICK r : r = TakenOut(lv, a) OBVIOUS
<1>8. /\ Listed(r, At(b), nx1, pv1) /\ In(r) = In(lv) \ {x}
      /\ FirstOf(r) = (IF pv[x] = NULL THEN nx[x] ELSE FirstOf(lv))
  <2>1. Listed(lv, At(b), nx, pv) /\ Takes(nx, pv, nx1, pv1, At(b), x) BY <1>4, <1>5 DEF LiveIs
  <2> QED BY <1>1, <1>2, <1>7, <2>1, ListTake
<1>9. LiveIs(u, b, g, r) BY <1>5, <1>6, <1>8 DEF LiveIs
<1>10. LiveBut(u, b, r, NULL)
  <2>1. \A y \in At(b) : u[y].head = t[y].head BY <1>4 DEF SameBlades
  <2> QED BY <1>8, <2>1 DEF LiveBut
<1> QED BY <1>9, <1>10

\* One with nodes enters it.
LEMMA LiveIn ==
  ASSUME NEW b, NEW s \in TableOf(b), NEW lv, LiveIs(s.tab, b, s.live_head, lv), NEW x \in At(b), x \notin In(lv),
         LiveBut(s.tab, b, lv, x), s.tab[x].head # NULL, NEW r, r = live_link(s, x)
  PROVE  /\ r \in TableOf(b) /\ SameBlades(s.tab, r.tab, b) /\ r.count = s.count
         /\ \E lv1 : LiveIs(r.tab, b, r.live_head, lv1) /\ LiveBut(r.tab, b, lv1, NULL)
<1>1. NULL \notin At(b) BY NullIsNoBlade
<1>2. PICK t, u, h : t = s.tab /\ u = r.tab /\ h = s.live_head OBVIOUS
<1>3. lv \in Seq(At(b)) BY DEF LiveIs, Listed, Simple
<1>4. h = FirstOf(lv) /\ h # x
  <2>1. h = FirstOf(lv) BY <1>2 DEF LiveIs
  <2>2. (FirstOf(lv) = NULL <=> Len(lv) = 0) /\ (Len(lv) # 0 => FirstOf(lv) \in In(lv)) BY <1>1, <1>3, InProps
  <2> QED BY <1>1, <2>1, <2>2
<1>5. /\ r \in TableOf(b) /\ SameBlades(t, u, b) /\ r.count = s.count /\ r.live_head = x
      /\ Pushes(LiveNexts(t, b), LivePrevs(t, b), LiveNexts(u, b), LivePrevs(u, b), At(b), x, h)
  <2>1. s \in TableOf(b) /\ x \in At(b) /\ s.live_head # x BY <1>2, <1>4
  <2>2. /\ r \in TableOf(b) /\ SameBlades(s.tab, r.tab, b) /\ r.count = s.count /\ r.live_head = x
        /\ Pushes(LiveNexts(s.tab, b), LivePrevs(s.tab, b), LiveNexts(r.tab, b), LivePrevs(r.tab, b),
                  At(b), x, s.live_head)
    BY <2>1, BladePushed
  <2> QED BY <1>2, <2>2
<1>6. PICK nx, pv, nx1, pv1 : /\ nx = LiveNexts(t, b) /\ pv = LivePrevs(t, b)
                              /\ nx1 = LiveNexts(u, b) /\ pv1 = LivePrevs(u, b)
  OBVIOUS
<1>7. PICK q : q = InFront(lv, x) OBVIOUS
<1>8. Listed(q, At(b), nx1, pv1) /\ In(q) = In(lv) \cup {x} /\ FirstOf(q) = x
  <2>1. Listed(lv, At(b), nx, pv) /\ Pushes(nx, pv, nx1, pv1, At(b), x, FirstOf(lv)) BY <1>2, <1>4, <1>5, <1>6 DEF LiveIs
  <2>2. x \in At(b) /\ x \notin In(lv) OBVIOUS
  <2> QED BY <1>1, <1>7, <2>1, <2>2, ListPush
<1>9. LiveIs(u, b, x, q) BY <1>6, <1>8 DEF LiveIs
<1>10. LiveBut(u, b, q, NULL)
  <2>1. \A y \in At(b) : u[y].head = t[y].head BY <1>5 DEF SameBlades
  <2>2. \A y \in At(b) : y # x => (y \in In(lv) <=> t[y].head # NULL) BY <1>2 DEF LiveBut
  <2>3. t[x].head # NULL BY <1>2
  <2> QED BY <1>8, <2>1, <2>2, <2>3 DEF LiveBut
<1> QED BY <1>2, <1>5, <1>9, <1>10

(***************************************************************************)
(* grow moves the blades with their nodes, and links the new live list.      *)
(***************************************************************************)
\* The slot x of u is the blade o, not on the live list; the others stay.
Placed(t, u, c, x, o) ==
  /\ u[x].used /\ u[x].ttl = o.ttl /\ u[x].head = o.head /\ u[x].tail = o.tail
  /\ \A y \in At(c) : y # x => u[y] = t[y]

LEMMA BladePlaced ==
  ASSUME NEW b \in Bits, NEW c \in Bits, NEW old \in Slots(b), NEW j \in At(b), old[j].used,
         NEW s \in TableOf(c), NEW x \in At(c), NEW r, r = Moved(s, x, old[j])
  PROVE  Placed(s.tab, r.tab, c, x, old[j]) /\ r.live_head = s.live_head
<1>1. PICK o, v : o = old[j] /\ v = [o EXCEPT !.live_prev = NULL, !.live_next = NULL] OBVIOUS
<1>2. o \in Slot(b) /\ o.used BY <1>1 DEF Slots, At
<1>3. v.used /\ v.ttl = o.ttl /\ v.head = o.head /\ v.tail = o.tail BY <1>1, <1>2 DEF Slot
<1>4. PICK t, n : t = s.tab /\ n = s.count + 1 OBVIOUS
<1>5. PICK u : u = [t EXCEPT ![x] = v] OBVIOUS
<1>6. u[x] = v /\ \A y \in At(c) : y # x => u[y] = t[y]
  <2>1. t \in Slots(c) BY <1>4 DEF TableOf
  <2> QED BY <1>5, <2>1 DEF Slots, At
<1>7. r = [s EXCEPT !.tab = u, !.count = n] BY <1>1, <1>4, <1>5, Zenon DEF Moved
<1>8. r.tab = u /\ r.live_head = s.live_head BY <1>7 DEF TableOf
<1> QED BY <1>1, <1>2, <1>3, <1>4, <1>6, <1>8 DEF Placed

\* The links once the used slots below k have moved.
Relinked(old, c, k, s) ==
  /\ \A x \in At(c) : ~s.tab[x].used => s.tab[x].head = NULL
  /\ \A x \in UsedOf(s.tab, c) : \E j \in Done(old, k) :
       old[j].ttl = s.tab[x].ttl /\ old[j].head = s.tab[x].head /\ old[j].tail = s.tab[x].tail
  /\ \A j \in Done(old, k) : \E x \in UsedOf(s.tab, c) : s.tab[x].ttl = old[j].ttl
  /\ \E lv : LiveIs(s.tab, c, s.live_head, lv) /\ LiveBut(s.tab, c, lv, NULL)

LEMMA RelinkOne ==
  ASSUME NEW b \in Bits, NEW c \in Bits, NEW old, GoodTable(old, b), 2 ^ b <= 2 ^ c,
         NEW k \in At(b), NEW s, Grown(old, c, k, s), Relinked(old, c, k, s), NEW r, r = Rehash(s, c, old[k])
  PROVE  Relinked(old, c, k + 1, r)
<1>1. k \in Nat /\ k < 2 ^ b BY Capacity DEF At
<1>2. CASE ~old[k].used
  <2>1. r = s BY <1>2 DEF Rehash
  <2>2. Done(old, k + 1) = Done(old, k) BY <1>1, <1>2, DoneOneMore
  <2> QED BY <2>1, <2>2 DEF Relinked
<1>3. CASE old[k].used
  <2>1. PICK o, x : o = old[k] /\ x = find_slot(s.tab, c, o.ttl) OBVIOUS
  <2>2. s \in TableOf(c) /\ old \in Slots(b) BY DEF Grown, GoodTable
  <2>3. x \in At(c) /\ ~s.tab[x].used BY <1>3, <2>1, RehashPlace
  <2>4. PICK m : m = Moved(s, x, o) OBVIOUS
  <2>5. PICK t, u, h : t = s.tab /\ u = m.tab /\ h = s.live_head OBVIOUS
  <2>6. Placed(t, u, c, x, o) /\ m.live_head = h BY <1>3, <2>1, <2>2, <2>3, <2>4, <2>5, BladePlaced
  <2>7. m \in TableOf(c) BY <1>3, <2>1, <2>2, <2>3, <2>4, MoveSlot
  <2>8. PICK lv : LiveIs(t, c, h, lv) /\ LiveBut(t, c, lv, NULL) BY <2>5 DEF Relinked
  <2>9. x \notin In(lv) /\ x # NULL
    <3>1. x # NULL BY <2>3, NullIsNoBlade
    <3>2. t[x].head = NULL BY <2>3, <2>5 DEF Relinked
    <3> QED BY <2>3, <2>8, <3>1, <3>2 DEF LiveBut
  <2>10. LiveIs(u, c, h, lv)
    <3>1. lv \in Seq(At(c)) BY <2>8 DEF LiveIs, Listed, Simple
    <3>2. In(lv) \subseteq At(c) BY <3>1, NullIsNoBlade, InProps
    <3>3. \A y \in In(lv) : LiveNexts(u, c)[y] = LiveNexts(t, c)[y] /\ LivePrevs(u, c)[y] = LivePrevs(t, c)[y]
      BY <2>6, <2>9, <3>2 DEF Placed, LiveNexts, LivePrevs
    <3>4. PICK nx, pv, nx1, pv1 : /\ nx = LiveNexts(t, c) /\ pv = LivePrevs(t, c)
                                  /\ nx1 = LiveNexts(u, c) /\ pv1 = LivePrevs(u, c)
      OBVIOUS
    <3>5. Listed(lv, At(c), nx, pv) /\ \A y \in In(lv) : nx1[y] = nx[y] /\ pv1[y] = pv[y]
      BY <2>8, <3>3, <3>4 DEF LiveIs
    <3>6. Listed(lv, At(c), nx1, pv1) BY <3>5, ListedFrame
    <3> QED BY <2>8, <3>4, <3>6 DEF LiveIs
  <2>11. LiveBut(u, c, lv, x)
    <3>1. \A y \in At(c) : y # NULL BY NullIsNoBlade
    <3> QED BY <2>6, <2>8, <3>1 DEF LiveBut, Placed
  <2>12. r = IF o.head = NULL THEN m ELSE live_link(m, x) BY <1>3, <2>1, <2>4, Zenon DEF Rehash
  <2>13. SameBlades(u, r.tab, c) /\ \E lv1 : LiveIs(r.tab, c, r.live_head, lv1) /\ LiveBut(r.tab, c, lv1, NULL)
    <3>1. CASE o.head = NULL
      <4>1. u[x].head = NULL BY <2>6, <3>1 DEF Placed
      <4>2. LiveBut(u, c, lv, NULL) BY <2>9, <2>11, <4>1 DEF LiveBut
      <4>3. r = m BY <2>12, <3>1
      <4>4. u \in Slots(c) BY <2>5, <2>7 DEF TableOf
      <4>5. SameBlades(u, u, c) BY <4>4, SameKeysItself DEF SameBlades
      <4> QED BY <2>5, <2>6, <2>10, <4>2, <4>3, <4>5
    <3>2. CASE o.head # NULL
      <4>1. r = live_link(m, x) BY <2>12, <3>2
      <4>2. m.tab[x].head # NULL BY <2>5, <2>6, <3>2 DEF Placed
      <4>3. LiveIs(m.tab, c, m.live_head, lv) /\ LiveBut(m.tab, c, lv, x) BY <2>5, <2>6, <2>10, <2>11
      <4> QED BY <2>3, <2>5, <2>7, <2>9, <4>1, <4>2, <4>3, LiveIn
    <3> QED BY <3>1, <3>2
  <2>14. \A y \in At(c) : /\ r.tab[y].used = u[y].used /\ r.tab[y].ttl = u[y].ttl
                          /\ r.tab[y].head = u[y].head /\ r.tab[y].tail = u[y].tail
    BY <2>13 DEF SameBlades, SameKeys
  <2>15. Done(old, k + 1) = Done(old, k) \cup {k} BY <1>1, <1>3, DoneOneMore
  <2>16. ASSUME NEW y \in At(c), ~r.tab[y].used PROVE r.tab[y].head = NULL
    <3>1. ~u[y].used /\ y # x BY <2>6, <2>14, <2>16 DEF Placed
    <3>2. u[y] = s.tab[y] BY <2>5, <2>6, <3>1 DEF Placed
    <3> QED BY <2>14, <3>1, <3>2 DEF Relinked
  <2>17. ASSUME NEW y \in UsedOf(r.tab, c)
         PROVE  \E j \in Done(old, k + 1) :
                  old[j].ttl = r.tab[y].ttl /\ old[j].head = r.tab[y].head /\ old[j].tail = r.tab[y].tail
    <3>1. y \in At(c) /\ u[y].used BY <2>14 DEF UsedOf
    <3>2. CASE y = x BY <2>1, <2>6, <2>14, <2>15, <3>1, <3>2 DEF Placed
    <3>3. CASE y # x
      <4>1. u[y] = s.tab[y] BY <2>5, <2>6, <3>1, <3>3 DEF Placed
      <4>2. y \in UsedOf(s.tab, c) BY <3>1, <4>1 DEF UsedOf
      <4>3. PICK j \in Done(old, k) :
              old[j].ttl = s.tab[y].ttl /\ old[j].head = s.tab[y].head /\ old[j].tail = s.tab[y].tail
        BY <4>2 DEF Relinked
      <4> QED BY <2>14, <2>15, <3>1, <4>1, <4>3
    <3> QED BY <3>2, <3>3
  <2>18. ASSUME NEW j \in Done(old, k + 1) PROVE \E y \in UsedOf(r.tab, c) : r.tab[y].ttl = old[j].ttl
    <3>1. CASE j = k
      <4>1. r.tab[x].used /\ r.tab[x].ttl = old[j].ttl BY <2>1, <2>3, <2>6, <2>14, <3>1 DEF Placed
      <4> QED BY <2>3, <4>1 DEF UsedOf
    <3>2. CASE j # k
      <4>1. j \in Done(old, k) BY <2>15, <3>2
      <4>2. PICK y \in UsedOf(s.tab, c) : s.tab[y].ttl = old[j].ttl BY <4>1 DEF Relinked
      <4>3. y \in At(c) /\ y # x /\ s.tab[y].used BY <2>3, <4>2 DEF UsedOf
      <4>4. u[y] = s.tab[y] BY <2>5, <2>6, <4>3 DEF Placed
      <4>5. r.tab[y].used /\ r.tab[y].ttl = old[j].ttl BY <2>14, <4>2, <4>3, <4>4
      <4> QED BY <4>3, <4>5 DEF UsedOf
    <3> QED BY <3>1, <3>2
  <2> QED BY <2>13, <2>16, <2>17, <2>18 DEF Relinked
<1> QED BY <1>2, <1>3

LEMMA GrowthLinks ==
  ASSUME NEW b \in Bits, b + 1 \in Bits, NEW s, s \in TableOf(b), GoodTable(s.tab, b),
         NEW qs, Heads(s.tab, b, qs), NEW r, r = grow(s, b)
  PROVE  /\ Heads(r.tab, b + 1, qs)
         /\ \E lv : LiveIs(r.tab, b + 1, r.live_head, lv) /\ LiveBut(r.tab, b + 1, lv, NULL)
<1>1. PICK c \in Bits : c = b + 1 OBVIOUS
<1>2. PICK old : old = s.tab OBVIOUS
<1>3. b \in Nat /\ 2 ^ b \in Nat \ {0} /\ 2 ^ c \in Nat \ {0} /\ 2 ^ b <= 2 ^ c
  <2>1. b \in Nat /\ 2 ^ b \in Nat \ {0} BY Capacity
  <2>2. 2 ^ c = 2 * 2 ^ b BY <1>1, <2>1, PowerDoubles
  <2> QED BY <2>1, <2>2
<1> DEFINE State == [i : Nat, s : TableOf(c)]
           P == [k \in Nat |-> {g \in State : g.i = k /\ Grown(old, c, k, g.s) /\ Relinked(old, c, k, g.s)}]
           empty == [tab |-> [i \in 0 .. (2 ^ c - 1) |-> FreeSlot], live_head |-> NULL, count |-> 0]
           first == [i |-> 0, s |-> empty]
           f == Rehashing(old, c)
<1>4. f = [g \in State |-> [i |-> g.i + 1, s |-> Rehash(g.s, c, old[g.i])]]
  BY Zenon DEF Rehashing, TableOf
<1>5. r = Iterate(f, first, 2 ^ b).s
  BY <1>1, <1>2, Zenon DEF grow
<1>6. Grown(old, c, 0, empty) /\ Relinked(old, c, 0, empty)
  <2>1. empty \in TableOf(c) /\ empty.count = 0 /\ empty.tab \in Slots(c) /\ empty.live_head = NULL
    BY DEF TableOf, Slots, Slot, FreeSlot, BladePtr, NodePtr
  <2>2. \A x \in At(c) : ~empty.tab[x].used /\ empty.tab[x].head = NULL BY DEF At, FreeSlot
  <2>3. UsedOf(empty.tab, c) = {} BY <2>2 DEF UsedOf
  <2>4. Done(old, 0) = {} BY DEF Done
  <2> HIDE DEF empty
  <2>5. LiveIs(empty.tab, c, empty.live_head, <<>>) /\ LiveBut(empty.tab, c, <<>>, NULL)
    <3>1. Len(<<>>) = 0 /\ <<>> \in Seq(At(c)) /\ In(<<>>) = {} BY DEF In
    <3>2. Listed(<<>>, At(c), LiveNexts(empty.tab, c), LivePrevs(empty.tab, c)) BY <3>1 DEF Listed, Simple
    <3>3. FirstOf(<<>>) = NULL BY <3>1 DEF FirstOf
    <3> QED BY <2>1, <2>2, <3>1, <3>2, <3>3 DEF LiveIs, LiveBut
  <2> QED BY <2>1, <2>2, <2>3, <2>4, <2>5, FS_EmptySet DEF Grown, GoodTable, Relinked
<1>7. first \in P[0]
  <2>1. empty \in TableOf(c) BY <1>6 DEF Grown
  <2> HIDE DEF empty
  <2>2. first \in State /\ first.i = 0 /\ first.s = empty BY <2>1
  <2> HIDE DEF first, State
  <2> QED BY <1>6, <2>2
<1>8. ASSUME NEW k \in 0 .. (2 ^ b - 1), NEW g \in P[k] PROVE f[g] \in P[k + 1]
  <2>1. k \in Nat /\ k + 1 \in Nat /\ k \in At(b) BY DEF At
  <2>2. g \in State /\ g.i = k /\ Grown(old, c, k, g.s) /\ Relinked(old, c, k, g.s) BY <2>1
  <2>3. PICK q : q = Rehash(g.s, c, old[k]) OBVIOUS
  <2>4. Grown(old, c, k + 1, q) BY <1>2, <1>3, <2>1, <2>2, <2>3, RehashOne
  <2>5. Relinked(old, c, k + 1, q) BY <1>2, <1>3, <2>1, <2>2, <2>3, RelinkOne
  <2>6. q \in TableOf(c) BY <2>4 DEF Grown
  <2>7. PICK h : h = [i |-> k + 1, s |-> q] OBVIOUS
  <2>8. f[g] = h
    <3> HIDE DEF f, State
    <3> QED BY <1>4, <2>2, <2>3, <2>7
  <2>9. h \in State /\ h.i = k + 1 /\ h.s = q BY <2>1, <2>6, <2>7
  <2> HIDE DEF f, State
  <2> QED BY <2>1, <2>4, <2>5, <2>8, <2>9
<1>9. Iterate(f, first, 2 ^ b) \in P[2 ^ b]
  <2> HIDE DEF f, first, P
  <2>1. PICK n \in Nat : n = 2 ^ b BY <1>3
  <2>2. \A k \in 0 .. (n - 1) : \A g \in P[k] : f[g] \in P[k + 1] BY <1>8, <2>1
  <2>3. Iterate(f, first, n) \in P[n] BY <1>7, <2>2, IteratesThrough
  <2> QED BY <2>1, <2>3
<1>10. Relinked(old, c, 2 ^ b, r)
  <2> HIDE DEF f, first, State
  <2> QED BY <1>3, <1>5, <1>9
<1>11. Done(old, 2 ^ b) = UsedOf(old, b) BY DEF Done, UsedOf, At
<1>12. Heads(r.tab, c, qs)
  <2>1. ASSUME NEW x \in At(c), r.tab[x].used
        PROVE  r.tab[x].head = FirstOf(qs[r.tab[x].ttl]) /\ r.tab[x].tail = LastOf(qs[r.tab[x].ttl])
    <3>1. x \in UsedOf(r.tab, c) BY <2>1 DEF UsedOf
    <3>2. PICK j \in UsedOf(old, b) :
            old[j].ttl = r.tab[x].ttl /\ old[j].head = r.tab[x].head /\ old[j].tail = r.tab[x].tail
      BY <1>10, <1>11, <3>1 DEF Relinked
    <3>3. j \in At(b) /\ old[j].used BY DEF UsedOf
    <3> QED BY <1>2, <3>2, <3>3 DEF Heads
  <2>2. ASSUME NEW k \in TTL, qs[k] # <<>> PROVE \E x \in UsedOf(r.tab, c) : r.tab[x].ttl = k
    <3>1. PICK j \in UsedOf(old, b) : old[j].ttl = k BY <1>2, <2>2 DEF Heads
    <3> QED BY <1>10, <1>11, <3>1 DEF Relinked
  <2> QED BY <1>10, <2>1, <2>2 DEF Heads, Relinked
<1> QED BY <1>1, <1>10, <1>12 DEF Relinked

(***************************************************************************)
(* Adding.                                                                  *)
(***************************************************************************)
\* A new blade has no nodes and is not on the live list.
EmptyAt(t, u, b, x) ==
  /\ \A y \in At(b) : y # x => u[y] = t[y]
  /\ u[x].used /\ u[x].head = NULL /\ u[x].tail = NULL
  /\ u[x].live_next = t[x].live_next /\ u[x].live_prev = t[x].live_prev

LEMMA BladeOpens ==
  ASSUME NEW b, NEW s \in TableOf(b), NEW x \in At(b), NEW k \in TTL, NEW r, r = OpenBlade(s, x, k)
  PROVE  EmptyAt(s.tab, r.tab, b, x) /\ r.live_head = s.live_head
<1>1. PICK t : t = s.tab OBVIOUS
<1>2. t \in Slots(b) BY <1>1 DEF TableOf
<1>3. NULL \in NodePtr /\ k \in Nat BY LinksAssumption DEF NodePtr
<1>4. PICK s1, t1 : s1 = [s EXCEPT !.tab[x].used = TRUE] /\ t1 = [t EXCEPT ![x].used = TRUE] OBVIOUS
<1>5. /\ t1 \in Slots(b) /\ t1[x].used
      /\ t1[x].live_next = t[x].live_next /\ t1[x].live_prev = t[x].live_prev
      /\ \A y \in At(b) : y # x => t1[y] = t[y]
  BY <1>2, <1>4 DEF Slots, Slot, At
<1>6. s1 \in TableOf(b) /\ s1.tab = t1 /\ s1.live_head = s.live_head /\ s1.count = s.count
  <2>1. s1 = [s EXCEPT !.tab = t1] BY <1>1, <1>4, Zenon
  <2> QED BY <1>5, <2>1, TabSet
<1>7. PICK s2, t2 : s2 = [s1 EXCEPT !.tab[x].ttl = k] /\ t2 = [t1 EXCEPT ![x].ttl = k] OBVIOUS
<1>8. /\ t2 \in Slots(b) /\ t2[x].used
      /\ t2[x].live_next = t[x].live_next /\ t2[x].live_prev = t[x].live_prev
      /\ \A y \in At(b) : y # x => t2[y] = t[y]
  BY <1>3, <1>5, <1>7 DEF Slots, Slot, At
<1>9. s2 \in TableOf(b) /\ s2.tab = t2 /\ s2.live_head = s.live_head /\ s2.count = s.count
  <2>1. s2 = [s1 EXCEPT !.tab = t2] BY <1>6, <1>7, Zenon
  <2> QED BY <1>6, <1>8, <2>1, TabSet
<1>10. PICK s3, t3 : s3 = [s2 EXCEPT !.tab[x].head = NULL] /\ t3 = [t2 EXCEPT ![x].head = NULL] OBVIOUS
<1>11. /\ t3 \in Slots(b) /\ t3[x].used /\ t3[x].head = NULL
       /\ t3[x].live_next = t[x].live_next /\ t3[x].live_prev = t[x].live_prev
       /\ \A y \in At(b) : y # x => t3[y] = t[y]
  BY <1>3, <1>8, <1>10 DEF Slots, Slot, At
<1>12. s3 \in TableOf(b) /\ s3.tab = t3 /\ s3.live_head = s.live_head /\ s3.count = s.count
  <2>1. s3 = [s2 EXCEPT !.tab = t3] BY <1>9, <1>10, Zenon
  <2> QED BY <1>9, <1>11, <2>1, TabSet
<1>13. PICK s4, t4 : s4 = [s3 EXCEPT !.tab[x].tail = NULL] /\ t4 = [t3 EXCEPT ![x].tail = NULL] OBVIOUS
<1>14. /\ t4 \in Slots(b) /\ t4[x].used /\ t4[x].head = NULL /\ t4[x].tail = NULL
       /\ t4[x].live_next = t[x].live_next /\ t4[x].live_prev = t[x].live_prev
       /\ \A y \in At(b) : y # x => t4[y] = t[y]
  BY <1>3, <1>11, <1>13 DEF Slots, Slot, At
<1>15. s4 \in TableOf(b) /\ s4.tab = t4 /\ s4.live_head = s.live_head /\ s4.count = s.count
  <2>1. s4 = [s3 EXCEPT !.tab = t4] BY <1>12, <1>13, Zenon
  <2> QED BY <1>12, <1>14, <2>1, TabSet
<1>16. PICK c : c = s.count + 1 OBVIOUS
<1>17. r = [s4 EXCEPT !.count = c] BY <1>4, <1>7, <1>10, <1>13, <1>16, Zenon DEF OpenBlade
<1>18. r.tab = t4 /\ r.live_head = s.live_head BY <1>15, <1>17 DEF TableOf
<1> QED BY <1>1, <1>14, <1>18 DEF EmptyAt

\* The node pushed at the tail.
LEMMA TailPushed ==
  ASSUME NEW b, NEW s \in TableOf(b), NEW x \in At(b), NEW n \in Node, NEW r, r = PushTail(s, x, n)
  PROVE  /\ Ends(s.tab, r.tab, b, x, IF s.tab[x].tail = NULL THEN n ELSE s.tab[x].head, n)
         /\ r.live_head = s.live_head
<1>1. PICK t, h : t = s.tab /\ h = IF t[x].tail = NULL THEN n ELSE t[x].head OBVIOUS
<1>2. t \in Slots(b) BY <1>1 DEF TableOf
<1>3. h \in NodePtr /\ n \in NodePtr BY <1>1, <1>2 DEF Slots, Slot, At, NodePtr
<1>4. PICK s1, t1 : s1 = [s EXCEPT !.tab[x].head = h] /\ t1 = [t EXCEPT ![x].head = h] OBVIOUS
<1>5. PICK t2 : t2 = [t1 EXCEPT ![x].tail = n] OBVIOUS
<1>6. Ends(t, t2, b, x, h, n) BY <1>2, <1>3, <1>4, <1>5, SetEnds
<1>7. HeadIs(t, t1, b, x, h) BY <1>2, <1>3, <1>4, SetHead
<1>8. t1 \in Slots(b) /\ t2 \in Slots(b) BY <1>6, <1>7 DEF HeadIs, Ends, SameKeys
<1>9. s1 \in TableOf(b) /\ s1.tab = t1 /\ s1.live_head = s.live_head
  <2>1. s1 = [s EXCEPT !.tab = t1] BY <1>1, <1>4, Zenon
  <2> QED BY <1>8, <2>1, TabSet
<1>10. r = [s1 EXCEPT !.tab[x].tail = n] BY <1>1, <1>4, Zenon DEF PushTail
<1>11. r.tab = t2 /\ r.live_head = s.live_head
  <2>1. PICK q : q = [s1 EXCEPT !.tab = t2] OBVIOUS
  <2>2. q.tab = t2 /\ q.live_head = s1.live_head BY <1>8, <1>9, <2>1, TabSet
  <2>3. r = q BY <1>5, <1>9, <1>10, <2>1, Zenon
  <2> QED BY <1>9, <2>2, <2>3
<1> QED BY <1>1, <1>6, <1>11
\* The table and the nodes thread the sequences, one per TTL.
Mirrors(t, b, h, m, qs) ==
  /\ Threads(m, qs)
  /\ Heads(t, b, qs)
  /\ \E lv : LiveIs(t, b, h, lv) /\ LiveBut(t, b, lv, NULL)

\* Growing, if it must, keeps the sequences.
LEMMA RoomMirrors ==
  ASSUME TableInv, NEW qs, Mirrors(tab, bits, live_head, node, qs),
         NEW b, b = (IF MustGrow THEN bits + 1 ELSE bits),
         NEW s, s = (IF MustGrow THEN grow(Table, bits) ELSE Table)
  PROVE  Mirrors(s.tab, b, s.live_head, node, qs)
<1>1. bits \in Bits /\ bits \in Nat /\ bits \in InitBits .. MaxBits
  BY LinksAssumption DEF TableInv, TypesOK, Bits
<1>2. Table \in TableOf(bits) /\ Table.tab = tab /\ Table.live_head = live_head
  BY DEF TableInv, TypesOK, TableOf, Table
<1>3. CASE ~MustGrow
  <2>1. b = bits /\ s = Table BY <1>3
  <2> QED BY <1>2, <2>1
<1>4. CASE MustGrow
  <2>1. b = bits + 1 /\ s = grow(Table, bits) BY <1>4
  <2>2. b \in InitBits .. MaxBits BY RoomMade
  <2>3. bits + 1 \in Bits BY <2>1, <2>2, LinksAssumption DEF Bits
  <2>4. GoodTable(Table.tab, bits) /\ Heads(Table.tab, bits, qs) BY <1>2 DEF TableInv, Sound, Mirrors
  <2>5. /\ Heads(s.tab, bits + 1, qs)
        /\ \E lv : LiveIs(s.tab, bits + 1, s.live_head, lv) /\ LiveBut(s.tab, bits + 1, lv, NULL)
    BY <1>1, <1>2, <2>1, <2>3, <2>4, GrowthLinks
  <2> QED BY <2>1, <2>5 DEF Mirrors
<1> QED BY <1>3, <1>4

\* Opening a blade, if there is none, keeps them.
LEMMA ReadyMirrors ==
  ASSUME NEW b \in Bits, NEW s \in TableOf(b), Sound(s.tab, b, s.count), (s.count + 1) * 10 < 2 ^ b * 7,
         NEW m, NEW qs, Mirrors(s.tab, b, s.live_head, m, qs),
         NEW k \in TTL, NEW x, x = find_slot(s.tab, b, k),
         NEW r, r = (IF s.tab[x].used THEN s ELSE OpenBlade(s, x, k))
  PROVE  /\ Mirrors(r.tab, b, r.live_head, m, qs)
         /\ s.tab[x].head = FirstOf(qs[k])
         /\ r.tab[x].head = FirstOf(qs[k]) /\ r.tab[x].tail = LastOf(qs[k])
<1>1. s.count \in Nat /\ s.tab \in Slots(b) BY DEF TableOf
<1>2. \E y \in At(b) : ~s.tab[y].used BY <1>1, SoundHasRoom
<1>3. PICK t, u : t = s.tab /\ u = r.tab OBVIOUS
<1>4. GoodTable(t, b) /\ Heads(t, b, qs) /\ Threads(m, qs) BY <1>3 DEF Sound, Mirrors
<1>5. x \in At(b) /\ (t[x].used => t[x].ttl = k) /\ (qs[k] # <<>> => x \in UsedOf(t, b))
  <2>1. x = find_slot(t, b, k) /\ \E y \in At(b) : ~t[y].used BY <1>2, <1>3
  <2> QED BY <1>4, <2>1, BladeOf
<1>6. FirstOf(qs[k]) = NULL <=> qs[k] = <<>> BY <1>4, EndsOfBlades
<1>empty. LastOf(qs[k]) = NULL <=> qs[k] = <<>> BY <1>4, EndsOfBlades
<1>7. CASE t[x].used
  <2>1. r = s BY <1>3, <1>7
  <2>2. t[x].head = FirstOf(qs[k]) /\ t[x].tail = LastOf(qs[k]) BY <1>4, <1>5, <1>7 DEF Heads
  <2> QED BY <1>3, <2>1, <2>2
<1>8. CASE ~t[x].used
  <2>1. r = OpenBlade(s, x, k) BY <1>3, <1>8
  <2>2. EmptyAt(t, u, b, x) /\ r.live_head = s.live_head BY <1>3, <1>5, <2>1, BladeOpens
  <2>3. qs[k] = <<>> BY <1>5, <1>8 DEF UsedOf
  <2>4. t[x].head = NULL BY <1>4, <1>5, <1>8 DEF Heads
  <2>5. FirstOf(qs[k]) = NULL /\ LastOf(qs[k]) = NULL BY <1>6, <1>empty, <2>3
  <2>6. x \in UsedOf(u, b) /\ u[x].ttl = k BY <1>3, BladeReady
  <2>7. Heads(u, b, qs)
    <3>1. ASSUME NEW y \in At(b), u[y].used PROVE u[y].head = FirstOf(qs[u[y].ttl]) /\ u[y].tail = LastOf(qs[u[y].ttl])
      <4>1. CASE y = x BY <2>2, <2>5, <2>6, <4>1 DEF EmptyAt
      <4>2. CASE y # x
        <5>1. u[y] = t[y] BY <2>2, <4>2 DEF EmptyAt
        <5> QED BY <1>4, <3>1, <5>1 DEF Heads
      <4> QED BY <4>1, <4>2
    <3>2. ASSUME NEW y \in At(b), ~u[y].used PROVE u[y].head = NULL
      <4>1. u[y] = t[y] BY <2>2, <3>2 DEF EmptyAt
      <4> QED BY <1>4, <3>2, <4>1 DEF Heads
    <3>3. ASSUME NEW j \in TTL, qs[j] # <<>> PROVE \E y \in UsedOf(u, b) : u[y].ttl = j
      <4>1. PICK y \in UsedOf(t, b) : t[y].ttl = j BY <1>4, <3>3 DEF Heads
      <4>2. y \in At(b) /\ t[y].used /\ y # x BY <1>8 DEF UsedOf
      <4>3. u[y] = t[y] BY <2>2, <4>2 DEF EmptyAt
      <4> QED BY <4>1, <4>2, <4>3 DEF UsedOf
    <3> QED BY <3>1, <3>2, <3>3 DEF Heads
  <2>8. PICK lv : LiveIs(t, b, s.live_head, lv) /\ LiveBut(t, b, lv, NULL) BY <1>3 DEF Mirrors
  <2>9. LiveIs(u, b, r.live_head, lv)
    <3>1. \A y \in At(b) : u[y].live_next = t[y].live_next /\ u[y].live_prev = t[y].live_prev
      BY <2>2 DEF EmptyAt
    <3> QED BY <2>2, <2>8, <3>1, LiveSame
  <2>10. LiveBut(u, b, lv, NULL) BY <1>5, <2>2, <2>4, <2>8 DEF LiveBut, EmptyAt
  <2>11. u[x].head = NULL /\ u[x].tail = NULL BY <2>2 DEF EmptyAt
  <2> QED BY <1>3, <1>4, <2>4, <2>5, <2>7, <2>9, <2>10, <2>11 DEF Mirrors
<1> QED BY <1>7, <1>8

\* What lawn2_add writes into the nodes.
LEMMA NodeAdded ==
  ASSUME KnownTTLs(node), NEW n \in Node, NEW k \in TTL, NEW exp \in Nat, NEW tail \in NodePtr, tail # n,
         NEW m, m = Appended(n, k, exp, tail)
  PROVE  /\ AppendedIs(node, m, n, k, tail)
         /\ m[n].expiration = exp /\ \A y \in Node : y # n => m[y].expiration = node[y].expiration
<1>1. node \in [Node -> lawn2_timer] /\ NULL \in NodePtr /\ n \in NodePtr /\ k \in Nat /\ NULL \notin Node
  BY LinksAssumption DEF KnownTTLs, NodePtr
<1>2. PICK v : v = [ttl |-> k, expiration |-> exp, next |-> NULL, prev |-> tail, in_store |-> TRUE] OBVIOUS
<1>3. v \in lawn2_timer BY <1>1, <1>2 DEF lawn2_timer
<1>4. PICK m1 : m1 = [node EXCEPT ![n] = v] OBVIOUS
<1>5. m1 \in [Node -> lawn2_timer] /\ m1[n] = v /\ \A y \in Node : y # n => m1[y] = node[y]
  BY <1>1, <1>3, <1>4
<1>6. m = IF tail = NULL THEN m1 ELSE [m1 EXCEPT ![tail].next = n] BY <1>2, <1>4, Zenon DEF Appended
<1>7. NextIs(m1, m, tail, n)
  <2>1. CASE tail = NULL BY <1>1, <1>5, <1>6, <2>1 DEF NextIs, SameTimers
  <2>2. CASE tail # NULL
    <3>1. tail \in Node /\ m = [m1 EXCEPT ![tail].next = n] BY <1>6, <2>2 DEF NodePtr
    <3> QED BY <1>1, <1>5, <3>1, SetNext
  <2> QED BY <2>1, <2>2
<1>8. ASSUME NEW y \in Node
      PROVE  /\ m[y].ttl = m1[y].ttl /\ m[y].expiration = m1[y].expiration /\ m[y].in_store = m1[y].in_store
             /\ m[y].prev = m1[y].prev /\ m[y].next = (IF y = tail THEN n ELSE m1[y].next)
  BY <1>7 DEF NextIs, SameTimers
<1>9. /\ m[n].ttl = k /\ m[n].in_store /\ m[n].expiration = exp /\ m[n].prev = tail /\ m[n].next = NULL
  BY <1>2, <1>5, <1>8
<1>10. Appends(Nexts(node), Prevs(node), Nexts(m), Prevs(m), Node, n, tail)
  <2>1. Nexts(m)[n] = NULL /\ Prevs(m)[n] = tail BY <1>9 DEF Nexts, Prevs
  <2>2. tail # NULL => Nexts(m)[tail] = n BY <1>8 DEF Nexts, NodePtr
  <2>3. \A y \in Node : y # n => Prevs(m)[y] = Prevs(node)[y] BY <1>5, <1>8 DEF Prevs
  <2>4. \A y \in Node : y # n /\ y # tail => Nexts(m)[y] = Nexts(node)[y] BY <1>5, <1>8 DEF Nexts
  <2> QED BY <2>1, <2>2, <2>3, <2>4 DEF Appends
<1> QED BY <1>5, <1>8, <1>9, <1>10 DEF AppendedIs
\* The node pushed, and the blade on the live list if it was empty.
LEMMA PushMirrors ==
  ASSUME NEW b \in Bits, NEW s \in TableOf(b), GoodTable(s.tab, b),
         NEW m, KnownTTLs(m), NEW qs, Mirrors(s.tab, b, s.live_head, m, qs),
         NEW k \in TTL, NEW x \in UsedOf(s.tab, b), s.tab[x].ttl = k,
         NEW n \in Node, ~m[n].in_store, NEW m1, AppendedIs(m, m1, n, k, s.tab[x].tail),
         NEW s2, s2 = PushTail(s, x, n),
         NEW r, r = (IF s.tab[x].head = NULL THEN live_link(s2, x) ELSE s2),
         NEW qs1, qs1 = With(qs, k, Behind(qs[k], n))
  PROVE  Mirrors(r.tab, b, r.live_head, m1, qs1)
<1>1. PICK t, t2, u, q : t = s.tab /\ t2 = s2.tab /\ u = r.tab /\ q = qs1[k] OBVIOUS
<1>2. Threads(m, qs) /\ Heads(t, b, qs) /\ GoodTable(t, b) /\ x \in UsedOf(t, b) /\ t[x].ttl = k
  BY <1>1 DEF Mirrors
<1>3. x \in At(b) /\ t[x].head = FirstOf(qs[k]) /\ t[x].tail = LastOf(qs[k]) BY <1>2 DEF UsedOf, Heads
<1>4. AppendedIs(m, m1, n, k, LastOf(qs[k])) BY <1>1, <1>3
<1>5. /\ Threads(m1, qs1) /\ FirstOf(q) = (IF LastOf(qs[k]) = NULL THEN n ELSE FirstOf(qs[k])) /\ LastOf(q) = n
  BY <1>1, <1>2, <1>4, ThreadsAppend, SMTT(30)
<1>6. s2 \in TableOf(b) /\ SameKeys(t, t2, b) BY <1>1, <1>3, NodeAppended
<1>7. Ends(t, t2, b, x, FirstOf(q), LastOf(q)) /\ s2.live_head = s.live_head
  <2>1. /\ Ends(t, t2, b, x, IF t[x].tail = NULL THEN n ELSE t[x].head, n)
        /\ s2.live_head = s.live_head
    BY <1>1, <1>3, TailPushed
  <2> QED BY <1>3, <1>5, <2>1
<1>8. qs \in [TTL -> Seq(Node)] BY <1>2 DEF Threads
<1>9. qs1 = With(qs, k, q)
  <2>1. qs1[k] = Behind(qs[k], n) BY <1>2, <1>8 DEF With, GoodTable
  <2> QED BY <1>1, <2>1
<1>10. Heads(t2, b, qs1)
  <2>1. /\ GoodTable(t, b) /\ qs \in [TTL -> Seq(Node)] /\ Heads(t, b, qs) /\ x \in UsedOf(t, b) /\ k = t[x].ttl
        /\ Ends(t, t2, b, x, FirstOf(q), LastOf(q)) /\ qs1 = With(qs, k, q)
    BY <1>2, <1>7, <1>8, <1>9
  <2> QED BY <2>1, HeadsSet
<1>11. GoodTable(t2, b) BY <1>2, <1>6, SameKeysGood
<1>12. PICK lv : LiveIs(t, b, s.live_head, lv) /\ LiveBut(t, b, lv, NULL) BY <1>1 DEF Mirrors
<1>13. LiveIs(t2, b, s2.live_head, lv)
  <2>1. \A y \in At(b) : t2[y].live_next = t[y].live_next /\ t2[y].live_prev = t[y].live_prev
    BY <1>7 DEF Ends
  <2> QED BY <1>7, <1>12, <2>1, LiveSame
<1>14. x # NULL /\ NULL \notin Node BY <1>3, NullIsNoBlade, LinksAssumption
<1>15. \A y \in At(b) : y # x => (y \in In(lv) <=> t2[y].head # NULL) BY <1>7, <1>12, NullIsNoBlade DEF LiveBut, Ends
<1>16. t2[x].head = FirstOf(q) /\ FirstOf(q) # NULL
  <2>1. t2[x].head = FirstOf(q) BY <1>3, <1>7 DEF Ends
  <2>2. (FirstOf(qs[k]) = NULL <=> qs[k] = <<>>) BY <1>2, EndsOfBlades
  <2>3. (LastOf(qs[k]) = NULL <=> qs[k] = <<>>) BY <1>2, EndsOfBlades
  <2> QED BY <1>5, <1>14, <2>1, <2>2, <2>3
<1>17. CASE t[x].head = NULL
  <2>1. r = live_link(s2, x) BY <1>1, <1>17
  <2>2. x \notin In(lv) BY <1>3, <1>12, <1>14, <1>17 DEF LiveBut
  <2>3. LiveBut(t2, b, lv, x) BY <1>15 DEF LiveBut
  <2>4. LiveIs(s2.tab, b, s2.live_head, lv) /\ LiveBut(s2.tab, b, lv, x) /\ s2.tab[x].head # NULL
    BY <1>1, <1>13, <1>16, <2>3
  <2>5. /\ r \in TableOf(b) /\ SameBlades(s2.tab, r.tab, b)
        /\ \E lv1 : LiveIs(r.tab, b, r.live_head, lv1) /\ LiveBut(r.tab, b, lv1, NULL)
    BY <1>3, <1>6, <2>1, <2>2, <2>4, LiveIn
  <2>6. Heads(r.tab, b, qs1)
    <3>1. SameBlades(t2, u, b) BY <1>1, <2>5
    <3>2. Heads(u, b, qs1) BY <1>10, <1>11, <3>1, HeadsSame
    <3> QED BY <1>1, <3>2
  <2> QED BY <1>5, <2>5, <2>6 DEF Mirrors
<1>18. CASE t[x].head # NULL
  <2>1. r = s2 BY <1>1, <1>18
  <2>2. x \in In(lv) BY <1>3, <1>12, <1>14, <1>18 DEF LiveBut
  <2>3. LiveBut(t2, b, lv, NULL) BY <1>15, <1>16, <2>2 DEF LiveBut
  <2> QED BY <1>1, <1>5, <1>10, <1>13, <2>1, <2>3 DEF Mirrors
<1> QED BY <1>17, <1>18

\* The nodes keep their times, but for node n.
SameTimesBut(m, m1, n) ==
  \A y \in Node : y # n => m1[y].ttl = m[y].ttl /\ m1[y].expiration = m[y].expiration /\ m1[y].in_store = m[y].in_store

\* lawn2_add puts the node at the end of its blade.
LEMMA AddMirrors ==
  ASSUME TableInv, NEW qs, Mirrors(tab, bits, live_head, node, qs),
         NEW n \in Node, NEW k \in TTL, ~node[n].in_store, lawn2_add(n, k)
  PROVE  /\ Mirrors(tab', bits', live_head', node', With(qs, k, Behind(qs[k], n)))
         /\ SameTimesBut(node, node', n)
         /\ node'[n].ttl = k /\ node'[n].in_store /\ node'[n].expiration = Add64(now, k)
<1>1. PICK nb : nb = IF MustGrow THEN bits + 1 ELSE bits OBVIOUS
<1>2. PICK s0 : s0 = IF MustGrow THEN grow(Table, bits) ELSE Table OBVIOUS
<1>3. /\ nb \in InitBits .. MaxBits /\ s0 \in TableOf(nb)
      /\ Sound(s0.tab, nb, s0.count) /\ (s0.count + 1) * 10 < 2 ^ nb * 7
  BY <1>1, <1>2, RoomMade
<1>4. nb \in Bits BY <1>3, LinksAssumption DEF Bits
<1>5. Mirrors(s0.tab, nb, s0.live_head, node, qs) BY <1>1, <1>2, RoomMirrors
<1>6. PICK x : x = find_slot(s0.tab, nb, k) OBVIOUS
<1>7. PICK s1 : s1 = IF s0.tab[x].used THEN s0 ELSE OpenBlade(s0, x, k) OBVIOUS
<1>8. /\ x \in At(nb) /\ s1 \in TableOf(nb) /\ Sound(s1.tab, nb, s1.count)
      /\ x \in UsedOf(s1.tab, nb) /\ s1.tab[x].ttl = k
  BY <1>3, <1>4, <1>6, <1>7, BladeReady
<1>9. /\ Mirrors(s1.tab, nb, s1.live_head, node, qs)
      /\ s0.tab[x].head = FirstOf(qs[k])
      /\ s1.tab[x].head = FirstOf(qs[k]) /\ s1.tab[x].tail = LastOf(qs[k])
  BY <1>3, <1>4, <1>5, <1>6, <1>7, ReadyMirrors
<1>10. PICK tail : tail = s1.tab[x].tail OBVIOUS
<1>11. tail \in NodePtr /\ tail # n
  <2>1. Threads(node, qs) BY <1>9 DEF Mirrors
  <2>2. LastOf(qs[k]) \in NodePtr /\ (LastOf(qs[k]) # NULL => LastOf(qs[k]) \in In(qs[k])) BY <2>1, EndsOfBlades
  <2>3. n \notin In(qs[k]) /\ n # NULL BY <2>1, LinksAssumption DEF Threads
  <2> QED BY <1>9, <1>10, <2>2, <2>3
<1>12. PICK s2 : s2 = PushTail(s1, x, n) OBVIOUS
<1>13. PICK s3 : s3 = IF s0.tab[x].head = NULL THEN live_link(s2, x) ELSE s2 OBVIOUS
<1>14. PICK exp : exp = Add64(now, k) OBVIOUS
<1>15. exp \in Nat
  <2>1. now \in Nat /\ k \in Nat /\ UINT64_MAX \in Nat BY LinksAssumption DEF TableInv, TypesOK
  <2> QED BY <1>14, <2>1 DEF Add64
<1>16. /\ bits' = nb /\ tab' = s3.tab /\ live_head' = s3.live_head /\ node' = Appended(n, k, exp, tail)
  <2>1. bits' = nb BY <1>1, Zenon DEF lawn2_add
  <2>2. tab' = s3.tab BY <1>1, <1>2, <1>6, <1>7, <1>12, <1>13, Zenon DEF lawn2_add
  <2>3. live_head' = s3.live_head BY <1>1, <1>2, <1>6, <1>7, <1>12, <1>13, Zenon DEF lawn2_add
  <2>4. node' = Appended(n, k, exp, tail) BY <1>1, <1>2, <1>6, <1>7, <1>10, <1>14, Zenon DEF lawn2_add
  <2> QED BY <2>1, <2>2, <2>3, <2>4
<1>17. KnownTTLs(node) BY DEF TableInv, TypesOK
<1>18. PICK m1 : m1 = node' OBVIOUS
<1>19. /\ AppendedIs(node, m1, n, k, tail)
       /\ m1[n].expiration = exp /\ \A y \in Node : y # n => m1[y].expiration = node[y].expiration
  BY <1>11, <1>15, <1>16, <1>17, <1>18, NodeAdded
<1>20. Mirrors(s3.tab, nb, s3.live_head, m1, With(qs, k, Behind(qs[k], n)))
  <2>1. /\ s1 \in TableOf(nb) /\ GoodTable(s1.tab, nb) /\ KnownTTLs(node)
        /\ Mirrors(s1.tab, nb, s1.live_head, node, qs)
        /\ x \in UsedOf(s1.tab, nb) /\ s1.tab[x].ttl = k /\ AppendedIs(node, m1, n, k, s1.tab[x].tail)
        /\ s3 = (IF s1.tab[x].head = NULL THEN live_link(s2, x) ELSE s2)
    BY <1>8, <1>9, <1>10, <1>13, <1>17, <1>19 DEF Sound
  <2>2. nb \in Bits /\ n \in Node /\ k \in TTL /\ ~node[n].in_store BY <1>4
  <2> QED BY <1>12, <2>1, <2>2, PushMirrors
<1> QED BY <1>14, <1>16, <1>18, <1>19, <1>20 DEF AppendedIs, SameTimesBut
(***************************************************************************)
(* Deleting.                                                                *)
(***************************************************************************)
\* The neighbours of a node in its blade.
LEMMA NodeNeighbours ==
  ASSUME NEW m, NEW qs, Threads(m, qs), NEW k \in TTL, NEW a \in 1 .. Len(qs[k]), NEW n, n = qs[k][a]
  PROVE  /\ n \in Node /\ n \in In(qs[k])
         /\ m[n].next = After(qs[k], a) /\ m[n].prev = Before(qs[k], a)
         /\ m[n].next # n /\ m[n].prev # n
<1>1. PICK s : s = qs[k] OBVIOUS
<1>2. s \in Seq(Node) /\ Listed(s, Node, Nexts(m), Prevs(m)) /\ NULL \notin Node
  BY <1>1, LinksAssumption DEF Threads
<1>3. PICK c \in Nat : c = Len(s) BY <1>2, LenProperties
<1>4. \A i \in 1 .. c : s[i] \in Node BY <1>2, <1>3, ElementOfSeq
<1>5. a \in 1 .. c /\ n = s[a] /\ n \in Node /\ n \in In(s) BY <1>1, <1>3, <1>4 DEF In
<1>6. m[n].next = After(s, a) /\ m[n].prev = Before(s, a) BY <1>2, <1>3, <1>5 DEF Listed, Nexts, Prevs
<1>7. \A i, j \in 1 .. c : s[i] = s[j] => i = j BY <1>2, <1>3 DEF Listed, Simple
<1>8. (a # c => a + 1 \in 1 .. c /\ a + 1 # a) /\ (a # 1 => a - 1 \in 1 .. c /\ a - 1 # a) BY <1>3, <1>5
<1>9. After(s, a) # n /\ Before(s, a) # n
  <2>1. After(s, a) = (IF a = c THEN NULL ELSE s[a + 1]) /\ Before(s, a) = (IF a = 1 THEN NULL ELSE s[a - 1])
    BY <1>3 DEF After, Before
  <2>2. a # c => s[a + 1] # s[a] BY <1>5, <1>7, <1>8
  <2>3. a # 1 => s[a - 1] # s[a] BY <1>5, <1>7, <1>8
  <2> QED BY <1>2, <1>5, <2>1, <2>2, <2>3
<1> QED BY <1>1, <1>5, <1>6, <1>9

\* A blade that has become empty leaves the live list.
LEMMA UnlinkMirrors ==
  ASSUME NEW b \in Bits, NEW t, GoodTable(t, b), NEW m, NEW qs, Threads(m, qs), Heads(t, b, qs),
         NEW h, NEW lv, LiveIs(t, b, h, lv), NEW x \in In(lv), LiveBut(t, b, lv, x), t[x].head = NULL,
         NEW u, u = UnlinkedTab(t, x), NEW g, g = (IF t[x].live_prev = NULL THEN t[x].live_next ELSE h)
  PROVE  /\ Mirrors(u, b, g, m, qs) /\ SameBlades(t, u, b)
         /\ \A y \in At(b) : y # x /\ y # t[x].live_prev => u[y].live_next = t[y].live_next
<1>1. t \in Slots(b) BY DEF GoodTable
<1>2. PICK a \in 1 .. Len(lv) : x = lv[a] BY DEF In
<1>3. x \in At(b) /\ t[x].live_next # x /\ t[x].live_prev # x BY <1>2, LiveNeighbours
<1>4. /\ SameBlades(t, u, b)
      /\ \A y \in At(b) : y # x /\ y # t[x].live_prev => u[y].live_next = t[y].live_next
  BY <1>1, <1>3, BladeTaken
<1>5. Heads(u, b, qs) BY <1>4, HeadsSame
<1>6. \E lv1 : LiveIs(u, b, g, lv1) /\ LiveBut(u, b, lv1, NULL) BY <1>1, LiveOut
<1> QED BY <1>4, <1>5, <1>6 DEF Mirrors

\* A blade that gets another sequence of nodes, with the live list as it was.
LiveWith(u, b, h, x) == \E lv : LiveIs(u, b, h, lv) /\ x \in In(lv) /\ LiveBut(u, b, lv, x)

LEMMA EndsMirror ==
  ASSUME NEW b \in Bits, NEW t, GoodTable(t, b), NEW h, NEW m, NEW qs, Mirrors(t, b, h, m, qs),
         NEW x \in UsedOf(t, b), NEW k \in TTL, t[x].ttl = k, qs[k] # <<>>,
         NEW q, NEW m1, NEW qs1, GoesTo(qs, qs1, k, q), Threads(m1, qs1),
         NEW u, Ends(t, u, b, x, FirstOf(q), LastOf(q))
  PROVE  /\ GoodTable(u, b) /\ Heads(u, b, qs1) /\ x \in At(b) /\ u[x].head = FirstOf(q)
         /\ LiveWith(u, b, h, x)
<1>1. Heads(t, b, qs) /\ Threads(m, qs) BY DEF Mirrors
<1>2. qs \in [TTL -> Seq(Node)] BY <1>1 DEF Threads
<1>3. x \in At(b) /\ t[x].used /\ k \in TTL BY DEF UsedOf, GoodTable
<1>4. Heads(u, b, qs1)
  <2>1. /\ qs \in [TTL -> Seq(Node)] /\ Heads(t, b, qs) /\ k = t[x].ttl /\ qs1 = With(qs, k, q)
    BY <1>1, <1>2 DEF GoesTo
  <2> QED BY <2>1, HeadsSet
<1>5. GoodTable(u, b) BY SameKeysGood DEF Ends
<1>6. PICK lv : LiveIs(t, b, h, lv) /\ LiveBut(t, b, lv, NULL) BY DEF Mirrors
<1>7. LiveIs(u, b, h, lv)
  <2>1. \A y \in At(b) : u[y].live_next = t[y].live_next /\ u[y].live_prev = t[y].live_prev BY DEF Ends
  <2> QED BY <1>6, <2>1, LiveSame
<1>8. x \in In(lv)
  <2>1. t[x].head = FirstOf(qs[k]) BY <1>1, <1>3 DEF Heads
  <2>2. FirstOf(qs[k]) = NULL <=> qs[k] = <<>> BY <1>1, <1>3, EndsOfBlades
  <2> QED BY <1>3, <1>6, <2>1, <2>2, NullIsNoBlade DEF LiveBut
<1>9. LiveBut(u, b, lv, x) BY <1>6, NullIsNoBlade DEF LiveBut, Ends
<1>10. u[x].head = FirstOf(q) BY <1>3 DEF Ends
<1> QED BY <1>3, <1>4, <1>5, <1>7, <1>8, <1>9, <1>10 DEF LiveWith
\* What leaving the store makes of the nodes.
Neighbours(m, n, p, z) == p = m[n].prev /\ z = m[n].next /\ p # n /\ z # n
GoneIs(m, m1, n, p, v) ==
  /\ TakenIs(m, m1, n) /\ SameTimers(m, m1) /\ m1[n].next = v
  /\ \A y \in Node : y # n /\ y # p => m1[y].next = m[y].next

LEMMA NodeGone ==
  ASSUME NEW m, KnownTTLs(m), NEW n \in Node, NEW p, NEW z, Neighbours(m, n, p, z), NEW v \in NodePtr,
         NEW m1, m1 = NextTo(m, p, z), NEW m2, m2 = PrevTo(m1, z, p),
         NEW m3, m3 = Left(m2, n, v)
  PROVE  GoneIs(m, m3, n, p, v)
<1>1. m \in [Node -> lawn2_timer] BY DEF KnownTTLs
<1>2. /\ SameTimers(m, m3)
      /\ \A y \in Node : m3[y].in_store = (y # n /\ m[y].in_store)
      /\ m3[n].next = v
      /\ \A y \in Node : y # n /\ y # p => m3[y].next = m[y].next
      /\ Takes(Nexts(m), Prevs(m), Nexts(m3), Prevs(m3), Node, n)
  <2>1. /\ m \in [Node -> lawn2_timer] /\ n \in Node /\ p = m[n].prev /\ z = m[n].next /\ p # n /\ z # n
        /\ v \in NodePtr /\ m1 = NextTo(m, p, z) /\ m2 = PrevTo(m1, z, p) /\ m3 = Left(m2, n, v)
    BY <1>1 DEF Neighbours
  <2> QED BY <2>1, NodeTaken
<1> QED BY <1>2 DEF GoneIs, TakenIs, SameTimers

\* lawn2_del takes the node out of its blade, at whatever place it is.
LEMMA DelMirrors ==
  ASSUME TableInv, NEW qs, Mirrors(tab, bits, live_head, node, qs),
         NEW k \in TTL, NEW a \in 1 .. Len(qs[k]), NEW n, n = qs[k][a], lawn2_del(n)
  PROVE  /\ Mirrors(tab', bits', live_head', node', With(qs, k, TakenOut(qs[k], a)))
         /\ SameTimers(node, node')
         /\ \A y \in Node : node'[y].in_store = (y # n /\ node[y].in_store)
<1>1. /\ bits \in InitBits .. MaxBits /\ bits \in Bits
      /\ tab \in Slots(bits) /\ live_head \in BladePtr(bits) /\ count \in Nat
      /\ KnownTTLs(node) /\ Sound(tab, bits, count) /\ GoodTable(tab, bits)
  BY LinksAssumption DEF TableInv, TypesOK, Bits, Sound
<1>2. Threads(node, qs) /\ Heads(tab, bits, qs) BY DEF Mirrors
<1>3. n \in Node /\ n \in In(qs[k]) BY <1>2, NodeNeighbours
<1>stored. node[n].in_store /\ node[n].ttl = k BY <1>2, <1>3 DEF Threads
<1>4. PICK p, z : p = node[n].prev /\ z = node[n].next OBVIOUS
<1>5. p # n /\ z # n BY <1>2, <1>3, <1>4, NodeNeighbours
<1>6. p \in NodePtr /\ z \in NodePtr /\ NULL \in NodePtr BY <1>1, <1>3, <1>4 DEF KnownTTLs, lawn2_timer, NodePtr
<1>7. qs[k] # <<>>
  <2>1. qs[k] \in Seq(Node) BY <1>2, <1>3, EndsOfBlades
  <2>2. Len(qs[k]) # 0 BY <2>1
  <2> QED BY <2>1, <2>2, EmptySeq
<1>8. PICK x : x = find_slot(tab, bits, k) OBVIOUS
<1>9. x \in At(bits) /\ x \in UsedOf(tab, bits) /\ tab[x].ttl = k
  <2>1. \E y \in At(bits) : ~tab[y].used BY <1>1, SoundHasRoom
  <2>2. x \in At(bits) /\ (tab[x].used => tab[x].ttl = k) /\ (qs[k] # <<>> => x \in UsedOf(tab, bits))
    <3>1. PICK t, b : t = tab /\ b = bits OBVIOUS
    <3>2. /\ b \in Bits /\ GoodTable(t, b) /\ (\E y \in At(b) : ~t[y].used)
          /\ Heads(t, b, qs) /\ k \in TTL /\ x = find_slot(t, b, k)
      BY <1>1, <1>2, <1>3, <1>8, <2>1, <3>1
    <3>3. x \in At(b) /\ (t[x].used => t[x].ttl = k) /\ (qs[k] # <<>> => x \in UsedOf(t, b))
      BY <3>2, BladeOf
    <3> QED BY <3>1, <3>3
  <2> QED BY <1>7, <2>2 DEF UsedOf
<1>10. tab[x].head = FirstOf(qs[k]) /\ tab[x].tail = LastOf(qs[k]) BY <1>2, <1>9 DEF Heads, UsedOf
\* the nodes
<1>11. PICK m1 : m1 = NextTo(node, p, z) OBVIOUS
<1>12. PICK m2 : m2 = PrevTo(m1, z, p) OBVIOUS
<1>13. PICK m3 : m3 = Left(m2, n, NULL) OBVIOUS
<1>14. TakenIs(node, m3, n) /\ SameTimers(node, m3)
  <2>1. /\ KnownTTLs(node) /\ n \in Node /\ Neighbours(node, n, p, z) /\ NULL \in NodePtr
        /\ m1 = NextTo(node, p, z) /\ m2 = PrevTo(m1, z, p) /\ m3 = Left(m2, n, NULL)
    BY <1>1, <1>3, <1>4, <1>5, <1>6, <1>11, <1>12, <1>13 DEF Neighbours
  <2>2. GoneIs(node, m3, n, p, NULL) BY <2>1, NodeGone
  <2> QED BY <2>2 DEF GoneIs
<1>15. node' = m3
  <2>1. node' = Unlinked(n) BY <1>stored, Zenon DEF lawn2_del
  <2> QED BY <1>4, <1>11, <1>12, <1>13, <2>1, ZenonT(60) DEF Unlinked, Left, NextTo, PrevTo
\* the blade
<1>16. PICK q, qs1 : q = TakenOut(qs[k], a) /\ qs1 = With(qs, k, q) OBVIOUS
<1>17. /\ Threads(m3, qs1)
       /\ FirstOf(q) = (IF p = NULL THEN z ELSE FirstOf(qs[k])) /\ LastOf(q) = (IF z = NULL THEN p ELSE LastOf(qs[k]))
  <2>1. qs1[k] = q BY <1>2, <1>3, <1>16 DEF With, Threads
  <2>2. qs1 = With(qs, k, TakenOut(qs[k], a)) BY <1>16
  <2>3. /\ Threads(m3, qs1)
        /\ EndsWithout(node, qs, qs1[k], k, n)
    <3>1. PICK m : m = node OBVIOUS
    <3>2. /\ KnownTTLs(m) /\ Threads(m, qs) /\ k \in TTL /\ NodeAt(qs[k], a, n)
          /\ TakenIs(m, m3, n) /\ GoesTo(qs, qs1, k, TakenOut(qs[k], a))
      BY <1>1, <1>2, <1>14, <2>2, <3>1 DEF NodeAt, GoesTo
    <3>3. Threads(m3, qs1) /\ EndsWithout(m, qs, qs1[k], k, n) BY <3>2, ThreadsTake
    <3> QED BY <3>1, <3>3
  <2> QED BY <1>4, <2>1, <2>3 DEF EndsWithout
<1>18. PICK h, e : /\ h = IF p = NULL THEN z ELSE tab[x].head
                   /\ e = IF z = NULL THEN p ELSE tab[x].tail
  OBVIOUS
<1>19. h \in NodePtr /\ e \in NodePtr /\ h = FirstOf(q) /\ e = LastOf(q)
  BY <1>1, <1>6, <1>9, <1>10, <1>17, <1>18 DEF Slots, Slot, At
<1>20. PICK t1, t2 : t1 = [tab EXCEPT ![x].head = h] /\ t2 = [t1 EXCEPT ![x].tail = e] OBVIOUS
<1>21. Ends(tab, t2, bits, x, FirstOf(q), LastOf(q)) /\ t1 \in Slots(bits) /\ t2 \in Slots(bits)
  <2>1. Ends(tab, t2, bits, x, h, e) BY <1>1, <1>9, <1>19, <1>20, SetEnds
  <2>2. HeadIs(tab, t1, bits, x, h) BY <1>1, <1>9, <1>19, <1>20, SetHead
  <2> QED BY <1>19, <2>1, <2>2 DEF Ends, HeadIs, SameKeys
<1>22. /\ GoodTable(t2, bits) /\ Heads(t2, bits, qs1) /\ t2[x].head = h
       /\ \E lv : LiveIs(t2, bits, live_head, lv) /\ x \in In(lv) /\ LiveBut(t2, bits, lv, x)
  <2>1. PICK t, b, g, m : t = tab /\ b = bits /\ g = live_head /\ m = node OBVIOUS
  <2>2. /\ b \in Bits /\ GoodTable(t, b) /\ Mirrors(t, b, g, m, qs)
        /\ x \in UsedOf(t, b) /\ k \in TTL /\ t[x].ttl = k /\ qs[k] # <<>> /\ GoesTo(qs, qs1, k, q)
        /\ Threads(m3, qs1) /\ Ends(t, t2, b, x, FirstOf(q), LastOf(q))
    BY <1>1, <1>7, <1>9, <1>16, <1>17, <1>21, <2>1 DEF GoesTo
  <2>3. /\ GoodTable(t2, b) /\ Heads(t2, b, qs1) /\ t2[x].head = FirstOf(q)
        /\ LiveWith(t2, b, g, x)
    BY <2>2, EndsMirror
  <2> QED BY <1>19, <2>1, <2>3 DEF LiveWith
<1>23. PICK lv : LiveIs(t2, bits, live_head, lv) /\ x \in In(lv) /\ LiveBut(t2, bits, lv, x) BY <1>22
\* the table
<1>24. Table \in TableOf(bits) /\ Table.tab = tab /\ Table.live_head = live_head BY <1>1 DEF TableOf, Table
<1>25. PICK s1, s : s1 = [Table EXCEPT !.tab[x].head = h] /\ s = [s1 EXCEPT !.tab[x].tail = e] OBVIOUS
<1>26. s1 \in TableOf(bits) /\ s1.tab = t1 /\ s1.live_head = live_head
  <2>1. s1 = [Table EXCEPT !.tab = t1] BY <1>20, <1>24, <1>25, Zenon
  <2> QED BY <1>21, <1>24, <2>1, TabSet
<1>27. s \in TableOf(bits) /\ s.tab = t2 /\ s.live_head = live_head
  <2>1. s = [s1 EXCEPT !.tab = t2] BY <1>20, <1>25, <1>26, Zenon
  <2> QED BY <1>21, <1>26, <2>1, TabSet
<1>28. PICK r : r = IF s.tab[x].head = NULL THEN live_unlink(s, x) ELSE s OBVIOUS
<1>29. tab' = r.tab /\ live_head' = r.live_head /\ bits' = bits
  <2>1. tab' = r.tab /\ live_head' = r.live_head
    BY <1>stored, <1>4, <1>8, <1>18, <1>24, <1>25, <1>28, ZenonT(60) DEF lawn2_del
  <2>2. bits' = bits BY <1>stored, Zenon DEF lawn2_del
  <2> QED BY <2>1, <2>2
<1>30. Mirrors(r.tab, bits, r.live_head, m3, qs1)
  <2>1. CASE h # NULL
    <3>1. r = s BY <1>22, <1>27, <1>28, <2>1
    <3>2. LiveBut(t2, bits, lv, NULL) BY <1>22, <1>23, <2>1 DEF LiveBut
    <3> QED BY <1>17, <1>22, <1>23, <1>27, <3>1, <3>2 DEF Mirrors
  <2>2. CASE h = NULL
    <3>1. r = live_unlink(s, x) BY <1>22, <1>27, <1>28, <2>2
    <3>2. PICK u, g : u = UnlinkedTab(t2, x) /\ g = IF t2[x].live_prev = NULL THEN t2[x].live_next ELSE live_head
      OBVIOUS
    <3>3. r = [s EXCEPT !.tab = u, !.live_head = g]
      <4>1. s.tab \in Slots(bits) /\ s.live_head \in BladePtr(bits) BY <1>27 DEF TableOf
      <4>2. live_unlink(s, x) = [s EXCEPT !.tab = UnlinkedTab(s.tab, x), !.live_head = UnlinkedHead(s, x)]
        BY Zenon DEF live_unlink, UnlinkedTab, UnlinkedHead
      <4>3. UnlinkedHead(s, x) = g BY <1>27, <3>2 DEF UnlinkedHead
      <4> QED BY <1>27, <3>1, <3>2, <4>2, <4>3, Zenon
    <3>4. r.tab = u /\ r.live_head = g BY <1>27, <3>3 DEF TableOf
    <3>5. t2[x].head = NULL BY <1>22, <2>2
    <3>6. Mirrors(u, bits, g, m3, qs1)
      <4>1. bits \in Bits /\ GoodTable(t2, bits) /\ Threads(m3, qs1) /\ Heads(t2, bits, qs1) BY <1>1, <1>17, <1>22
      <4> QED BY <1>23, <3>2, <3>5, <4>1, UnlinkMirrors
    <3> QED BY <3>4, <3>6
  <2> QED BY <2>1, <2>2
<1> QED BY <1>14, <1>15, <1>16, <1>29, <1>30 DEF TakenIs

(***************************************************************************)
(* Popping.                                                                 *)
(***************************************************************************)
\* q without its first j members, and those.
Dropped(q, j) == SubSeq(q, j + 1, Len(q))
Gone(q, j) == {q[i] : i \in 1 .. j}

LEMMA DropNone == ASSUME NEW S, NEW q \in Seq(S) PROVE Dropped(q, 0) = q /\ Gone(q, 0) = {}
<1>1. Len(q) \in Nat /\ 0 \in 0 .. Len(q) BY LenProperties
<1>2. PICK r : r = Dropped(q, 0) OBVIOUS
<1>3. r \in Seq(S) /\ Len(r) = Len(q) - 0 /\ \A i \in 1 .. (Len(q) - 0) : r[i] = q[i + 0]
  BY <1>1, <1>2, SeqDrop DEF Dropped
<1>4. r \in Seq(S) /\ Len(r) = Len(q) /\ \A i \in 1 .. Len(r) : r[i] = q[i] BY <1>1, <1>3
<1>5. r = q BY <1>4, SeqEqual
<1> QED BY <1>2, <1>5 DEF Gone

LEMMA DropNext ==
  ASSUME NEW S, NEW q \in Seq(S), NEW j \in Nat, j < Len(q)
  PROVE  /\ Dropped(q, j) \in Seq(S) /\ Dropped(q, j) # <<>> /\ 1 \in 1 .. Len(Dropped(q, j))
         /\ Dropped(q, j)[1] = q[j + 1] /\ FirstOf(Dropped(q, j)) = q[j + 1]
         /\ TakenOut(Dropped(q, j), 1) = Dropped(q, j + 1)
         /\ Gone(q, j + 1) = Gone(q, j) \cup {q[j + 1]}
<1>1. PICK n \in Nat : n = Len(q) BY LenProperties
<1>2. j \in 0 .. Len(q) /\ j + 1 \in 0 .. Len(q) /\ j < n BY <1>1
<1>3. PICK r, s : r = Dropped(q, j) /\ s = Dropped(q, j + 1) OBVIOUS
<1>4. r \in Seq(S) /\ Len(r) = n - j /\ \A i \in 1 .. (n - j) : r[i] = q[i + j]
  BY <1>1, <1>2, <1>3, SeqDrop DEF Dropped
<1>5. s \in Seq(S) /\ Len(s) = n - (j + 1) /\ \A i \in 1 .. (n - (j + 1)) : s[i] = q[i + (j + 1)]
  BY <1>1, <1>2, <1>3, SeqDrop DEF Dropped
<1>6. PICK u : u = TakenOut(r, 1) OBVIOUS
<1>7. 1 \in 1 .. Len(r) /\ 1 \in 1 .. (n - j) BY <1>2, <1>4
<1>8. u \in Seq(S) /\ Len(u) = Len(r) - 1 BY <1>4, <1>6, <1>7, SeqTakeOut
<1>9. \A i \in 1 .. (Len(r) - 1) : u[i] = r[i + 1] BY <1>4, <1>6 DEF TakenOut
<1>10. Len(u) = Len(s) BY <1>2, <1>4, <1>5, <1>8
<1>11. \A i \in 1 .. Len(u) : u[i] = s[i]
  <2> TAKE i \in 1 .. Len(u)
  <2>1. i \in 1 .. (Len(r) - 1) /\ i + 1 \in 1 .. (n - j) /\ i \in 1 .. (n - (j + 1)) BY <1>2, <1>4, <1>8
  <2>2. u[i] = r[i + 1] /\ r[i + 1] = q[(i + 1) + j] /\ s[i] = q[i + (j + 1)] BY <1>4, <1>5, <1>9, <2>1
  <2>3. (i + 1) + j = i + (j + 1) BY <2>1
  <2> QED BY <2>2, <2>3
<1>12. u = s BY <1>5, <1>8, <1>10, <1>11, SeqEqual
<1>13. r[1] = q[j + 1]
  <2>1. r[1] = q[1 + j] /\ 1 + j = j + 1 BY <1>4, <1>7
  <2> QED BY <2>1
<1>14. FirstOf(r) = r[1] /\ r # <<>> BY <1>4, <1>7, EmptySeq DEF FirstOf
<1>15. Gone(q, j + 1) = Gone(q, j) \cup {q[j + 1]}
  <2>1. 1 .. (j + 1) = (1 .. j) \cup {j + 1} OBVIOUS
  <2> QED BY <2>1 DEF Gone
<1> QED BY <1>3, <1>4, <1>6, <1>7, <1>12, <1>13, <1>14, <1>15

\* What PopHead does with the head n, beside what it does to the blade.
PopIs(w, r, n, collect) ==
  /\ r \in Walk /\ r.b = w.b /\ r.live_head = w.live_head /\ r.ne = w.ne /\ r.fired = w.fired + 1
  /\ r.out = (IF collect THEN n ELSE NULL)
  /\ TakenIs(w.node, r.node, n) /\ SameTimers(w.node, r.node)
  /\ r.node[n].next = (IF collect THEN w.out ELSE NULL)
  /\ \A y \in Node : y # n => r.node[y].next = w.node[y].next

LEMMA HeadOfBlade ==
  ASSUME NEW b \in Bits, NEW t, GoodTable(t, b), NEW m, NEW qs, Threads(m, qs), Heads(t, b, qs),
         NEW x \in At(b), NEW n, n = t[x].head, n # NULL, NEW k, k = t[x].ttl
  PROVE  /\ x \in UsedOf(t, b) /\ k \in TTL /\ n \in Node /\ qs[k] # <<>> /\ n = FirstOf(qs[k])
         /\ NodeAt(qs[k], 1, n) /\ m[n].in_store /\ m[n].prev = NULL /\ m[n].next # n
         /\ t[x].tail = LastOf(qs[k])
<1>1. t[x].used BY DEF Heads
<1>2. x \in UsedOf(t, b) BY <1>1 DEF UsedOf
<1>3. k \in TTL BY <1>2 DEF GoodTable
<1>4. n = FirstOf(qs[k]) /\ t[x].tail = LastOf(qs[k]) BY <1>1 DEF Heads
<1>5. PICK q : q = qs[k] OBVIOUS
<1>6. q \in Seq(Node) /\ Len(q) \in Nat /\ (FirstOf(q) = NULL <=> q = <<>>) BY <1>3, <1>5, EndsOfBlades
<1>7. q # <<>> /\ n = q[1] /\ 1 \in 1 .. Len(q) BY <1>4, <1>5, <1>6 DEF FirstOf
<1>8. n \in Node /\ n \in In(q) /\ m[n].prev = Before(q, 1) /\ m[n].next # n
  <2>1. 1 \in 1 .. Len(qs[k]) /\ n = qs[k][1] BY <1>5, <1>7
  <2> QED BY <1>3, <1>5, <2>1, NodeNeighbours
<1>9. m[n].in_store BY <1>3, <1>5, <1>8 DEF Threads
<1> QED BY <1>2, <1>3, <1>4, <1>5, <1>7, <1>8, <1>9 DEF NodeAt, Before

LEMMA PopMirrors ==
  ASSUME bits \in Bits, NEW t, NEW w, Walked(t, w), GoodTable(w.tab, bits),
         NEW qs, Threads(w.node, qs), Heads(w.tab, bits, qs),
         NEW x, x = w.b, x # NULL, NEW n, n = w.tab[x].head, n # NULL,
         NEW collect, NEW r, r = PopHead(w, collect),
         NEW k, k = w.tab[x].ttl, NEW qs1, GoesTo(qs, qs1, k, TakenOut(qs[k], 1))
  PROVE  /\ Walked(t, r) /\ PopIs(w, r, n, collect) /\ Threads(r.node, qs1) /\ Heads(r.tab, bits, qs1)
         /\ Ends(w.tab, r.tab, bits, x, FirstOf(qs1[k]), LastOf(qs1[k]))
<1>1. PICK tb, m : tb = w.tab /\ m = w.node OBVIOUS
<1>2. w \in Walk /\ SameKeys(t, tb, bits) /\ KnownTTLs(m) BY <1>1 DEF Walked
<1>3. x \in At(bits) /\ tb \in Slots(bits) /\ m \in [Node -> lawn2_timer]
  BY <1>1, <1>2 DEF Walk, BladePtr, At
<1>4. /\ x \in UsedOf(tb, bits) /\ k \in TTL /\ n \in Node /\ qs[k] # <<>> /\ n = FirstOf(qs[k])
      /\ NodeAt(qs[k], 1, n) /\ m[n].in_store /\ m[n].prev = NULL /\ m[n].next # n
      /\ tb[x].tail = LastOf(qs[k])
  <2>1. /\ GoodTable(tb, bits) /\ Threads(m, qs) /\ Heads(tb, bits, qs) /\ n = tb[x].head /\ k = tb[x].ttl
    BY <1>1
  <2> QED BY <1>3, <2>1, HeadOfBlade
<1>5. PICK z : z = m[n].next OBVIOUS
<1>6. z \in NodePtr /\ NULL \in NodePtr /\ n \in NodePtr /\ n # NULL BY <1>3, <1>4, <1>5 DEF lawn2_timer, NodePtr
<1>7. PICK v, o : v = (IF collect THEN w.out ELSE NULL) /\ o = (IF collect THEN n ELSE NULL) OBVIOUS
<1>8. v \in NodePtr /\ o \in NodePtr
  <2>1. w.out \in NodePtr BY <1>2 DEF Walk
  <2> QED BY <1>6, <1>7, <2>1
<1>9. PICK p : p = m[n].prev OBVIOUS
<1>10. PICK m1 : m1 = NextTo(m, p, z) OBVIOUS
<1>11. PICK m2 : m2 = PrevTo(m1, z, p) OBVIOUS
<1>12. PICK m3 : m3 = Left(m2, n, v) OBVIOUS
<1>13. p = NULL BY <1>4, <1>9
<1>14. /\ TakenIs(m, m3, n) /\ SameTimers(m, m3) /\ m3[n].next = v
       /\ \A y \in Node : y # n /\ y # p => m3[y].next = m[y].next
  <2>1. /\ KnownTTLs(m) /\ n \in Node /\ Neighbours(m, n, p, z) /\ v \in NodePtr
        /\ m1 = NextTo(m, p, z) /\ m2 = PrevTo(m1, z, p) /\ m3 = Left(m2, n, v)
    BY <1>2, <1>4, <1>5, <1>6, <1>8, <1>9, <1>10, <1>11, <1>12, <1>13 DEF Neighbours
  <2>2. GoneIs(m, m3, n, p, v) BY <2>1, NodeGone
  <2> QED BY <2>2 DEF GoneIs
<1>15. \A y \in Node : y # n => m3[y].next = m[y].next
  BY <1>13, <1>14, LinksAssumption
<1>16. m2 = IF z = NULL THEN m ELSE [m EXCEPT ![z].prev = NULL]
  BY <1>10, <1>11, <1>13, Zenon DEF NextTo, PrevTo
\* the blade
<1>17. Threads(m3, qs1) /\ EndsWithout(m, qs, qs1[k], k, n)
  <2>1. KnownTTLs(m) /\ Threads(m, qs) BY <1>1, <1>2
  <2> QED BY <1>4, <1>14, <2>1, ThreadsTake
<1>18. PICK e : e = IF z = NULL THEN NULL ELSE tb[x].tail OBVIOUS
<1>19. z = FirstOf(qs1[k]) /\ e = LastOf(qs1[k])
  BY <1>4, <1>5, <1>17, <1>18 DEF EndsWithout
<1>20. e \in NodePtr BY <1>3, <1>6, <1>18 DEF Slots, Slot, At
<1>21. PICK t1, t2 : t1 = [tb EXCEPT ![x].head = z] /\ t2 = [t1 EXCEPT ![x].tail = e] OBVIOUS
<1>22. Ends(tb, t2, bits, x, z, e) /\ t1 \in Slots(bits) /\ t2 \in Slots(bits)
  <2>1. Ends(tb, t2, bits, x, z, e) BY <1>3, <1>6, <1>20, <1>21, SetEnds
  <2>2. HeadIs(tb, t1, bits, x, z) BY <1>3, <1>6, <1>21, SetHead
  <2> QED BY <2>1, <2>2 DEF Ends, HeadIs, SameKeys
<1>23. Heads(t2, bits, qs1)
  <2>1. qs \in [TTL -> Seq(Node)] BY DEF Threads
  <2>2. qs1 = With(qs, k, qs1[k]) BY <1>4, <2>1 DEF GoesTo, With
  <2>3. /\ GoodTable(tb, bits) /\ qs \in [TTL -> Seq(Node)] /\ Heads(tb, bits, qs)
        /\ x \in UsedOf(tb, bits) /\ k = tb[x].ttl /\ Ends(tb, t2, bits, x, FirstOf(qs1[k]), LastOf(qs1[k]))
    BY <1>1, <1>4, <1>19, <1>22, <2>1
  <2> QED BY <2>2, <2>3, HeadsSet
\* the record
<1>24. PICK f \in Nat : f = w.fired + 1
  <2>1. w.fired \in Nat BY <1>2 DEF Walk
  <2> QED BY <2>1
<1>25. r = [w EXCEPT !.tab = t2, !.node = m3, !.out = o, !.fired = f]
  <2>1. PICK w1 : w1 = [w EXCEPT !.tab[x].head = z] OBVIOUS
  <2>2. w1 = [w EXCEPT !.tab = t1] BY <1>1, <1>21, <2>1, Zenon
  <2>3. m3 = [m2 EXCEPT ![n].next = v, ![n].prev = NULL, ![n].in_store = FALSE] BY <1>12, Zenon DEF Left
  <2>4. r = [w1 EXCEPT !.tab[x].tail = e, !.node = m3, !.out = o, !.fired = f]
    BY <1>1, <1>5, <1>7, <1>16, <1>18, <1>24, <2>1, <2>3, Zenon DEF PopHead
  <2>5. w1.tab = t1 BY <1>2, <2>2 DEF Walk
  <2>6. r = [w1 EXCEPT !.tab = t2, !.node = m3, !.out = o, !.fired = f] BY <1>21, <2>4, <2>5, Zenon
  <2> QED BY <1>2, <2>2, <2>6 DEF Walk
<1>26. m3 \in [Node -> lawn2_timer] BY <1>14 DEF SameTimers
<1>27. /\ r \in Walk /\ r.tab = t2 /\ r.node = m3 /\ r.b = w.b /\ r.live_head = w.live_head
       /\ r.ne = w.ne /\ r.fired = f /\ r.out = o
  BY <1>2, <1>8, <1>22, <1>24, <1>25, <1>26 DEF Walk
<1>28. Walked(t, r)
  <2>1. w.b # NULL /\ w.tab[w.b].head # NULL OBVIOUS
  <2> QED BY <2>1, PopOne
<1>29. PopIs(w, r, n, collect) BY <1>1, <1>7, <1>14, <1>15, <1>24, <1>27 DEF PopIs
<1> QED BY <1>1, <1>17, <1>19, <1>22, <1>23, <1>27, <1>28, <1>29

\* The list of nodes handed over, which has a next but no prev.
OutIs(m, out, os) == out = FirstOf(os) /\ \E pv : Listed(os, Node, Nexts(m), pv)

LEMMA OutPush ==
  ASSUME NEW m, NEW out, NEW os, OutIs(m, out, os), NEW n \in Node, n \notin In(os),
         NEW m1, m1[n].next = out, \A y \in Node : y # n => m1[y].next = m[y].next,
         NEW os1, os1 = InFront(os, n)
  PROVE  OutIs(m1, n, os1) /\ In(os1) = In(os) \cup {n}
<1>1. PICK nx, nx1 : nx = Nexts(m) /\ nx1 = Nexts(m1) OBVIOUS
<1>2. PICK pv : Listed(os, Node, nx, pv) BY <1>1 DEF OutIs
<1>3. PICK pv1 : pv1 = [y \in Node |-> IF y = n THEN NULL ELSE IF y = out THEN n ELSE pv[y]] OBVIOUS
<1>4. NULL \notin Node /\ out = FirstOf(os) BY LinksAssumption DEF OutIs
<1>5. out # NULL => out \in Node /\ out # n
  <2>1. os \in Seq(Node) BY <1>2 DEF Listed, Simple
  <2>2. /\ In(os) \subseteq Node /\ (FirstOf(os) = NULL <=> Len(os) = 0)
        /\ Len(os) # 0 => FirstOf(os) \in In(os)
    BY <1>4, <2>1, InProps
  <2> QED BY <1>4, <2>2
<1>6. Pushes(nx, pv, nx1, pv1, Node, n, out)
  <2>1. nx1[n] = out /\ pv1[n] = NULL BY <1>1, <1>3 DEF Nexts
  <2>2. out # NULL => pv1[out] = n BY <1>3, <1>5
  <2>3. \A y \in Node : y # n => nx1[y] = nx[y] BY <1>1 DEF Nexts
  <2>4. \A y \in Node : y # n /\ y # out => pv1[y] = pv[y] BY <1>3
  <2> QED BY <2>1, <2>2, <2>3, <2>4 DEF Pushes
<1>7. Listed(os1, Node, nx1, pv1) /\ In(os1) = In(os) \cup {n} /\ FirstOf(os1) = n
  <2>1. /\ NULL \notin Node /\ Listed(os, Node, nx, pv) /\ n \in Node /\ n \notin In(os)
        /\ Pushes(nx, pv, nx1, pv1, Node, n, FirstOf(os)) /\ os1 = InFront(os, n)
    BY <1>2, <1>4, <1>6
  <2> QED BY <2>1, ListPush
<1> QED BY <1>1, <1>7 DEF OutIs

LEMMA OutNone == ASSUME NEW m PROVE OutIs(m, NULL, <<>>) /\ In(<<>>) = {}
<1>1. <<>> \in Seq(Node) /\ Len(<<>>) = 0 OBVIOUS
<1>2. PICK s : s = <<>> OBVIOUS
<1>3. s \in Seq(Node) /\ Len(s) = 0 /\ FirstOf(s) = NULL BY <1>1, <1>2 DEF FirstOf
<1>4. \A i \in 1 .. Len(s) : FALSE BY <1>3
<1>5. Listed(s, Node, Nexts(m), Nexts(m)) BY <1>3, <1>4 DEF Listed, Simple
<1> QED BY <1>2, <1>3, <1>4, <1>5 DEF OutIs, In

\* The nodes G have left since the nodes were m0, for the list if there is one.
HandedOver(w, S) == \E os : OutIs(w.node, w.out, os) /\ In(os) = S
LeftSince(m0, w, G, collect) ==
  /\ G \subseteq Node /\ IsFiniteSet(G) /\ w.fired = Cardinality(G)
  /\ SameTimers(m0, w.node)
  /\ \A y \in Node : w.node[y].in_store = (m0[y].in_store /\ y \notin G)
  /\ HandedOver(w, IF collect THEN G ELSE {})

LEMMA OneMoreLeaves ==
  ASSUME NEW m0, NEW w, NEW G, NEW collect, LeftSince(m0, w, G, collect),
         NEW n \in Node, w.node[n].in_store, NEW r, PopIs(w, r, n, collect), NEW G1, G1 = G \cup {n}
  PROVE  LeftSince(m0, r, G1, collect)
<1>1. n \notin G BY DEF LeftSince
<1>2. G1 \subseteq Node /\ IsFiniteSet(G1) /\ Cardinality(G1) = Cardinality(G) + 1
  BY <1>1, FS_AddElement DEF LeftSince
<1>3. SameTimers(m0, r.node) BY SameTimersChain DEF LeftSince, PopIs
<1>4. \A y \in Node : r.node[y].in_store = (m0[y].in_store /\ y \notin G1)
  BY DEF LeftSince, PopIs, TakenIs
<1>5. HandedOver(r, IF collect THEN G1 ELSE {})
  <2>1. CASE collect
    <3>1. PICK os : OutIs(w.node, w.out, os) /\ In(os) = G BY <2>1 DEF LeftSince, HandedOver
    <3>2. PICK os1 : os1 = InFront(os, n) OBVIOUS
    <3>3. r.node[n].next = w.out /\ r.out = n /\ \A y \in Node : y # n => r.node[y].next = w.node[y].next
      BY <2>1 DEF PopIs
    <3>4. OutIs(r.node, n, os1) /\ In(os1) = In(os) \cup {n} BY <1>1, <3>1, <3>2, <3>3, OutPush
    <3> QED BY <2>1, <3>1, <3>3, <3>4 DEF HandedOver
  <2>2. CASE ~collect
    <3>1. r.out = NULL BY <2>2 DEF PopIs
    <3> QED BY <2>2, <3>1, OutNone DEF HandedOver
  <2> QED BY <2>1, <2>2
<1> QED BY <1>2, <1>3, <1>4, <1>5 DEF LeftSince, PopIs

\* v is w once the first j nodes of its blade, the one of TTL k, are popped.
Draining(w, v, qs, k, j) ==
  /\ v.b = w.b /\ v.live_head = w.live_head /\ v.ne = w.ne
  /\ Threads(v.node, With(qs, k, Dropped(qs[k], j)))
  /\ Heads(v.tab, bits, With(qs, k, Dropped(qs[k], j)))
  /\ Ends(w.tab, v.tab, bits, w.b, FirstOf(Dropped(qs[k], j)), LastOf(Dropped(qs[k], j)))

LEMMA EndsChain ==
  ASSUME NEW b, NEW t, NEW u, NEW v, NEW x, NEW h, NEW e, NEW h1, NEW e1,
         Ends(t, u, b, x, h, e), Ends(u, v, b, x, h1, e1)
  PROVE  Ends(t, v, b, x, h1, e1)
<1>1. SameKeys(t, v, b) BY SameKeysChain DEF Ends
<1> QED BY <1>1 DEF Ends

\* Slot x is the blade of k.
Keyed(t, x, k) == t[x].used /\ t[x].ttl = k

\* Behind place j of q comes n at place e; the nodes that have left.
Comes(q, j, e, n) == j \in Nat /\ j < Len(q) /\ e = j + 1 /\ n = q[e]
GoneWith(G, q, j) == G \cup Gone(q, j)

LEMMA DrainOne ==
  ASSUME bits \in Bits, NEW t, GoodTable(t, bits), NEW w, w.b # NULL, NEW qs, qs \in [TTL -> Seq(Node)],
         NEW k \in TTL, NEW v, Walked(t, v), Keyed(v.tab, w.b, k),
         NEW j, NEW e, NEW n, Comes(qs[k], j, e, n), Draining(w, v, qs, k, j),
         NEW m0, NEW G, NEW collect, LeftSince(m0, v, GoneWith(G, qs[k], j), collect),
         NEW r, r = PopHead(v, collect)
  PROVE  /\ Walked(t, r) /\ Draining(w, r, qs, k, e)
         /\ LeftSince(m0, r, GoneWith(G, qs[k], e), collect)
<1>0. j \in Nat /\ j < Len(qs[k]) /\ e = j + 1 /\ n = qs[k][j + 1] BY DEF Comes
<1>1. PICK q, qj : q = qs[k] /\ qj = With(qs, k, Dropped(q, j)) /\ n = q[j + 1] BY <1>0
<1>2. q \in Seq(Node) /\ j \in Nat /\ j < Len(q) BY <1>0, <1>1
<1>3. PICK a, c : a = Dropped(q, j) /\ c = Dropped(q, j + 1) OBVIOUS
<1>4. /\ FirstOf(a) = n /\ TakenOut(a, 1) = c /\ a # <<>> /\ 1 \in 1 .. Len(a) /\ a[1] = n
      /\ Gone(q, j + 1) = Gone(q, j) \cup {n}
  <2>1. /\ Dropped(q, j) \in Seq(Node) /\ Dropped(q, j) # <<>> /\ 1 \in 1 .. Len(Dropped(q, j))
        /\ Dropped(q, j)[1] = q[j + 1] /\ FirstOf(Dropped(q, j)) = q[j + 1]
        /\ TakenOut(Dropped(q, j), 1) = Dropped(q, j + 1)
        /\ Gone(q, j + 1) = Gone(q, j) \cup {q[j + 1]}
    BY <1>2, DropNext
  <2> QED BY <1>1, <1>3, <2>1
<1>5. n \in Node
  <2>1. Len(q) \in Nat /\ j + 1 \in 1 .. Len(q) BY <1>2, LenProperties
  <2> QED BY <1>1, <1>2, <2>1, ElementOfSeq
<1>6. PICK x : x = w.b OBVIOUS
<1>7. v.b = x /\ x # NULL /\ v.tab[x].ttl = k BY <1>6 DEF Draining, Keyed
<1>8. Threads(v.node, qj) /\ Heads(v.tab, bits, qj) /\ qj[k] = a
  <2>1. qj[k] = a BY <1>1, <1>3 DEF With
  <2> QED BY <1>1, <2>1 DEF Draining
<1>9. x \in At(bits)
  <2>1. v \in Walk BY DEF Walked
  <2> QED BY <1>7, <2>1 DEF Walk, BladePtr, At
<1>10. v.tab[x].head = n
  <2>1. Ends(w.tab, v.tab, bits, x, FirstOf(a), LastOf(a)) BY <1>1, <1>3, <1>6 DEF Draining
  <2> QED BY <1>4, <1>9, <2>1 DEF Ends
<1>11. n # NULL BY <1>5, LinksAssumption
<1>12. PICK q1 : q1 = With(qs, k, c) OBVIOUS
<1>13. GoesTo(qj, q1, k, TakenOut(qj[k], 1)) /\ q1[k] = c
  <2>1. q1 = With(qj, k, c) BY <1>1, <1>12 DEF With
  <2> QED BY <1>4, <1>8, <1>12, <2>1 DEF GoesTo, With
<1>14. GoodTable(v.tab, bits)
  <2>1. SameKeys(t, v.tab, bits) BY DEF Walked
  <2> QED BY <2>1, SameKeysGood
<1>15. /\ Walked(t, r) /\ PopIs(v, r, n, collect) /\ Threads(r.node, q1) /\ Heads(r.tab, bits, q1)
       /\ Ends(v.tab, r.tab, bits, x, FirstOf(q1[k]), LastOf(q1[k]))
  <2>1. /\ Walked(t, v) /\ GoodTable(v.tab, bits) /\ Threads(v.node, qj) /\ Heads(v.tab, bits, qj)
        /\ x = v.b /\ x # NULL /\ n = v.tab[x].head /\ n # NULL /\ r = PopHead(v, collect)
        /\ k = v.tab[x].ttl /\ GoesTo(qj, q1, k, TakenOut(qj[k], 1))
    BY <1>7, <1>8, <1>10, <1>11, <1>13, <1>14
  <2> QED BY <2>1, PopMirrors
<1>16. Draining(w, r, qs, k, j + 1)
  <2>1. r.b = w.b /\ r.live_head = w.live_head /\ r.ne = w.ne BY <1>15 DEF PopIs, Draining
  <2>2. Ends(w.tab, v.tab, bits, x, FirstOf(a), LastOf(a)) BY <1>1, <1>3, <1>6 DEF Draining
  <2>3. Ends(w.tab, r.tab, bits, x, FirstOf(c), LastOf(c)) BY <1>13, <1>15, <2>2, EndsChain
  <2> QED BY <1>1, <1>3, <1>6, <1>12, <1>15, <2>1, <2>3 DEF Draining
<1>17. LeftSince(m0, r, G \cup Gone(q, j + 1), collect)
  <2>1. PICK V, V1 : V = G \cup Gone(q, j) /\ V1 = G \cup Gone(q, j + 1) OBVIOUS
  <2>2. V1 = V \cup {n} BY <1>4, <2>1
  <2>3. v.node[n].in_store
    <3>1. 1 \in 1 .. Len(a) /\ n = a[1] BY <1>4
    <3>2. n \in In(a) BY <3>1 DEF In
    <3> QED BY <1>8, <3>2 DEF Threads
  <2>4. LeftSince(m0, v, V, collect) BY <1>1, <2>1 DEF GoneWith
  <2> QED BY <1>5, <1>15, <2>1, <2>2, <2>3, <2>4, OneMoreLeaves
<1> QED BY <1>0, <1>1, <1>6, <1>10, <1>15, <1>16, <1>17 DEF GoneWith

\* The first d members of q have expired by tm, and no more.
DueHeads(q, m, tm, d) ==
  /\ d \in 0 .. Len(q)
  /\ \A i \in 1 .. d : m[q[i]].expiration <= tm
  /\ d < Len(q) => ~ (m[q[d + 1]].expiration <= tm)

\* The inner loop pops these.
LEMMA DrainAll ==
  ASSUME bits \in Bits, NEW t, GoodTable(t, bits), NEW w, Walked(t, w), w.b # NULL,
         NEW qs, Threads(w.node, qs), Heads(w.tab, bits, qs),
         NEW k, Keyed(w.tab, w.b, k),
         NEW m0, NEW G, NEW collect, LeftSince(m0, w, G, collect),
         NEW tm \in Nat, NEW d, DueHeads(qs[k], m0, tm, d),
         NEW r, r = Iterate(Popping(tm, collect), w, Cardinality(Node))
  PROVE  Walked(t, r) /\ Draining(w, r, qs, k, d) /\ LeftSince(m0, r, G \cup Gone(qs[k], d), collect)
<1>1. PICK q, x : q = qs[k] /\ x = w.b OBVIOUS
<1>2. w \in Walk /\ SameKeys(t, w.tab, bits) BY DEF Walked
<1>3. x \in At(bits) BY <1>1, <1>2 DEF Walk, BladePtr, At
<1>4. x \in UsedOf(w.tab, bits) /\ k \in TTL
  <2>1. GoodTable(w.tab, bits) BY <1>2, SameKeysGood
  <2>2. x \in UsedOf(w.tab, bits) BY <1>1, <1>3 DEF UsedOf, Keyed
  <2>3. k = w.tab[x].ttl BY <1>1 DEF Keyed
  <2> QED BY <1>1, <2>1, <2>2, <2>3 DEF GoodTable
<1>5. qs \in [TTL -> Seq(Node)] BY DEF Threads
<1>6. q \in Seq(Node) /\ Len(q) \in Nat /\ d \in Nat /\ d <= Len(q)
  <2>1. q \in Seq(Node) BY <1>1, <1>4, <1>5
  <2> QED BY <1>1, <2>1, LenProperties DEF DueHeads
<1>7. PICK size \in Nat : size = Cardinality(Node) /\ Len(q) <= size
  <2>1. Simple(q, Node) BY <1>1, <1>4 DEF Threads, Listed
  <2> QED BY <2>1, ListLength, LinksAssumption
<1> DEFINE at(i) == IF i <= d THEN i ELSE d
           Good(v, i) == /\ Walked(t, v) /\ Draining(w, v, qs, k, at(i))
                         /\ LeftSince(m0, v, G \cup Gone(q, at(i)), collect)
           P == [i \in Nat |-> {v \in Walk : Good(v, i)}]
           f == Popping(tm, collect)
<1>8. w \in P[0]
  <2>1. at(0) = 0 BY <1>6
  <2>2. Dropped(q, 0) = q /\ Gone(q, 0) = {} BY <1>6, DropNone
  <2>3. With(qs, k, q) = qs BY <1>1, <1>4, <1>5 DEF With
  <2>4. Ends(w.tab, w.tab, bits, x, FirstOf(q), LastOf(q))
    <3>1. SameKeys(w.tab, w.tab, bits) BY <1>2, SameKeysItself DEF SameKeys
    <3>2. w.tab[x].head = FirstOf(q) /\ w.tab[x].tail = LastOf(q) BY <1>1, <1>3 DEF Heads, Keyed
    <3> QED BY <3>1, <3>2 DEF Ends
  <2>5. Draining(w, w, qs, k, 0) BY <1>1, <2>2, <2>3, <2>4 DEF Draining
  <2>6. G \cup Gone(q, 0) = G BY <2>2
  <2>7. Good(w, 0) BY <2>1, <2>5, <2>6
  <2> QED BY <1>2, <2>7
<1>9. ASSUME NEW i \in 0 .. (size - 1), NEW v \in P[i] PROVE f[v] \in P[i + 1]
  <2>1. v \in Walk /\ Good(v, i) /\ i \in Nat OBVIOUS
  <2>2. v.b = x /\ Ends(w.tab, v.tab, bits, x, FirstOf(Dropped(q, at(i))), LastOf(Dropped(q, at(i))))
    BY <1>1, <2>1 DEF Draining
  <2>3. Keyed(v.tab, x, k) BY <1>1, <1>3, <2>2 DEF Ends, SameKeys, Keyed
  <2>4. v.tab[x].head = FirstOf(Dropped(q, at(i))) BY <1>3, <2>2 DEF Ends
  <2>5. PICK h : h = v.tab[v.b].head OBVIOUS
  <2>6. PICK z : z = PopHead(v, collect) OBVIOUS
  <2>7. f[v] = IF h = NULL THEN v ELSE IF v.node[h].expiration > tm THEN v ELSE z
    BY <2>1, <2>5, <2>6, Zenon DEF Popping
  <2>8. SameTimers(m0, v.node) BY <2>1 DEF LeftSince
  <2>9. \A y \in Node : v.node[y].expiration = m0[y].expiration /\ m0[y].expiration \in Nat
    BY <2>8 DEF SameTimers, lawn2_timer
  <2>10. \A c \in 1 .. Len(q) : q[c] \in Node /\ q[c] # NULL BY <1>6, ElementOfSeq, LinksAssumption
  <2>11. CASE i < d
    <3>1. at(i) = i /\ at(i + 1) = i + 1 /\ i < Len(q) /\ i + 1 \in 1 .. d /\ i + 1 \in 1 .. Len(q)
      BY <1>6, <2>1, <2>11
    <3>2. w.b # NULL /\ Keyed(v.tab, w.b, k) BY <1>1, <2>3
    <3>3. Walked(t, v) /\ Draining(w, v, qs, k, i) /\ LeftSince(m0, v, G \cup Gone(qs[k], i), collect) /\ i < Len(qs[k])
      BY <1>1, <2>1, <3>1
    <3>4. PICK e, n : e = i + 1 /\ n = q[i + 1] OBVIOUS
    <3>popped. /\ Walked(t, z) /\ Draining(w, z, qs, k, e)
           /\ LeftSince(m0, z, GoneWith(G, qs[k], e), collect)
      <4>1. /\ qs \in [TTL -> Seq(Node)] /\ k \in TTL /\ w.b # NULL /\ Keyed(v.tab, w.b, k)
            /\ Comes(qs[k], i, e, n) /\ Walked(t, v) /\ Draining(w, v, qs, k, i)
            /\ LeftSince(m0, v, GoneWith(G, qs[k], i), collect) /\ z = PopHead(v, collect)
        BY <1>1, <1>4, <1>5, <2>1, <2>6, <3>2, <3>3, <3>4 DEF Comes, GoneWith
      <4> HIDE DEF Good, P, f, at
      <4>2. Walked(t, z) BY <4>1, DrainOne
      <4>3. Draining(w, z, qs, k, e) BY <4>1, DrainOne
      <4>4. LeftSince(m0, z, GoneWith(G, qs[k], e), collect) BY <4>1, DrainOne
      <4> QED BY <4>2, <4>3, <4>4
    <3>5. h = q[i + 1]
      <4>1. FirstOf(Dropped(q, i)) = q[i + 1] BY <1>6, <2>1, <3>1, DropNext
      <4> QED BY <2>2, <2>4, <2>5, <3>1, <4>1
    <3>6. m0[q[i + 1]].expiration <= tm BY <1>1, <3>1 DEF DueHeads
    <3>7. h \in Node /\ h # NULL /\ v.node[h].expiration \in Nat /\ v.node[h].expiration <= tm
      BY <2>9, <2>10, <3>1, <3>5, <3>6
    <3>8. f[v] = z BY <2>7, <3>7
    <3>9. z \in Walk BY <3>popped DEF Walked
    <3>10. Good(z, i + 1) BY <1>1, <3>1, <3>4, <3>popped DEF GoneWith
    <3> QED BY <2>1, <3>8, <3>9, <3>10
  <2>12. CASE ~ (i < d)
    <3>1. at(i) = d /\ at(i + 1) = d BY <1>6, <2>1, <2>12
    <3>2. f[v] = v
      <4>1. CASE d = Len(q)
        <5>1. Len(Dropped(q, d)) = 0
          <6>1. d \in 0 .. Len(q) BY <1>6
          <6>2. Len(Dropped(q, d)) = Len(q) - d BY <1>6, <6>1, SeqDrop DEF Dropped
          <6> QED BY <1>6, <4>1, <6>2
        <5>2. h = NULL BY <2>2, <2>4, <2>5, <3>1, <5>1 DEF FirstOf
        <5> QED BY <2>7, <5>2
      <4>2. CASE d # Len(q)
        <5>1. d < Len(q) /\ d + 1 \in 1 .. Len(q) BY <1>6, <4>2
        <5>2. FirstOf(Dropped(q, d)) = q[d + 1] BY <1>6, <5>1, DropNext
        <5>3. h = q[d + 1] BY <2>2, <2>4, <2>5, <3>1, <5>2
        <5>4. ~ (m0[q[d + 1]].expiration <= tm) BY <1>1, <5>1 DEF DueHeads
        <5>5. v.node[h].expiration \in Nat /\ v.node[h].expiration > tm BY <2>9, <2>10, <5>1, <5>3, <5>4
        <5> QED BY <2>7, <5>5
      <4> QED BY <4>1, <4>2
    <3>3. Good(v, i + 1) BY <2>1, <3>1
    <3> QED BY <2>1, <3>2, <3>3
  <2> QED BY <2>11, <2>12
<1> HIDE DEF f, P
<1>10. Iterate(f, w, size) \in P[size] BY <1>8, <1>9, IteratesThrough
<1>11. at(size) = d BY <1>6, <1>7
<1>12. r \in P[size] BY <1>7, <1>10 DEF f
<1>13. Good(r, size) BY <1>12 DEF P
<1> QED BY <1>1, <1>11, <1>13

\* The other blades, but for the one before x, keep their next.
OthersKeepNext(t, u, b, x) ==
  \A y \in At(b) : y # x /\ y # t[x].live_prev => u[y].live_next = t[y].live_next

\* z is p with its blade done: q is what is left of it.
DoneWith(w, p, z, q) ==
  /\ z.node = p.node /\ z.out = p.out /\ z.fired = p.fired
  /\ z.ne = IF q = <<>> THEN w.ne ELSE Earlier(p.node[q[1]].expiration, w.ne)
  /\ OthersKeepNext(w.tab, z.tab, bits, w.b)

LEMMA BladeDone ==
  ASSUME bits \in Bits, NEW t, GoodTable(t, bits), NEW w, Walked(t, w), w.b # NULL,
         NEW qs, Mirrors(w.tab, bits, w.live_head, w.node, qs),
         NEW k \in TTL, Keyed(w.tab, w.b, k), qs[k] # <<>>, NEW d \in 0 .. Len(qs[k]),
         NEW p, Walked(t, p), Draining(w, p, qs, k, d),
         NEW q, q = Dropped(qs[k], d), NEW qs1, GoesTo(qs, qs1, k, q), NEW z, z = Popped(p)
  PROVE  /\ Walked(t, z) /\ Mirrors(z.tab, bits, z.live_head, z.node, qs1)
         /\ DoneWith(w, p, z, q)
<1>1. PICK x : x = w.b OBVIOUS
<1>2. /\ p.b = x /\ p.live_head = w.live_head /\ p.ne = w.ne
      /\ Threads(p.node, qs1) /\ Heads(p.tab, bits, qs1)
      /\ Ends(w.tab, p.tab, bits, x, FirstOf(q), LastOf(q))
  BY <1>1 DEF Draining, GoesTo
<1>3. w \in Walk /\ p \in Walk /\ SameKeys(t, w.tab, bits) BY DEF Walked
<1>4. x \in At(bits) /\ x # NULL BY <1>1, <1>3 DEF Walk, BladePtr, At
<1>5. GoodTable(w.tab, bits) BY <1>3, SameKeysGood
<1>6. x \in UsedOf(w.tab, bits) /\ w.tab[x].ttl = k BY <1>1, <1>4 DEF Keyed, UsedOf
<1>7. /\ GoodTable(p.tab, bits) /\ Heads(p.tab, bits, qs1) /\ x \in At(bits) /\ p.tab[x].head = FirstOf(q)
      /\ LiveWith(p.tab, bits, w.live_head, x)
  <2>1. PICK tb, h, m, m1, u : tb = w.tab /\ h = w.live_head /\ m = w.node /\ m1 = p.node /\ u = p.tab OBVIOUS
  <2>2. /\ bits \in Bits /\ GoodTable(tb, bits) /\ Mirrors(tb, bits, h, m, qs)
        /\ x \in UsedOf(tb, bits) /\ k \in TTL /\ tb[x].ttl = k /\ qs[k] # <<>>
        /\ GoesTo(qs, qs1, k, q) /\ Threads(m1, qs1) /\ Ends(tb, u, bits, x, FirstOf(q), LastOf(q))
    BY <1>2, <1>5, <1>6, <2>1
  <2>3. /\ GoodTable(u, bits) /\ Heads(u, bits, qs1) /\ x \in At(bits) /\ u[x].head = FirstOf(q)
        /\ LiveWith(u, bits, h, x)
    BY <2>2, EndsMirror
  <2> QED BY <2>1, <2>3
<1>8. PICK lv : LiveIs(p.tab, bits, p.live_head, lv) /\ x \in In(lv) /\ LiveBut(p.tab, bits, lv, x)
  BY <1>2, <1>7 DEF LiveWith
<1>9. Walked(t, z)
  <2>1. p.b # NULL BY <1>2, <1>4
  <2> QED BY <2>1, BladePopped
<1>10. q \in Seq(Node) /\ (FirstOf(q) = NULL <=> q = <<>>) /\ (q # <<>> => FirstOf(q) = q[1])
  <2>1. qs1[k] = q
    <3>1. qs \in [TTL -> Seq(Node)] BY DEF Mirrors, Threads
    <3> QED BY <3>1 DEF GoesTo, With
  <2>2. /\ q \in Seq(Node) /\ Len(q) \in Nat /\ (FirstOf(q) = NULL <=> q = <<>>) BY <1>2, <2>1, EndsOfBlades
  <2>3. q # <<>> => Len(q) # 0 BY <2>2, EmptySeq
  <2> QED BY <2>2, <2>3 DEF FirstOf
<1>11. p.tab[x].live_prev = w.tab[x].live_prev /\ \A y \in At(bits) : p.tab[y].live_next = w.tab[y].live_next
  BY <1>2, <1>4 DEF Ends
<1>12. CASE q # <<>>
  <2>1. PICK head, e : head = q[1] /\ e = Earlier(p.node[head].expiration, p.ne) OBVIOUS
  <2>2. p.tab[p.b].head = head /\ head # NULL BY <1>2, <1>7, <1>10, <1>12, <2>1
  <2>3. z = [p EXCEPT !.ne = e] BY <2>1, <2>2, Zenon DEF Popped
  <2>4. z.tab = p.tab /\ z.node = p.node /\ z.live_head = p.live_head /\ z.out = p.out /\ z.fired = p.fired /\ z.ne = e
    <3>1. z \in Walk BY <1>9 DEF Walked
    <3> QED BY <1>3, <2>3, <3>1 DEF Walk
  <2>5. p.tab[x].head # NULL BY <1>2, <2>2
  <2>6. LiveBut(p.tab, bits, lv, NULL) BY <1>8, <2>5 DEF LiveBut
  <2>7. Mirrors(p.tab, bits, p.live_head, p.node, qs1) BY <1>2, <1>8, <2>6 DEF Mirrors
  <2>8. OthersKeepNext(w.tab, p.tab, bits, x) BY <1>11 DEF OthersKeepNext
  <2> QED BY <1>1, <1>2, <1>9, <1>12, <2>1, <2>4, <2>7, <2>8 DEF DoneWith
<1>13. CASE q = <<>>
  <2>1. p.tab[p.b].head = NULL BY <1>2, <1>7, <1>10, <1>13
  <2>2. PICK u, g : u = UnlinkedTab(p.tab, x) /\ g = UnlinkedHead(p, x) OBVIOUS
  <2>3. z = [p EXCEPT !.tab = u, !.live_head = g]
    <3>1. live_unlink(p, x) = [p EXCEPT !.tab = UnlinkedTab(p.tab, x), !.live_head = UnlinkedHead(p, x)]
      BY Zenon DEF live_unlink, UnlinkedTab, UnlinkedHead
    <3>2. z = live_unlink(p, x) BY <1>2, <2>1, Zenon DEF Popped
    <3> QED BY <2>2, <3>1, <3>2, Zenon
  <2>4. /\ z.tab = u /\ z.node = p.node /\ z.live_head = g /\ z.out = p.out /\ z.fired = p.fired
        /\ z.ne = p.ne
    <3>1. z \in Walk BY <1>9 DEF Walked
    <3> QED BY <1>3, <2>3, <3>1 DEF Walk
  <2>5. g = IF p.tab[x].live_prev = NULL THEN p.tab[x].live_next ELSE p.live_head BY <2>2 DEF UnlinkedHead
  <2>6. /\ Mirrors(u, bits, g, p.node, qs1) /\ SameBlades(p.tab, u, bits)
        /\ \A y \in At(bits) : y # x /\ y # p.tab[x].live_prev => u[y].live_next = p.tab[y].live_next
    <3>1. PICK tb, h, m : tb = p.tab /\ h = p.live_head /\ m = p.node OBVIOUS
    <3>2. /\ bits \in Bits /\ GoodTable(tb, bits) /\ Threads(m, qs1) /\ Heads(tb, bits, qs1)
          /\ LiveIs(tb, bits, h, lv) /\ x \in In(lv) /\ LiveBut(tb, bits, lv, x) /\ tb[x].head = NULL
          /\ u = UnlinkedTab(tb, x) /\ g = (IF tb[x].live_prev = NULL THEN tb[x].live_next ELSE h)
      BY <1>2, <1>7, <1>8, <2>1, <2>2, <2>5, <3>1
    <3>3. /\ Mirrors(u, bits, g, m, qs1) /\ SameBlades(tb, u, bits)
          /\ \A y \in At(bits) : y # x /\ y # tb[x].live_prev => u[y].live_next = tb[y].live_next
      BY <3>2, UnlinkMirrors
    <3> QED BY <3>1, <3>3
  <2>7. OthersKeepNext(w.tab, u, bits, x) BY <1>11, <2>6 DEF OthersKeepNext
  <2> QED BY <1>1, <1>2, <1>9, <1>13, <2>4, <2>6, <2>7 DEF DoneWith
<1> QED BY <1>12, <1>13

(***************************************************************************)
(* The walk over the live list.                                             *)
(***************************************************************************)
\* The TTLs of the first i blades; what is left of the blades, which nodes are
\* gone and when the heads left expire once the blades of K are done, due
\* nodes of each.
Visited(t, lv, i) == {t[lv[a]].ttl : a \in 1 .. i}
LeftOf(qs, due, K) == [k \in TTL |-> IF k \in K THEN Dropped(qs[k], due[k]) ELSE qs[k]]
GoneOf(qs, due, K) == UNION {Gone(qs[k], due[k]) : k \in K}
HeadTimes(qs, due, m, K) ==
  {m[Dropped(qs[k], due[k])[1]].expiration : k \in {j \in K : Dropped(qs[j], due[j]) # <<>>}}
IsLeast(e, S) == e \in S /\ \A s \in S : e <= s

\* These once k, whose blade becomes q, is one of the TTLs K1.
OneMore(qs, due, m, K, K1, k, q) ==
  /\ GoesTo(LeftOf(qs, due, K), LeftOf(qs, due, K1), k, q)
  /\ LeftOf(qs, due, K)[k] = qs[k]
  /\ GoneOf(qs, due, K1) = GoneOf(qs, due, K) \cup Gone(qs[k], due[k])
  /\ HeadTimes(qs, due, m, K1) =
       HeadTimes(qs, due, m, K) \cup (IF q = <<>> THEN {} ELSE {m[q[1]].expiration})
Joins(K, K1, k) == k \notin K /\ K1 = K \cup {k}
IsLeft(qs, due, k, q) == q = Dropped(qs[k], due[k])

LEMMA OneMoreBlade ==
  ASSUME NEW qs, NEW due, NEW m, NEW K, NEW K1, NEW k \in TTL, Joins(K, K1, k), NEW q, IsLeft(qs, due, k, q)
  PROVE  OneMore(qs, due, m, K, K1, k, q)
<1> USE DEF Joins, IsLeft
<1>1. LeftOf(qs, due, K1) = With(LeftOf(qs, due, K), k, q) BY DEF LeftOf, With
<1>2. GoneOf(qs, due, K1) = GoneOf(qs, due, K) \cup Gone(qs[k], due[k]) BY DEF GoneOf
<1>3. HeadTimes(qs, due, m, K1) =
        HeadTimes(qs, due, m, K) \cup (IF q = <<>> THEN {} ELSE {m[q[1]].expiration})
  <2>1. CASE q = <<>>
    <3>1. {j \in K1 : Dropped(qs[j], due[j]) # <<>>} = {j \in K : Dropped(qs[j], due[j]) # <<>>} BY <2>1
    <3> QED BY <2>1, <3>1 DEF HeadTimes
  <2>2. CASE q # <<>>
    <3>1. {j \in K1 : Dropped(qs[j], due[j]) # <<>>} = {j \in K : Dropped(qs[j], due[j]) # <<>>} \cup {k} BY <2>2
    <3> QED BY <2>2, <3>1 DEF HeadTimes
  <2> QED BY <2>1, <2>2
<1> QED BY <1>1, <1>2, <1>3 DEF GoesTo, LeftOf, OneMore

LEMMA StillLeast ==
  ASSUME NEW S, S \subseteq Nat, NEW ne, IsLeast(ne, S), NEW e \in Nat
  PROVE  IsLeast(Earlier(e, ne), S \cup {e})
<1>1. ne \in Nat /\ ne \in S /\ \A s \in S : s \in Nat /\ ne <= s BY DEF IsLeast
<1>2. CASE e < ne
  <2>1. \A s \in S : e <= s BY <1>1, <1>2
  <2> QED BY <1>2, <2>1 DEF IsLeast, Earlier
<1>3. CASE ~ (e < ne) BY <1>1, <1>3 DEF IsLeast, Earlier
<1> QED BY <1>2, <1>3

\* The live list at the beginning of the walk.
StartList(t, h, lv) == LiveIs(t, bits, h, lv) /\ LiveBut(t, bits, lv, NULL)

LEMMA BladeOnList ==
  ASSUME bits \in Bits, NEW t, GoodTable(t, bits), NEW m, NEW qs, Threads(m, qs), Heads(t, bits, qs),
         NEW h, NEW lv, StartList(t, h, lv), NEW a \in 1 .. Len(lv)
  PROVE  /\ lv[a] \in At(bits) /\ lv[a] # NULL /\ lv[a] \in UsedOf(t, bits) /\ t[lv[a]].ttl \in TTL
         /\ qs[t[lv[a]].ttl] # <<>> /\ t[lv[a]].live_next = After(lv, a)
         /\ \A c \in 1 .. Len(lv) : lv[c] = lv[a] => c = a
<1>1. PICK x, k, n : x = lv[a] /\ k = t[x].ttl /\ n = t[x].head OBVIOUS
<1>2. lv \in Seq(At(bits)) BY DEF StartList, LiveIs, Listed, Simple
<1>3. x \in At(bits) BY <1>1, <1>2, ElementOfSeq
<1>4. x # NULL BY <1>3, NullIsNoBlade
<1>5. x \in In(lv) BY <1>1 DEF In
<1>6. n # NULL BY <1>1, <1>3, <1>4, <1>5 DEF StartList, LiveBut
<1>7. x \in UsedOf(t, bits) /\ k \in TTL /\ qs[k] # <<>> BY <1>1, <1>3, <1>6, HeadOfBlade
<1>8. t[x].live_next = After(lv, a)
  <2>1. LiveNexts(t, bits)[lv[a]] = After(lv, a) BY DEF StartList, LiveIs, Listed
  <2> QED BY <1>1, <1>3, <2>1 DEF LiveNexts
<1>9. \A c \in 1 .. Len(lv) : lv[c] = lv[a] => c = a BY DEF StartList, LiveIs, Listed, Simple
<1> QED BY <1>1, <1>3, <1>4, <1>7, <1>8, <1>9

\* No two blades of the list have the same TTL.
LEMMA NotVisited ==
  ASSUME bits \in Bits, NEW t, GoodTable(t, bits), NEW m, NEW qs, Threads(m, qs), Heads(t, bits, qs),
         NEW h, NEW lv, StartList(t, h, lv), NEW i \in Nat, i < Len(lv)
  PROVE  /\ t[lv[i + 1]].ttl \notin Visited(t, lv, i)
         /\ Visited(t, lv, i + 1) = Visited(t, lv, i) \cup {t[lv[i + 1]].ttl}
<1>1. lv \in Seq(At(bits)) BY DEF StartList, LiveIs, Listed, Simple
<1>2. Len(lv) \in Nat /\ i + 1 \in 1 .. Len(lv) /\ \A a \in 1 .. i : a \in 1 .. Len(lv) /\ a # i + 1
  BY <1>1, LenProperties
<1>3. ASSUME NEW a \in 1 .. i PROVE t[lv[a]].ttl # t[lv[i + 1]].ttl
  <2>1. a \in 1 .. Len(lv) /\ a # i + 1 BY <1>2
  <2>2. PICK x, y : x = lv[a] /\ y = lv[i + 1] OBVIOUS
  <2>3. x \in UsedOf(t, bits) BY <2>1, <2>2, BladeOnList
  <2>4. y \in UsedOf(t, bits) /\ \A c \in 1 .. Len(lv) : lv[c] = lv[i + 1] => c = i + 1
    BY <1>2, <2>2, BladeOnList
  <2>5. x # y BY <2>1, <2>2, <2>4
  <2> QED BY <2>2, <2>3, <2>4, <2>5, OneBladePerTTL
<1>4. 1 .. (i + 1) = (1 .. i) \cup {i + 1} OBVIOUS
<1> QED BY <1>3, <1>4 DEF Visited

\* The walk at time tm begins with table t, head h of live list lv and nodes m.
WalkBegins(t, h, lv, m, qs, tm, due) ==
  /\ bits \in Bits /\ GoodTable(t, bits) /\ KnownTTLs(m)
  /\ Threads(m, qs) /\ Heads(t, bits, qs) /\ StartList(t, h, lv)
  /\ tm \in Nat /\ \A k \in TTL : DueHeads(qs[k], m, tm, due[k])

\* v once i blades are done: the state of its blades K, and where it goes on.
BladesDone(t, m, qs, due, collect, v, K) ==
  /\ Walked(t, v)
  /\ Mirrors(v.tab, bits, v.live_head, v.node, LeftOf(qs, due, K))
  /\ LeftSince(m, v, GoneOf(qs, due, K), collect)
  /\ IsLeast(v.ne, {UINT64_MAX} \cup HeadTimes(qs, due, m, K))
GoesOn(lv, v, i) ==
  /\ v.b = (IF i = Len(lv) THEN NULL ELSE lv[i + 1])
  /\ \A a \in (i + 1) .. Len(lv) : v.tab[lv[a]].live_next = After(lv, a)

AheadNext(lv, u, i) == \A a \in (i + 2) .. Len(lv) : u[lv[a]].live_next = After(lv, a)

\* The blades ahead of the walk keep their next when x leaves the live list.
LEMMA AheadKeepNext ==
  ASSUME bits \in Bits, NEW t, GoodTable(t, bits), NEW m, NEW qs, Threads(m, qs), Heads(t, bits, qs),
         NEW h, NEW lv, StartList(t, h, lv),
         NEW i \in Nat, i < Len(lv), NEW v, GoesOn(lv, v, i), NEW x, x = lv[i + 1],
         NEW g, NEW l, LiveIs(v.tab, bits, g, l), x \in In(l),
         NEW u, OthersKeepNext(v.tab, u, bits, x)
  PROVE  AheadNext(lv, u, i)
<1>1. lv \in Seq(At(bits)) BY DEF StartList, LiveIs, Listed, Simple
<1>2. Len(lv) \in Nat /\ i + 1 \in 1 .. Len(lv) BY <1>1, LenProperties
<1>3. \A c \in 1 .. Len(lv) : lv[c] = x => c = i + 1
  <2>1. \A c \in 1 .. Len(lv) : lv[c] = lv[i + 1] => c = i + 1 BY <1>2, BladeOnList
  <2> QED BY <2>1
<1>4. PICK p : p = v.tab[x].live_prev OBVIOUS
<1>5. p # NULL => p \in At(bits) /\ v.tab[p].live_next = x
  <2>1. PICK c \in 1 .. Len(l) : x = l[c] BY DEF In
  <2>2. PICK tb : tb = v.tab OBVIOUS
  <2>3. tb[x].live_prev # NULL => tb[x].live_prev \in At(bits) /\ tb[tb[x].live_prev].live_next = x
    BY <2>1, <2>2, LiveNeighbours
  <2> QED BY <1>4, <2>2, <2>3
<1>6. ASSUME NEW a \in (i + 2) .. Len(lv) PROVE u[lv[a]].live_next = After(lv, a)
  <2>1. a \in 1 .. Len(lv) /\ a \in (i + 1) .. Len(lv) /\ a # i + 1 BY <1>2
  <2>2. PICK y : y = lv[a] OBVIOUS
  <2>3. y \in At(bits) /\ y # NULL BY <2>1, <2>2, BladeOnList
  <2>4. y # x BY <1>3, <2>1, <2>2
  <2>5. v.tab[y].live_next = After(lv, a) BY <2>1, <2>2 DEF GoesOn
  <2>6. After(lv, a) # x
    <3>1. CASE a = Len(lv)
      <4>1. x # NULL BY <1>2, BladeOnList
      <4> QED BY <3>1, <4>1 DEF After
    <3>2. CASE a # Len(lv)
      <4>1. a + 1 \in 1 .. Len(lv) /\ a + 1 # i + 1 BY <1>2, <2>1, <3>2
      <4>2. lv[a + 1] # x BY <1>3, <4>1
      <4> QED BY <3>2, <4>2 DEF After
    <3> QED BY <3>1, <3>2
  <2>7. y # p BY <1>5, <2>3, <2>5, <2>6
  <2> QED BY <1>4, <2>2, <2>3, <2>4, <2>5, <2>7 DEF OthersKeepNext
<1> QED BY <1>6 DEF AheadNext

LEMMA VisitOne ==
  ASSUME NEW t, NEW h, NEW lv, NEW m, NEW qs, NEW tm, NEW due, WalkBegins(t, h, lv, m, qs, tm, due),
         NEW collect, NEW i \in Nat, i < Len(lv), NEW v,
         BladesDone(t, m, qs, due, collect, v, Visited(t, lv, i)), GoesOn(lv, v, i),
         NEW r, r = Walking(tm, collect)[v]
  PROVE  BladesDone(t, m, qs, due, collect, r, Visited(t, lv, i + 1)) /\ GoesOn(lv, r, i + 1)
<1>1. /\ bits \in Bits /\ GoodTable(t, bits) /\ KnownTTLs(m) /\ Threads(m, qs) /\ Heads(t, bits, qs)
      /\ StartList(t, h, lv) /\ tm \in Nat
  BY DEF WalkBegins
<1>2. lv \in Seq(At(bits)) BY <1>1 DEF StartList, LiveIs, Listed, Simple
<1>3. Len(lv) \in Nat /\ i + 1 \in 1 .. Len(lv) /\ i # Len(lv) BY <1>2, LenProperties
<1>4. PICK x, k : x = lv[i + 1] /\ k = t[x].ttl OBVIOUS
<1>5. /\ x \in At(bits) /\ x # NULL /\ x \in UsedOf(t, bits) /\ k \in TTL /\ qs[k] # <<>>
      /\ t[x].live_next = After(lv, i + 1)
  <2>1. PICK a \in 1 .. Len(lv) : a = i + 1 BY <1>3
  <2>2. /\ lv[a] \in At(bits) /\ lv[a] # NULL /\ lv[a] \in UsedOf(t, bits) /\ t[lv[a]].ttl \in TTL
        /\ qs[t[lv[a]].ttl] # <<>> /\ t[lv[a]].live_next = After(lv, a)
    BY <1>1, BladeOnList
  <2> QED BY <1>4, <2>1, <2>2
<1>6. PICK K, K1 : K = Visited(t, lv, i) /\ K1 = Visited(t, lv, i + 1) OBVIOUS
<1>7. k \notin K /\ K1 = K \cup {k} BY <1>1, <1>4, <1>6, NotVisited
<1>8. PICK qi, qj, G, G1, d, q :
        /\ qi = LeftOf(qs, due, K) /\ qj = LeftOf(qs, due, K1) /\ d = due[k] /\ q = Dropped(qs[k], d)
        /\ G = GoneOf(qs, due, K) /\ G1 = GoneOf(qs, due, K1)
  OBVIOUS
<1>9. /\ GoesTo(qi, qj, k, q) /\ qi[k] = qs[k] /\ G1 = G \cup Gone(qs[k], d)
      /\ HeadTimes(qs, due, m, K1) =
           HeadTimes(qs, due, m, K) \cup (IF q = <<>> THEN {} ELSE {m[q[1]].expiration})
  <2>1. /\ GoesTo(LeftOf(qs, due, K), LeftOf(qs, due, K1), k, q)
        /\ LeftOf(qs, due, K)[k] = qs[k]
        /\ GoneOf(qs, due, K1) = GoneOf(qs, due, K) \cup Gone(qs[k], due[k])
        /\ HeadTimes(qs, due, m, K1) =
             HeadTimes(qs, due, m, K) \cup (IF q = <<>> THEN {} ELSE {m[q[1]].expiration})
    <3>1. k \in TTL /\ Joins(K, K1, k) /\ IsLeft(qs, due, k, q) BY <1>5, <1>7, <1>8 DEF Joins, IsLeft
    <3>2. OneMore(qs, due, m, K, K1, k, q) BY <3>1, OneMoreBlade
    <3> QED BY <3>2 DEF OneMore
  <2> QED BY <1>8, <2>1
<1>10. /\ Walked(t, v) /\ Mirrors(v.tab, bits, v.live_head, v.node, qi) /\ LeftSince(m, v, G, collect)
       /\ IsLeast(v.ne, {UINT64_MAX} \cup HeadTimes(qs, due, m, K))
  BY <1>6, <1>8 DEF BladesDone
<1>11. v \in Walk /\ SameKeys(t, v.tab, bits) BY <1>10 DEF Walked
<1>12. v.b = x /\ v.tab[x].live_next = After(lv, i + 1)
  <2>1. i + 1 \in (i + 1) .. Len(lv) BY <1>3
  <2> QED BY <1>3, <1>4, <2>1 DEF GoesOn
<1>13. Keyed(v.tab, v.b, k) BY <1>4, <1>5, <1>11, <1>12 DEF SameKeys, Keyed, UsedOf
<1>14. DueHeads(qs[k], m, tm, d) /\ d \in 0 .. Len(qs[k]) BY <1>5, <1>8 DEF WalkBegins, DueHeads
\* the nodes that are due leave
<1>15. PICK p : p = Iterate(Popping(tm, collect), v, Cardinality(Node)) OBVIOUS
<1>16. Walked(t, p) /\ Draining(v, p, qi, k, d) /\ LeftSince(m, p, G1, collect)
  <2>1. /\ bits \in Bits /\ GoodTable(t, bits) /\ Walked(t, v) /\ v.b # NULL
        /\ Threads(v.node, qi) /\ Heads(v.tab, bits, qi) /\ Keyed(v.tab, v.b, k)
        /\ LeftSince(m, v, G, collect) /\ tm \in Nat /\ DueHeads(qi[k], m, tm, d)
    BY <1>1, <1>5, <1>9, <1>10, <1>12, <1>13, <1>14 DEF Mirrors
  <2>2. Walked(t, p) /\ Draining(v, p, qi, k, d) /\ LeftSince(m, p, G \cup Gone(qi[k], d), collect)
    BY <1>15, <2>1, DrainAll
  <2> QED BY <1>9, <2>2
\* then the blade is empty, or its head counts
<1>17. PICK z : z = Popped(p) OBVIOUS
<1>18. Walked(t, z) /\ Mirrors(z.tab, bits, z.live_head, z.node, qj) /\ DoneWith(v, p, z, q)
  <2>1. /\ bits \in Bits /\ GoodTable(t, bits) /\ Walked(t, v) /\ v.b # NULL
        /\ Mirrors(v.tab, bits, v.live_head, v.node, qi) /\ k \in TTL /\ Keyed(v.tab, v.b, k)
        /\ qi[k] # <<>> /\ d \in 0 .. Len(qi[k]) /\ Walked(t, p) /\ Draining(v, p, qi, k, d)
        /\ q = Dropped(qi[k], d) /\ GoesTo(qi, qj, k, q) /\ z = Popped(p)
    BY <1>1, <1>5, <1>8, <1>9, <1>10, <1>12, <1>13, <1>14, <1>16, <1>17
  <2> QED BY <2>1, BladeDone
<1>19. LeftSince(m, z, G1, collect) BY <1>16, <1>18 DEF LeftSince, DoneWith, HandedOver
<1>20. IsLeast(z.ne, {UINT64_MAX} \cup HeadTimes(qs, due, m, K1))
  <2>1. PICK S : S = {UINT64_MAX} \cup HeadTimes(qs, due, m, K) OBVIOUS
  <2>2. CASE q = <<>>
    <3>1. z.ne = v.ne BY <1>18, <2>2 DEF DoneWith
    <3> QED BY <1>9, <1>10, <2>2, <3>1
  <2>3. CASE q # <<>>
    <3>1. q[1] \in Node
      <4>1. qs[k] \in Seq(Node) BY <1>1, <1>5 DEF Threads
      <4>2. q \in Seq(Node) BY <1>8, <1>14, <4>1, SeqDrop DEF Dropped
      <4>3. Len(q) \in Nat /\ 1 \in 1 .. Len(q) BY <2>3, <4>2, EmptySeq, LenProperties
      <4> QED BY <4>2, <4>3, ElementOfSeq
    <3>2. PICK e : e = m[q[1]].expiration OBVIOUS
    <3>3. e \in Nat /\ p.node[q[1]].expiration = e
      <4>1. SameTimers(m, p.node) BY <1>16 DEF LeftSince
      <4>2. m[q[1]] \in lawn2_timer BY <1>1, <3>1 DEF KnownTTLs
      <4> QED BY <3>1, <3>2, <4>1, <4>2 DEF SameTimers, lawn2_timer
    <3>4. z.ne = Earlier(e, v.ne) BY <1>18, <2>3, <3>3 DEF DoneWith
    <3>5. S \subseteq Nat
      <4>1. ASSUME NEW j \in K, Dropped(qs[j], due[j]) # <<>>
            PROVE  m[Dropped(qs[j], due[j])[1]].expiration \in Nat
        <5>1. j \in TTL
          <6>1. PICK a \in 1 .. i : j = t[lv[a]].ttl BY <1>6 DEF Visited
          <6>2. a \in 1 .. Len(lv) BY <1>3
          <6> QED BY <1>1, <6>1, <6>2, BladeOnList
        <5>2. PICK s : s = Dropped(qs[j], due[j]) OBVIOUS
        <5>3. qs[j] \in Seq(Node) /\ due[j] \in 0 .. Len(qs[j]) BY <1>1, <5>1 DEF Threads, WalkBegins, DueHeads
        <5>4. s \in Seq(Node) BY <5>2, <5>3, SeqDrop DEF Dropped
        <5>5. Len(s) \in Nat /\ 1 \in 1 .. Len(s) BY <4>1, <5>2, <5>4, EmptySeq, LenProperties
        <5>6. s[1] \in Node BY <5>4, <5>5, ElementOfSeq
        <5>7. m[s[1]] \in lawn2_timer BY <1>1, <5>6 DEF KnownTTLs
        <5> QED BY <5>2, <5>7 DEF lawn2_timer
      <4>2. HeadTimes(qs, due, m, K) \subseteq Nat BY <4>1 DEF HeadTimes
      <4>3. UINT64_MAX \in Nat BY LinksAssumption
      <4> QED BY <2>1, <4>2, <4>3
    <3>6. IsLeast(Earlier(e, v.ne), S \cup {e}) BY <1>10, <2>1, <3>3, <3>5, StillLeast
    <3>7. {UINT64_MAX} \cup HeadTimes(qs, due, m, K1) = S \cup {e} BY <1>9, <2>1, <2>3, <3>2
    <3> QED BY <3>4, <3>6, <3>7
  <2> QED BY <2>2, <2>3
\* and the walk goes on
<1>21. PICK nx : nx = After(lv, i + 1) OBVIOUS
<1>22. nx = (IF i + 1 = Len(lv) THEN NULL ELSE lv[i + 2]) /\ nx \in BladePtr(bits)
  <2>1. nx = (IF i + 1 = Len(lv) THEN NULL ELSE lv[(i + 1) + 1]) /\ (i + 1) + 1 = i + 2 BY <1>21 DEF After
  <2>2. i + 1 # Len(lv) => i + 2 \in 1 .. Len(lv) BY <1>3
  <2>3. i + 1 # Len(lv) => lv[i + 2] \in At(bits) BY <1>2, <2>2, ElementOfSeq
  <2> QED BY <2>1, <2>3 DEF BladePtr, At
<1>23. r = [z EXCEPT !.b = nx]
  <2>1. v.b # NULL BY <1>5, <1>12
  <2>2. v.tab[v.b].live_next = nx BY <1>12, <1>21
  <2> QED BY <1>11, <1>15, <1>17, <2>1, <2>2, Zenon DEF Walking
<1>24. /\ r \in Walk /\ r.tab = z.tab /\ r.node = z.node /\ r.live_head = z.live_head /\ r.ne = z.ne
       /\ r.out = z.out /\ r.fired = z.fired /\ r.b = nx
  <2>1. z \in Walk BY <1>18 DEF Walked
  <2> QED BY <1>22, <1>23, <2>1 DEF Walk
<1>25. BladesDone(t, m, qs, due, collect, r, K1)
  <2>1. Walked(t, r) BY <1>18, <1>24 DEF Walked
  <2>2. LeftSince(m, r, G1, collect) BY <1>19, <1>24 DEF LeftSince, HandedOver
  <2> QED BY <1>8, <1>18, <1>20, <1>24, <2>1, <2>2 DEF BladesDone
<1>26. AheadNext(lv, r.tab, i)
  <2>1. PICK l : LiveIs(v.tab, bits, v.live_head, l) /\ LiveBut(v.tab, bits, l, NULL) BY <1>10 DEF Mirrors
  <2>2. x \in In(l)
    <3>1. v.tab[x].head = FirstOf(qi[k]) BY <1>5, <1>10, <1>12, <1>13 DEF Mirrors, Heads, Keyed
    <3>2. FirstOf(qi[k]) # NULL
      <4>1. Threads(v.node, qi) /\ qi[k] # <<>> BY <1>5, <1>9, <1>10 DEF Mirrors
      <4> QED BY <1>5, <4>1, EndsOfBlades
    <3> QED BY <1>5, <2>1, <3>1, <3>2 DEF LiveBut
  <2>3. OthersKeepNext(v.tab, r.tab, bits, x) BY <1>12, <1>18, <1>24 DEF DoneWith
  <2>4. PICK vt, g, u : vt = v.tab /\ g = v.live_head /\ u = r.tab OBVIOUS
  <2>5. LiveIs(vt, bits, g, l) /\ OthersKeepNext(vt, u, bits, x) BY <2>1, <2>3, <2>4
  <2>6. AheadNext(lv, u, i)
    BY <1>1, <1>4, <2>2, <2>4, <2>5, AheadKeepNext
  <2> QED BY <2>4, <2>6
<1>27. GoesOn(lv, r, i + 1)
  <2>1. (i + 1) + 1 = i + 2 OBVIOUS
  <2> QED BY <1>22, <1>24, <1>26, <2>1 DEF GoesOn, AheadNext
<1> QED BY <1>6, <1>25, <1>27

\* Where the walk begins.
Start(t, h, m) == [tab |-> t, live_head |-> h, node |-> m, out |-> NULL, fired |-> 0, ne |-> UINT64_MAX, b |-> h]

LEMMA WalkStarts ==
  ASSUME NEW t, NEW h, NEW lv, NEW m, NEW qs, NEW tm, NEW due, WalkBegins(t, h, lv, m, qs, tm, due),
         h \in BladePtr(bits), NEW collect
  PROVE  /\ Start(t, h, m) \in Walk
         /\ BladesDone(t, m, qs, due, collect, Start(t, h, m), Visited(t, lv, 0))
         /\ GoesOn(lv, Start(t, h, m), 0)
<1>1. /\ bits \in Bits /\ GoodTable(t, bits) /\ KnownTTLs(m) /\ Threads(m, qs) /\ Heads(t, bits, qs)
      /\ StartList(t, h, lv)
  BY DEF WalkBegins
<1>2. t \in Slots(bits) /\ m \in [Node -> lawn2_timer] /\ UINT64_MAX \in Nat /\ NULL \in NodePtr
  BY <1>1, LinksAssumption DEF GoodTable, KnownTTLs, NodePtr
<1>3. PICK v : v = Start(t, h, m) OBVIOUS
<1>4. /\ v \in Walk /\ v.tab = t /\ v.live_head = h /\ v.node = m /\ v.out = NULL /\ v.fired = 0
      /\ v.ne = UINT64_MAX /\ v.b = h
  BY <1>2, <1>3 DEF Start, Walk
<1>5. Visited(t, lv, 0) = {} BY DEF Visited
<1>6. LeftOf(qs, due, {}) = qs
  <2>1. qs \in [TTL -> Seq(Node)] BY <1>1 DEF Threads
  <2> QED BY <2>1 DEF LeftOf
<1>7. GoneOf(qs, due, {}) = {} /\ HeadTimes(qs, due, m, {}) = {} BY DEF GoneOf, HeadTimes
<1>8. Walked(t, v) BY <1>1, <1>2, <1>4, SameKeysItself DEF Walked
<1>9. Mirrors(t, bits, h, m, qs) BY <1>1 DEF Mirrors, StartList
<1>10. LeftSince(m, v, {}, collect)
  <2>1. IsFiniteSet({}) /\ Cardinality({}) = 0 BY FS_EmptySet
  <2>2. SameTimers(m, m) BY <1>2 DEF SameTimers
  <2>3. \A y \in Node : m[y].in_store = (m[y].in_store /\ y \notin {}) BY <1>2, Zenon DEF lawn2_timer
  <2>4. HandedOver(v, {}) BY <1>4, OutNone DEF HandedOver
  <2> QED BY <1>4, <2>1, <2>2, <2>3, <2>4 DEF LeftSince
<1>11. IsLeast(v.ne, {UINT64_MAX} \cup {}) BY <1>2, <1>4 DEF IsLeast
<1>12. BladesDone(t, m, qs, due, collect, v, {}) BY <1>4, <1>6, <1>7, <1>8, <1>9, <1>10, <1>11 DEF BladesDone
<1>13. GoesOn(lv, v, 0)
  <2>1. lv \in Seq(At(bits)) BY <1>1 DEF StartList, LiveIs, Listed, Simple
  <2>2. Len(lv) \in Nat BY <2>1, LenProperties
  <2>3. h = FirstOf(lv) BY <1>1 DEF StartList, LiveIs
  <2>4. \A a \in 1 .. Len(lv) : t[lv[a]].live_next = After(lv, a) BY <1>1, BladeOnList
  <2> QED BY <1>4, <2>2, <2>3, <2>4 DEF GoesOn, FirstOf
<1> QED BY <1>3, <1>4, <1>5, <1>12, <1>13

\* After cap rounds every blade of the list is done.
LEMMA WalkDone ==
  ASSUME NEW t, NEW h, NEW lv, NEW m, NEW qs, NEW tm, NEW due, WalkBegins(t, h, lv, m, qs, tm, due),
         h \in BladePtr(bits), NEW collect,
         NEW r, r = Iterate(Walking(tm, collect), Start(t, h, m), cap)
  PROVE  BladesDone(t, m, qs, due, collect, r, Visited(t, lv, Len(lv)))
<1>1. bits \in Bits /\ Simple(lv, At(bits)) BY DEF WalkBegins, StartList, LiveIs, Listed
<1>2. PICK size \in Nat : size = cap /\ Len(lv) \in Nat /\ Len(lv) <= size
  <2>1. IsFiniteSet(At(bits)) /\ Cardinality(At(bits)) = 2 ^ bits
    <3>1. 2 ^ bits \in Nat /\ 2 ^ bits # 0 BY <1>1, Capacity
    <3>2. 0 \in Int /\ 2 ^ bits - 1 \in Int BY <3>1
    <3>3. /\ IsFiniteSet(0 .. (2 ^ bits - 1))
          /\ Cardinality(0 .. (2 ^ bits - 1)) = IF 0 > 2 ^ bits - 1 THEN 0 ELSE (2 ^ bits - 1) - 0 + 1
      BY <3>2, FS_Interval
    <3> QED BY <3>1, <3>3 DEF At
  <2>2. Len(lv) \in Nat /\ Cardinality(At(bits)) \in Nat /\ Len(lv) <= Cardinality(At(bits))
    BY <1>1, <2>1, ListLength
  <2> QED BY <2>1, <2>2 DEF cap
<1>3. PICK N : N = Len(lv) OBVIOUS
<1> DEFINE at(i) == IF i <= N THEN i ELSE N
           Good(v, i) == BladesDone(t, m, qs, due, collect, v, Visited(t, lv, at(i))) /\ GoesOn(lv, v, at(i))
           P == [i \in Nat |-> {v \in Walk : Good(v, i)}]
           f == Walking(tm, collect)
<1>4. Start(t, h, m) \in P[0]
  <2>1. at(0) = 0 BY <1>2, <1>3
  <2>2. /\ Start(t, h, m) \in Walk /\ BladesDone(t, m, qs, due, collect, Start(t, h, m), Visited(t, lv, 0))
        /\ GoesOn(lv, Start(t, h, m), 0)
    <3>1. WalkBegins(t, h, lv, m, qs, tm, due) /\ h \in BladePtr(bits) OBVIOUS
    <3> HIDE DEF P, f, at, Good
    <3> QED BY <3>1, WalkStarts
  <2> QED BY <2>1, <2>2
<1>5. ASSUME NEW i \in 0 .. (size - 1), NEW v \in P[i] PROVE f[v] \in P[i + 1]
  <2>1. v \in Walk /\ Good(v, i) /\ i \in Nat OBVIOUS
  <2>2. CASE i < N
    <3>1. at(i) = i /\ at(i + 1) = i + 1 /\ i < Len(lv) BY <1>2, <1>3, <2>1, <2>2
    <3>2. PICK z : z = f[v] OBVIOUS
    <3>3. z = Walking(tm, collect)[v] BY <3>2
    <3>4. BladesDone(t, m, qs, due, collect, v, Visited(t, lv, i)) /\ GoesOn(lv, v, i) BY <2>1, <3>1
    <3>5. BladesDone(t, m, qs, due, collect, z, Visited(t, lv, i + 1)) /\ GoesOn(lv, z, i + 1)
      <4> HIDE DEF P, f, at, Good
      <4>1. BladesDone(t, m, qs, due, collect, z, Visited(t, lv, i + 1)) BY <2>1, <3>1, <3>3, <3>4, VisitOne
      <4>2. GoesOn(lv, z, i + 1) BY <2>1, <3>1, <3>3, <3>4, VisitOne
      <4> QED BY <4>1, <4>2
    <3>6. z \in Walk BY <3>5 DEF BladesDone, Walked
    <3>7. Good(z, i + 1) BY <3>1, <3>5
    <3> HIDE DEF f
    <3> QED BY <2>1, <3>2, <3>6, <3>7
  <2>3. CASE ~ (i < N)
    <3>1. at(i) = N /\ at(i + 1) = N BY <1>2, <1>3, <2>1, <2>3
    <3>2. v.b = NULL BY <1>3, <2>1, <3>1 DEF GoesOn
    <3>3. f[v] = v BY <2>1, <3>2, Zenon DEF Walking
    <3>4. Good(v, i + 1) BY <2>1, <3>1
    <3> HIDE DEF f
    <3> QED BY <2>1, <3>3, <3>4
  <2> QED BY <2>2, <2>3
<1> HIDE DEF f, P
<1>6. Iterate(f, Start(t, h, m), size) \in P[size] BY <1>4, <1>5, IteratesThrough
<1>7. at(size) = N BY <1>2, <1>3
<1>8. r \in P[size] BY <1>2, <1>6 DEF f
<1>9. Good(r, size) BY <1>8 DEF P
<1> QED BY <1>3, <1>7, <1>9

(***************************************************************************)
(* collect_expired.                                                         *)
(***************************************************************************)
\* The blades that are not on the list hold nothing.
LEMMA AllVisited ==
  ASSUME NEW t, NEW h, NEW lv, NEW m, NEW qs, NEW tm, NEW due, WalkBegins(t, h, lv, m, qs, tm, due),
         NEW K, K = Visited(t, lv, Len(lv))
  PROVE  /\ LeftOf(qs, due, K) = LeftOf(qs, due, TTL)
         /\ GoneOf(qs, due, K) = GoneOf(qs, due, TTL)
         /\ HeadTimes(qs, due, m, K) = HeadTimes(qs, due, m, TTL)
<1>1. /\ bits \in Bits /\ GoodTable(t, bits) /\ Threads(m, qs) /\ Heads(t, bits, qs) /\ StartList(t, h, lv)
      /\ \A k \in TTL : DueHeads(qs[k], m, tm, due[k])
  BY DEF WalkBegins
<1>2. lv \in Seq(At(bits)) /\ Len(lv) \in Nat
  <2>1. lv \in Seq(At(bits)) BY <1>1 DEF StartList, LiveIs, Listed, Simple
  <2> QED BY <2>1, LenProperties
<1>3. K \subseteq TTL
  <2>1. \A a \in 1 .. Len(lv) : t[lv[a]].ttl \in TTL BY <1>1, BladeOnList
  <2> QED BY <2>1 DEF Visited
<1>4. ASSUME NEW k \in TTL, k \notin K PROVE qs[k] = <<>>
  <2>1. SUFFICES ASSUME qs[k] # <<>> PROVE FALSE OBVIOUS
  <2>2. PICK x \in UsedOf(t, bits) : t[x].ttl = k BY <1>1, <2>1 DEF Heads
  <2>3. x \in At(bits) /\ t[x].used BY <2>2 DEF UsedOf
  <2>4. t[x].head = FirstOf(qs[k]) BY <1>1, <2>2, <2>3 DEF Heads
  <2>5. t[x].head # NULL BY <1>1, <2>1, <2>4, EndsOfBlades
  <2>6. x \in In(lv)
    <3>1. x # NULL BY <2>3, NullIsNoBlade
    <3> QED BY <1>1, <2>3, <2>5, <3>1 DEF StartList, LiveBut
  <2>7. PICK a \in 1 .. Len(lv) : x = lv[a] BY <2>6 DEF In
  <2>8. k \in Visited(t, lv, Len(lv)) BY <2>2, <2>7 DEF Visited
  <2> QED BY <1>4, <2>8
<1>5. ASSUME NEW k \in TTL, k \notin K PROVE Dropped(qs[k], due[k]) = <<>> /\ Gone(qs[k], due[k]) = {} /\ qs[k] = <<>>
  <2>1. qs[k] = <<>> BY <1>4, <1>5
  <2>2. PICK q, d : q = qs[k] /\ d = due[k] OBVIOUS
  <2>3. q = <<>> /\ Len(q) = 0 /\ q \in Seq(Node) BY <2>1, <2>2
  <2>4. d \in 0 .. Len(q) BY <1>1, <2>2 DEF DueHeads
  <2>5. d = 0 BY <2>3, <2>4
  <2>6. Dropped(q, 0) = q /\ Gone(q, 0) = {} BY <2>3, DropNone
  <2> QED BY <2>2, <2>3, <2>5, <2>6
<1>6. LeftOf(qs, due, K) = LeftOf(qs, due, TTL) BY <1>5 DEF LeftOf
<1>7. GoneOf(qs, due, K) = GoneOf(qs, due, TTL)
  <2>1. \A k \in TTL : k \notin K => Gone(qs[k], due[k]) = {} BY <1>5
  <2> QED BY <1>3, <2>1 DEF GoneOf
<1>8. HeadTimes(qs, due, m, K) = HeadTimes(qs, due, m, TTL)
  <2>1. {j \in K : Dropped(qs[j], due[j]) # <<>>} = {j \in TTL : Dropped(qs[j], due[j]) # <<>>} BY <1>3, <1>5
  <2> QED BY <2>1 DEF HeadTimes
<1> QED BY <1>6, <1>7, <1>8

\* The due nodes of every blade leave, and the least head is the next expiry.
LEMMA CollectMirrors ==
  ASSUME TableInv, NEW qs, Mirrors(tab, bits, live_head, node, qs), NEW tm \in Nat, NEW collect,
         NEW due, \A k \in TTL : DueHeads(qs[k], node, tm, due[k]),
         NEW w, w = WalkLive(tm, collect)
  PROVE  /\ Mirrors(w.tab, bits, w.live_head, w.node, LeftOf(qs, due, TTL))
         /\ LeftSince(node, w, GoneOf(qs, due, TTL), collect)
         /\ IsLeast(w.ne, {UINT64_MAX} \cup HeadTimes(qs, due, node, TTL))
<1>1. bits \in Bits /\ GoodTable(tab, bits) /\ KnownTTLs(node) /\ live_head \in BladePtr(bits)
  BY LinksAssumption DEF TableInv, TypesOK, Sound, Bits
<1>2. PICK lv : LiveIs(tab, bits, live_head, lv) /\ LiveBut(tab, bits, lv, NULL) BY DEF Mirrors
<1>3. WalkBegins(tab, live_head, lv, node, qs, tm, due)
  BY <1>1, <1>2 DEF Mirrors, WalkBegins, StartList
<1>4. w = Iterate(Walking(tm, collect), Start(tab, live_head, node), cap) BY Zenon DEF WalkLive, Start
<1>5. PICK K : K = Visited(tab, lv, Len(lv)) OBVIOUS
<1>6. BladesDone(tab, node, qs, due, collect, w, K) BY <1>1, <1>3, <1>4, <1>5, WalkDone
<1>7. /\ LeftOf(qs, due, K) = LeftOf(qs, due, TTL) /\ GoneOf(qs, due, K) = GoneOf(qs, due, TTL)
      /\ HeadTimes(qs, due, node, K) = HeadTimes(qs, due, node, TTL)
  BY <1>3, <1>5, AllVisited
<1> QED BY <1>6, <1>7 DEF BladesDone

\* Each blade has its due nodes.
LEMMA SomeDue ==
  ASSUME NEW m, NEW qs, Threads(m, qs), NEW tm
  PROVE  \E due : \A k \in TTL : DueHeads(qs[k], m, tm, due[k])
<1>1. ASSUME NEW k \in TTL PROVE \E d \in 0 .. Len(qs[k]) : DueHeads(qs[k], m, tm, d)
  <2>1. PICK q : q = qs[k] OBVIOUS
  <2>2. Len(q) \in Nat BY <2>1, LenProperties DEF Threads
  <2>3. PICK good : good = {i \in 1 .. Len(q) : m[q[i]].expiration <= tm} OBVIOUS
  <2>4. PICK d \in 0 .. Len(q) : (\A i \in 1 .. d : i \in good) /\ (d < Len(q) => d + 1 \notin good)
    BY <2>2, LongestPrefix
  <2>5. d < Len(q) => d + 1 \in 1 .. Len(q) BY <2>2
  <2>6. DueHeads(q, m, tm, d) BY <2>3, <2>4, <2>5 DEF DueHeads
  <2> QED BY <2>1, <2>6
<1>2. PICK due : due = [k \in TTL |-> CHOOSE d \in 0 .. Len(qs[k]) : DueHeads(qs[k], m, tm, d)] OBVIOUS
<1>3. \A k \in TTL : DueHeads(qs[k], m, tm, due[k]) BY <1>1, <1>2
<1> QED BY <1>3

(***************************************************************************)
(* The links at all times.                                                  *)
(***************************************************************************)
NoBlades == [k \in TTL |-> <<>>]

LEMMA InitMirrors == Init => Mirrors(tab, bits, live_head, node, NoBlades)
<1> SUFFICES ASSUME Init PROVE Mirrors(tab, bits, live_head, node, NoBlades) OBVIOUS
<1>1. tab = [i \in At(bits) |-> FreeSlot] /\ live_head = NULL /\ node = [n \in Node |-> FreshNode]
  BY DEF Init, At
<1>2. \A k \in TTL : NoBlades[k] = <<>> BY DEF NoBlades
<1>3. Len(<<>>) = 0 /\ In(<<>>) = {} /\ FirstOf(<<>>) = NULL /\ LastOf(<<>>) = NULL
  BY DEF In, FirstOf, LastOf
<1>4. ASSUME NEW D, NEW nx, NEW pv PROVE <<>> \in Seq(D) /\ Listed(<<>>, D, nx, pv)
  BY <1>3 DEF Listed, Simple
<1>5. NoBlades \in [TTL -> Seq(Node)] BY <1>4 DEF NoBlades
<1>6. \A n \in Node : ~node[n].in_store BY <1>1 DEF FreshNode
<1>7. Threads(node, NoBlades) BY <1>2, <1>3, <1>4, <1>5, <1>6 DEF Threads
<1>8. \A x \in At(bits) : ~tab[x].used /\ tab[x].head = NULL BY <1>1 DEF FreeSlot
<1>9. Heads(tab, bits, NoBlades) BY <1>2, <1>8 DEF Heads
<1>10. LiveIs(tab, bits, live_head, <<>>) /\ LiveBut(tab, bits, <<>>, NULL)
  BY <1>1, <1>3, <1>4, <1>8 DEF LiveIs, LiveBut
<1> QED BY <1>7, <1>9, <1>10 DEF Mirrors

MirrorInv == TableInv /\ \E qs : Mirrors(tab, bits, live_head, node, qs)

\* A node that is in store is at some place of its blade.
LEMMA PlaceOf ==
  ASSUME NEW m, NEW qs, Threads(m, qs), NEW n \in Node, m[n].in_store, NEW k, k = m[n].ttl, k \in TTL
  PROVE  \E a \in 1 .. Len(qs[k]) : n = qs[k][a]
<1>1. n \in In(qs[k]) BY DEF Threads
<1> QED BY <1>1 DEF In

LEMMA CollectKeepsLinks ==
  ASSUME MirrorInv, NEW tm \in Nat, NEW collect, collect_expired(tm, collect), bits' = bits
  PROVE  \E qs : Mirrors(tab', bits', live_head', node', qs)
<1>1. PICK qs : Mirrors(tab, bits, live_head, node, qs) BY DEF MirrorInv
<1>2. CASE UNCHANGED <<tab, live_head, node>> BY <1>1, <1>2
<1>3. CASE ~UNCHANGED <<tab, live_head, node>>
  <2>1. PICK w : w = WalkLive(tm, collect) OBVIOUS
  <2>2. tab' = w.tab /\ live_head' = w.live_head /\ node' = w.node
    BY <1>3, <2>1, Zenon DEF collect_expired
  <2>3. PICK due : \A k \in TTL : DueHeads(qs[k], node, tm, due[k]) BY <1>1, SomeDue DEF Mirrors
  <2>4. Mirrors(w.tab, bits, w.live_head, w.node, LeftOf(qs, due, TTL))
    BY <1>1, <2>1, <2>3, CollectMirrors DEF MirrorInv
  <2> QED BY <2>2, <2>4
<1> QED BY <1>2, <1>3

LEMMA MirrorInvNext == MirrorInv /\ [Next]_vars => MirrorInv'
<1> SUFFICES ASSUME MirrorInv, [Next]_vars PROVE \E qs : Mirrors(tab', bits', live_head', node', qs)
  BY TableInvNext DEF MirrorInv
<1>1. TableInv BY DEF MirrorInv
<1>2. PICK qs : Mirrors(tab, bits, live_head, node, qs) BY DEF MirrorInv
<1>3. ASSUME NEW n \in Node, NEW k \in TTL, ~node[n].in_store, lawn2_add(n, k)
      PROVE  \E r : Mirrors(tab', bits', live_head', node', r)
  <2>1. Mirrors(tab', bits', live_head', node', With(qs, k, Behind(qs[k], n))) BY <1>1, <1>2, <1>3, AddMirrors
  <2> QED BY <2>1
<1>4. ASSUME NEW n \in Node, lawn2_del(n) PROVE \E r : Mirrors(tab', bits', live_head', node', r)
  <2>1. CASE ~node[n].in_store
    <3>1. tab' = tab /\ bits' = bits /\ live_head' = live_head /\ node' = node
      BY <1>4, <2>1, Zenon DEF lawn2_del
    <3> QED BY <1>2, <3>1
  <2>2. CASE node[n].in_store
    <3>1. PICK k : k = node[n].ttl OBVIOUS
    <3>2. k \in TTL BY <1>1, <2>2, <3>1 DEF TableInv, TypesOK, KnownTTLs
    <3>3. PICK a \in 1 .. Len(qs[k]) : n = qs[k][a] BY <1>2, <2>2, <3>1, <3>2, PlaceOf DEF Mirrors
    <3>4. Mirrors(tab', bits', live_head', node', With(qs, k, TakenOut(qs[k], a)))
      BY <1>1, <1>2, <1>4, <3>2, <3>3, DelMirrors
    <3> QED BY <3>4
  <2> QED BY <2>1, <2>2
<1>5. ASSUME NEW collect, now < MaxNow, lawn2_tick(collect) PROVE \E r : Mirrors(tab', bits', live_head', node', r)
  <2>1. now' = Add64(now, 1) /\ collect_expired(now', collect) /\ bits' = bits BY <1>5, Zenon DEF lawn2_tick
  <2>2. now' \in Nat BY <1>1, <2>1, LinksAssumption DEF Add64, TableInv, TypesOK
  <2>3. PICK tm : tm = now' OBVIOUS
  <2>4. collect_expired(tm, collect) BY <2>1, <2>3, Zenon
  <2> QED BY <2>1, <2>2, <2>3, <2>4, CollectKeepsLinks
<1>6. ASSUME NEW target \in 0 .. MaxNow, NEW collect, lawn2_advance(target, collect)
      PROVE  \E r : Mirrors(tab', bits', live_head', node', r)
  <2>1. bits' = bits BY <1>6, Zenon DEF lawn2_advance
  <2>2. CASE UNCHANGED <<tab, live_head, node>> BY <1>2, <2>1, <2>2
  <2>3. CASE ~UNCHANGED <<tab, live_head, node>>
    <3>1. collect_expired(target, collect) BY <1>6, <2>3, Zenon DEF lawn2_advance
    <3>2. target \in Nat BY LinksAssumption
    <3> QED BY <2>1, <3>1, <3>2, CollectKeepsLinks
  <2> QED BY <2>2, <2>3
<1>7. ASSUME NEW target, lawn2_set_now(target) PROVE \E r : Mirrors(tab', bits', live_head', node', r)
  <2>1. UNCHANGED <<bits, tab, live_head, node>> BY <1>7, Zenon DEF lawn2_set_now
  <2> QED BY <1>2, <2>1
<1>8. CASE UNCHANGED vars BY <1>2, <1>8 DEF vars
<1> QED BY <1>3, <1>4, <1>5, <1>6, <1>7, <1>8, Zenon DEF Next

\* What following the links reads.
LEMMA BladesAreRead ==
  ASSUME NEW m, NEW qs, Threads(m, qs), NEW t, NEW b, Heads(t, b, qs), NEW x \in At(b), t[x].used, t[x].ttl \in TTL
  PROVE  /\ Follow(t[x].head, Nexts(m)) = qs[t[x].ttl]
         /\ Follow(t[x].tail, Prevs(m)) = Reversed(qs[t[x].ttl])
<1>1. PICK k, s, nx, pv : k = t[x].ttl /\ s = qs[k] /\ nx = Nexts(m) /\ pv = Prevs(m) OBVIOUS
<1>2. Listed(s, Node, nx, pv) BY <1>1 DEF Threads
<1>3. t[x].head = FirstOf(s) /\ t[x].tail = LastOf(s) BY <1>1 DEF Heads
<1>4. DOMAIN nx = Node /\ DOMAIN pv = Node BY <1>1 DEF Nexts, Prevs
<1>5. PICK h, e : h = t[x].head /\ e = t[x].tail OBVIOUS
<1>6. IsFiniteSet(Node) /\ NULL \notin Node BY LinksAssumption
<1>7. Follow(h, nx) = s /\ Follow(e, pv) = Reversed(s) BY <1>2, <1>3, <1>4, <1>5, <1>6, ListFollowed
<1> QED BY <1>1, <1>5, <1>7

LEMMA LiveListIsRead ==
  ASSUME NEW t, NEW b \in Bits, NEW h, NEW lv, LiveIs(t, b, h, lv)
  PROVE  Follow(h, LiveNexts(t, b)) = lv
<1>1. PICK nx, pv : nx = LiveNexts(t, b) /\ pv = LivePrevs(t, b) OBVIOUS
<1>2. Listed(lv, At(b), nx, pv) /\ h = FirstOf(lv) BY <1>1 DEF LiveIs
<1>3. DOMAIN nx = At(b) /\ DOMAIN pv = At(b) BY <1>1 DEF LiveNexts, LivePrevs
<1>4. IsFiniteSet(At(b)) /\ NULL \notin At(b)
  <2>1. 2 ^ b \in Nat BY Capacity
  <2>2. 0 \in Int /\ 2 ^ b - 1 \in Int BY <2>1
  <2> QED BY <2>2, FS_Interval, NullIsNoBlade DEF At
<1>5. Follow(h, nx) = lv BY <1>2, <1>3, <1>4, ListFollowed
<1> QED BY <1>1, <1>5

LEMMA MirrorInvImplies == MirrorInv => LinksMirror
<1> SUFFICES ASSUME MirrorInv PROVE LinksMirror OBVIOUS
<1>1. bits \in Bits /\ GoodTable(tab, bits) BY LinksAssumption DEF MirrorInv, TableInv, TypesOK, Sound, Bits
<1>2. PICK qs : Mirrors(tab, bits, live_head, node, qs) BY DEF MirrorInv
<1>3. Threads(node, qs) /\ Heads(tab, bits, qs) BY <1>2 DEF Mirrors
<1>4. DOMAIN tab = At(bits) BY <1>1 DEF GoodTable, Slots, At
<1>5. NextOf = Nexts(node) /\ PrevOf = Prevs(node) BY DEF NextOf, PrevOf, Nexts, Prevs
<1>6. LiveNextOf = LiveNexts(tab, bits) BY <1>4 DEF LiveNextOf, LiveNexts
<1>7. BladeLinksMirror
  <2> SUFFICES ASSUME NEW x \in Used PROVE Follow(tab[x].tail, PrevOf) = Reversed(Blade(x)) BY DEF BladeLinksMirror
  <2>1. x \in At(bits) /\ tab[x].used /\ x \in UsedOf(tab, bits) BY <1>4 DEF Used, UsedOf
  <2>2. tab[x].ttl \in TTL BY <1>1, <2>1 DEF GoodTable
  <2>3. /\ Follow(tab[x].head, Nexts(node)) = qs[tab[x].ttl]
        /\ Follow(tab[x].tail, Prevs(node)) = Reversed(qs[tab[x].ttl])
    BY <1>3, <2>1, <2>2, BladesAreRead
  <2> QED BY <1>5, <2>3 DEF Blade
<1>8. LiveLinksMirror
  <2>1. PICK lv : LiveIs(tab, bits, live_head, lv) /\ LiveBut(tab, bits, lv, NULL) BY <1>2 DEF Mirrors
  <2>2. LiveList = lv BY <1>1, <1>6, <2>1, LiveListIsRead DEF LiveList
  <2>3. lv \in Seq(At(bits)) BY <2>1 DEF LiveIs, Listed, Simple
  <2>4. Len(lv) \in Nat /\ DOMAIN lv = 1 .. Len(lv) /\ \A i \in 1 .. Len(lv) : lv[i] \in At(bits)
    BY <2>3, LenProperties, ElementOfSeq
  <2>5. {lv[i] : i \in DOMAIN lv} = {x \in DOMAIN tab : tab[x].head # NULL}
    <3>1. {lv[i] : i \in DOMAIN lv} = In(lv) BY <2>4 DEF In
    <3>2. \A x \in At(bits) : x # NULL BY NullIsNoBlade
    <3>3. In(lv) \subseteq At(bits) BY <2>4 DEF In
    <3>4. \A x \in At(bits) : x \in In(lv) <=> tab[x].head # NULL BY <2>1, <3>2 DEF LiveBut
    <3> QED BY <1>4, <3>1, <3>3, <3>4
  <2>6. ASSUME NEW i \in 1 .. Len(lv) PROVE tab[lv[i]].live_prev = IF i = 1 THEN NULL ELSE lv[i - 1]
    <3>1. LivePrevs(tab, bits)[lv[i]] = Before(lv, i) BY <2>1 DEF LiveIs, Listed
    <3> QED BY <2>4, <3>1 DEF LivePrevs, Before
  <2> QED BY <2>2, <2>4, <2>5, <2>6 DEF LiveLinksMirror
<1> QED BY <1>7, <1>8 DEF LinksMirror

\* A good table, and blades that its links, the nodes' and the live list's
\* thread in both directions, at all times.
THEOREM Lawn2MirrorInvariant == Spec => []MirrorInv
<1>1. Init => MirrorInv BY TableInvInit, InitMirrors DEF MirrorInv
<1>2. MirrorInv /\ [Next]_vars => MirrorInv' BY MirrorInvNext
<1> QED BY <1>1, <1>2, PTL DEF Spec

\* Read from either end, each blade and the live list are the same sequence
\* (the next and prev of lawn2_timer, live_next and live_prev of blade_t in
\* src/src/lawn2.c), after any calls of add, del, tick, advance and set_now.
THEOREM Lawn2LinksMirror == Spec => []LinksMirror
<1> QED BY Lawn2MirrorInvariant, MirrorInvImplies, PTL

(***************************************************************************)
(* The refinement: what the links of a state stand for.                     *)
(***************************************************************************)
\* The blades and the live list read from a table of 2^b slots and nodes m.
QueuesRead(t, b, m) ==
  [k \in TTL |-> LET x == find_slot(t, b, k) IN IF t[x].used THEN Follow(t[x].head, Nexts(m)) ELSE <<>>]
LiveRead(t, b, h) ==
  LET l == Follow(h, LiveNexts(t, b)) IN {t[l[i]].ttl : i \in DOMAIN l}
Nonempty(qs) == {k \in TTL : qs[k] # <<>>}

LEMMA LinksAreRead ==
  ASSUME NEW b \in Bits, NEW t, NEW c \in Nat, Sound(t, b, c), NEW h, NEW m, NEW qs, Mirrors(t, b, h, m, qs)
  PROVE  QueuesRead(t, b, m) = qs /\ LiveRead(t, b, h) = Nonempty(qs)
<1>1. Threads(m, qs) /\ Heads(t, b, qs) /\ GoodTable(t, b) BY DEF Mirrors, Sound
<1>2. \E y \in At(b) : ~t[y].used BY SoundHasRoom
<1>3. qs \in [TTL -> Seq(Node)] BY <1>1 DEF Threads
<1>4. ASSUME NEW k \in TTL, NEW x, x = find_slot(t, b, k)
      PROVE  (IF t[x].used THEN Follow(t[x].head, Nexts(m)) ELSE <<>>) = qs[k]
  <2>1. x \in At(b) /\ (t[x].used => t[x].ttl = k) /\ (qs[k] # <<>> => x \in UsedOf(t, b))
    BY <1>1, <1>2, <1>4, BladeOf
  <2>2. CASE t[x].used
    <3>1. Follow(t[x].head, Nexts(m)) = qs[t[x].ttl]
      <4>1. t[x].ttl \in TTL BY <2>1, <2>2
      <4> QED BY <1>1, <2>1, <2>2, <4>1, BladesAreRead
    <3> QED BY <2>1, <2>2, <3>1
  <2>3. CASE ~t[x].used BY <2>1, <2>3 DEF UsedOf
  <2> QED BY <2>2, <2>3
<1>5. QueuesRead(t, b, m) = [k \in TTL |-> qs[k]] BY <1>4, Zenon DEF QueuesRead
<1>6. QueuesRead(t, b, m) = qs BY <1>3, <1>5
<1>7. PICK lv : LiveIs(t, b, h, lv) /\ LiveBut(t, b, lv, NULL) BY DEF Mirrors
<1>8. lv \in Seq(At(b)) BY <1>7 DEF LiveIs, Listed, Simple
<1>9. DOMAIN lv = 1 .. Len(lv) /\ \A i \in 1 .. Len(lv) : lv[i] \in At(b)
  BY <1>8, LenProperties, ElementOfSeq
<1>10. \A x \in At(b) : x \in In(lv) <=> t[x].head # NULL
  <2>1. \A x \in At(b) : x # NULL BY NullIsNoBlade
  <2> QED BY <1>7, <2>1 DEF LiveBut
<1>11. ASSUME NEW i \in 1 .. Len(lv) PROVE t[lv[i]].ttl \in Nonempty(qs)
  <2>1. PICK x : x = lv[i] OBVIOUS
  <2>2. x \in At(b) /\ t[x].head # NULL BY <1>9, <1>10, <2>1 DEF In
  <2>3. x \in UsedOf(t, b) /\ t[x].ttl \in TTL /\ qs[t[x].ttl] # <<>> BY <1>1, <2>2, HeadOfBlade
  <2> QED BY <2>1, <2>3 DEF Nonempty
<1>12. ASSUME NEW k \in Nonempty(qs) PROVE \E i \in 1 .. Len(lv) : t[lv[i]].ttl = k
  <2>1. k \in TTL /\ qs[k] # <<>> BY DEF Nonempty
  <2>2. PICK x \in UsedOf(t, b) : t[x].ttl = k BY <1>1, <2>1 DEF Heads
  <2>3. x \in At(b) /\ t[x].head = FirstOf(qs[k]) BY <1>1, <2>2 DEF Heads, UsedOf
  <2>4. FirstOf(qs[k]) # NULL BY <1>1, <2>1, EndsOfBlades
  <2>5. x \in In(lv) BY <1>10, <2>3, <2>4
  <2> QED BY <2>2, <2>5 DEF In
<1>13. {t[lv[i]].ttl : i \in 1 .. Len(lv)} = Nonempty(qs) BY <1>11, <1>12
<1>14. Follow(h, LiveNexts(t, b)) = lv BY <1>7, LiveListIsRead
<1>15. LiveRead(t, b, h) = Nonempty(qs) BY <1>9, <1>13, <1>14 DEF LiveRead
<1> QED BY <1>6, <1>15

\* The list of nodes handed out, read from x.
OutRead(m, x) == LET l == Follow(x, Nexts(m)) IN {l[i] : i \in DOMAIN l}

LEMMA OutIsRead ==
  ASSUME NEW m, NEW x, NEW os, OutIs(m, x, os)
  PROVE  OutRead(m, x) = In(os)
<1>1. PICK pv : Listed(os, Node, Nexts(m), pv) BY DEF OutIs
<1>2. PICK nx : nx = Nexts(m) OBVIOUS
<1>3. x = FirstOf(os) /\ Simple(os, Node) /\ \A i \in 1 .. Len(os) : nx[os[i]] = After(os, i)
  BY <1>1, <1>2 DEF OutIs, Listed
<1>4. DOMAIN nx = Node /\ IsFiniteSet(Node) /\ NULL \notin Node BY <1>2, LinksAssumption DEF Nexts
<1>5. Follow(x, nx) = os BY <1>3, <1>4, FollowSpells
<1>6. DOMAIN os = 1 .. Len(os) BY <1>3, LenProperties DEF Simple
<1> QED BY <1>2, <1>5, <1>6 DEF OutRead, In

LEMMA NoneIsRead == ASSUME NEW m PROVE OutRead(m, NULL) = {}
BY OutNone, OutIsRead

\* The variables of Lawn2.
AQueue == [k \in TTL |-> LET b == find_slot(tab, bits, k) IN IF tab[b].used THEN Blade(b) ELSE <<>>]
ALive == {tab[LiveList[i]].ttl : i \in DOMAIN LiveList}
ATtl == [n \in Node |-> node[n].ttl]
AExp == [n \in Node |-> node[n].expiration]
AIn == [n \in Node |-> node[n].in_store]
AOut == {OutList[i] : i \in DOMAIN OutList}

TTLs(m) == [n \in Node |-> m[n].ttl]
Exps(m) == [n \in Node |-> m[n].expiration]
Ins(m) == [n \in Node |-> m[n].in_store]

LEMMA Reads ==
  /\ AQueue = QueuesRead(tab, bits, node)
  /\ tab \in Slots(bits) => ALive = LiveRead(tab, bits, live_head)
  /\ ATtl = TTLs(node) /\ AExp = Exps(node) /\ AIn = Ins(node)
  /\ AOut = OutRead(node, out_head)
<1>1. NextOf = Nexts(node) BY DEF NextOf, Nexts
<1>2. AQueue = QueuesRead(tab, bits, node) BY <1>1 DEF AQueue, QueuesRead, Blade
<1>3. ASSUME tab \in Slots(bits) PROVE ALive = LiveRead(tab, bits, live_head)
  <2>1. DOMAIN tab = At(bits) BY <1>3 DEF Slots, At
  <2>2. LiveNextOf = LiveNexts(tab, bits) BY <2>1 DEF LiveNextOf, LiveNexts
  <2> QED BY <2>2 DEF ALive, LiveRead, LiveList
<1>4. AOut = OutRead(node, out_head) BY <1>1 DEF AOut, OutRead, OutList
<1> QED BY <1>2, <1>3, <1>4 DEF ATtl, AExp, AIn, TTLs, Exps, Ins

LEMMA ReadsNext ==
  /\ AQueue' = QueuesRead(tab', bits', node')
  /\ tab' \in Slots(bits') => ALive' = LiveRead(tab', bits', live_head')
  /\ ATtl' = TTLs(node') /\ AExp' = Exps(node') /\ AIn' = Ins(node')
  /\ AOut' = OutRead(node', out_head')
<1>1. NextOf' = Nexts(node') BY DEF NextOf, Nexts
<1>2. AQueue' = QueuesRead(tab', bits', node') BY <1>1 DEF AQueue, QueuesRead, Blade
<1>3. ASSUME tab' \in Slots(bits') PROVE ALive' = LiveRead(tab', bits', live_head')
  <2>1. DOMAIN tab' = At(bits') BY <1>3 DEF Slots, At
  <2>2. LiveNextOf' = LiveNexts(tab', bits') BY <2>1 DEF LiveNextOf, LiveNexts
  <2> QED BY <2>2 DEF ALive, LiveRead, LiveList
<1>4. AOut' = OutRead(node', out_head') BY <1>1 DEF AOut, OutRead, OutList
<1> QED BY <1>2, <1>3, <1>4 DEF ATtl, AExp, AIn, TTLs, Exps, Ins

LEMMA AbstractNow ==
  ASSUME TableInv, NEW qs, Mirrors(tab, bits, live_head, node, qs)
  PROVE  AQueue = qs /\ ALive = Nonempty(qs)
<1>1. bits \in Bits /\ count \in Nat /\ Sound(tab, bits, count) /\ tab \in Slots(bits)
  BY LinksAssumption DEF TableInv, TypesOK, Bits
<1>2. QueuesRead(tab, bits, node) = qs /\ LiveRead(tab, bits, live_head) = Nonempty(qs)
  BY <1>1, LinksAreRead
<1> QED BY <1>1, <1>2, Reads

LEMMA AbstractNext ==
  ASSUME TableInv', NEW qs, Mirrors(tab', bits', live_head', node', qs)
  PROVE  AQueue' = qs /\ ALive' = Nonempty(qs)
<1>1. PICK t, b, c, h, m : t = tab' /\ b = bits' /\ c = count' /\ h = live_head' /\ m = node' OBVIOUS
<1>2. b \in Bits /\ c \in Nat /\ Sound(t, b, c) /\ t \in Slots(b)
  <2>1. bits' \in Bits /\ count' \in Nat /\ Sound(tab', bits', count') /\ tab' \in Slots(bits')
    BY LinksAssumption DEF TableInv, TypesOK, Bits
  <2> QED BY <1>1, <2>1
<1>3. Mirrors(t, b, h, m, qs) BY <1>1
<1>4. QueuesRead(t, b, m) = qs /\ LiveRead(t, b, h) = Nonempty(qs) BY <1>2, <1>3, LinksAreRead
<1> QED BY <1>1, <1>2, <1>4, ReadsNext

(***************************************************************************)
(* Each call of Lawn2Links is that call of Lawn2.                           *)
(***************************************************************************)
LEMMA InitIsInit == Init => L2!Init
<1> SUFFICES ASSUME Init PROVE L2!Init OBVIOUS
<1>1. AQueue = NoBlades /\ ALive = Nonempty(NoBlades) BY TableInvInit, InitMirrors, AbstractNow
<1>2. AQueue = [k \in TTL |-> <<>>] /\ ALive = {} BY <1>1 DEF NoBlades, Nonempty
<1>3. AOut = {} BY Reads, NoneIsRead DEF Init
<1>4. ATtl = [n \in Node |-> 0] /\ AExp = [n \in Node |-> 0] /\ AIn = [n \in Node |-> FALSE]
  BY DEF Init, ATtl, AExp, AIn, FreshNode
<1>5. now = 0 /\ live = 0 /\ next_expiration = UINT64_MAX BY DEF Init
<1> QED BY <1>2, <1>3, <1>4, <1>5, Zenon DEF L2!Init, AQueue, ALive, AOut, ATtl, AExp, AIn

LEMMA AddIsAdd ==
  ASSUME TableInv, NEW qs, Mirrors(tab, bits, live_head, node, qs),
         NEW n \in Node, NEW k \in TTL, ~node[n].in_store, now + k <= UINT64_MAX, lawn2_add(n, k)
  PROVE  L2!ClientAdd(n, k)
<1>1. AQueue = qs /\ ALive = Nonempty(qs) BY AbstractNow
<1>2. TableInv' BY AddKeeps
<1>3. PICK qs1 : qs1 = With(qs, k, Behind(qs[k], n)) OBVIOUS
<1>4. /\ Mirrors(tab', bits', live_head', node', qs1)
      /\ SameTimesBut(node, node', n)
      /\ node'[n].ttl = k /\ node'[n].in_store /\ node'[n].expiration = Add64(now, k)
  BY <1>3, AddMirrors
<1>5. AQueue' = qs1 /\ ALive' = Nonempty(qs1) BY <1>2, <1>4, AbstractNext
<1>6. AQueue' = [AQueue EXCEPT ![k] = L2!Enqueue(@, n)]
  <2>1. qs \in [TTL -> Seq(Node)] BY DEF Mirrors, Threads
  <2> QED BY <1>1, <1>3, <1>5, <2>1 DEF With, Behind, L2!Enqueue
<1>7. ALive' = IF AQueue[k] = <<>> THEN ALive \cup {k} ELSE ALive
  <2>1. qs \in [TTL -> Seq(Node)] BY DEF Mirrors, Threads
  <2>2. PICK q : q = Behind(qs[k], n) OBVIOUS
  <2>3. q # <<>>
    <3>1. PICK s : s = qs[k] OBVIOUS
    <3>2. s \in Seq(Node) BY <2>1, <3>1
    <3>3. Len(q) = Len(s) + 1 /\ Len(s) \in Nat /\ q \in Seq(Node) BY <2>2, <3>1, <3>2, AppendProperties DEF Behind
    <3> QED BY <3>3, EmptySeq
  <2>4. qs1[k] = q /\ \A j \in TTL : j # k => qs1[j] = qs[j] BY <1>3, <2>1, <2>2 DEF With
  <2>5. Nonempty(qs1) = Nonempty(qs) \cup {k} BY <2>3, <2>4 DEF Nonempty
  <2>6. qs[k] # <<>> => k \in Nonempty(qs) BY DEF Nonempty
  <2> QED BY <1>1, <1>5, <2>5, <2>6
<1>8. ATtl' = [ATtl EXCEPT ![n] = k] BY <1>4 DEF ATtl, SameTimesBut
<1>9. AExp' = [AExp EXCEPT ![n] = L2!Expiration(k)]
  <2>1. L2!Expiration(k) = Add64(now, k) BY DEF L2!Expiration, L2!Add64, Add64
  <2> QED BY <1>4, <2>1 DEF AExp, SameTimesBut
<1>10. AIn' = [AIn EXCEPT ![n] = TRUE]
  <2>1. node' \in [Node -> lawn2_timer] BY <1>2 DEF TableInv, TypesOK, KnownTTLs
  <2>2. node'[n].in_store = TRUE BY <1>4, <2>1 DEF lawn2_timer
  <2> QED BY <1>4, <2>2 DEF AIn, SameTimesBut
<1>11. AOut' = {}
  <2>1. out_head' = NULL BY Zenon DEF lawn2_add
  <2> QED BY <2>1, ReadsNext, NoneIsRead
<1>12. live' = live + 1 /\ now' = now BY Zenon DEF lawn2_add
<1>13. next_expiration' = L2!Lowered(next_expiration, L2!Expiration(k))
  <2>1. L2!Expiration(k) = Add64(now, k) BY DEF L2!Expiration, L2!Add64, Add64
  <2>2. next_expiration' = Earlier(Add64(now, k), next_expiration) BY Zenon DEF lawn2_add
  <2> QED BY <2>1, <2>2 DEF Earlier, L2!Lowered
<1>14. ~AIn[n] BY DEF AIn
<1> QED BY <1>6, <1>7, <1>8, <1>9, <1>10, <1>11, <1>12, <1>13, <1>14, Zenon
     DEF L2!ClientAdd, L2!lawn2_add, L2!live_link, AQueue, ALive, AOut, ATtl, AExp, AIn

LEMMA AOutNone == out_head' = NULL => AOut' = {}
BY ReadsNext, NoneIsRead

\* The place that Lawn2 chooses is the only one.
LEMMA UnlinkIsTakenOut ==
  ASSUME NEW q \in Seq(Node), \A i, j \in 1 .. Len(q) : q[i] = q[j] => i = j,
         NEW a \in 1 .. Len(q), NEW n, n = q[a]
  PROVE  L2!Unlink(q, n) = TakenOut(q, a)
<1>1. DOMAIN q = 1 .. Len(q) BY LenProperties
<1>2. (CHOOSE i \in DOMAIN q : q[i] = n) = a BY <1>1
<1> QED BY <1>2 DEF L2!Unlink, TakenOut

LEMMA DelIsDel ==
  ASSUME TableInv, NEW qs, Mirrors(tab, bits, live_head, node, qs), NEW n \in Node, lawn2_del(n)
  PROVE  L2!lawn2_del(n)
<1>1. AQueue = qs /\ ALive = Nonempty(qs) BY AbstractNow
<1>2. TableInv' BY DelKeeps
<1>3. AOut' = {}
  <2>1. out_head' = NULL BY Zenon DEF lawn2_del
  <2> QED BY <2>1, AOutNone
<1>4. CASE ~node[n].in_store
  <2>1. UNCHANGED <<now, live, next_expiration, bits, tab, count, live_head, node>> BY <1>4, Zenon DEF lawn2_del
  <2>2. Mirrors(tab', bits', live_head', node', qs) BY <2>1
  <2>3. AQueue' = AQueue /\ ALive' = ALive BY <1>1, <1>2, <2>2, AbstractNext
  <2>4. ATtl' = ATtl /\ AExp' = AExp /\ AIn' = AIn BY <2>1 DEF ATtl, AExp, AIn
  <2>5. ~AIn[n] BY <1>4 DEF AIn
  <2>6. now' = now /\ live' = live /\ next_expiration' = next_expiration BY <2>1
  <2>7. /\ ~AIn[n] /\ AOut' = {}
        /\ UNCHANGED <<now, <<AQueue, ALive>>, live, next_expiration, <<ATtl, AExp, AIn>>>>
    BY <1>3, <2>3, <2>4, <2>5, <2>6
  <2> QED BY <2>7, Zenon DEF L2!lawn2_del, L2!bladeVars, L2!nodeVars, AQueue, ALive, AOut, ATtl, AExp, AIn
<1>5. CASE node[n].in_store
  <2>1. PICK k : k = node[n].ttl OBVIOUS
  <2>2. k \in TTL BY <1>5, <2>1 DEF TableInv, TypesOK, KnownTTLs
  <2>3. Threads(node, qs) BY DEF Mirrors
  <2>4. PICK a \in 1 .. Len(qs[k]) : n = qs[k][a] BY <1>5, <2>1, <2>2, <2>3, PlaceOf
  <2>5. PICK q, r, qs1 : q = qs[k] /\ r = TakenOut(q, a) /\ qs1 = With(qs, k, r) OBVIOUS
  <2>6. /\ Mirrors(tab', bits', live_head', node', qs1)
        /\ SameTimers(node, node')
        /\ \A y \in Node : node'[y].in_store = (y # n /\ node[y].in_store)
    <3>1. /\ Mirrors(tab', bits', live_head', node', With(qs, k, TakenOut(qs[k], a)))
          /\ SameTimers(node, node')
          /\ \A y \in Node : node'[y].in_store = (y # n /\ node[y].in_store)
      BY <2>2, <2>4, DelMirrors
    <3> QED BY <2>5, <3>1
  <2>7. AQueue' = qs1 /\ ALive' = Nonempty(qs1) BY <1>2, <2>6, AbstractNext
  <2>8. qs \in [TTL -> Seq(Node)] /\ q \in Seq(Node) /\ a \in 1 .. Len(q) /\ n = q[a]
    BY <2>2, <2>3, <2>4, <2>5 DEF Threads
  <2>9. L2!Unlink(q, n) = r
    <3>1. \A i, j \in 1 .. Len(q) : q[i] = q[j] => i = j BY <2>2, <2>3, <2>5 DEF Threads, Listed, Simple
    <3> QED BY <2>5, <2>8, <3>1, UnlinkIsTakenOut
  <2>10. ATtl[n] = k /\ AIn[n] BY <1>5, <2>1 DEF ATtl, AIn
  <2>11. L2!Unlink(AQueue[ATtl[n]], n) = r BY <1>1, <2>5, <2>9, <2>10
  <2>12. AQueue' = [AQueue EXCEPT ![ATtl[n]] = L2!Unlink(AQueue[ATtl[n]], n)]
    BY <1>1, <2>5, <2>7, <2>10, <2>11 DEF With
  <2>13. ALive' = IF L2!Unlink(AQueue[ATtl[n]], n) = <<>> THEN ALive \ {ATtl[n]} ELSE ALive
    <3>1. qs1[k] = r /\ \A j \in TTL : j # k => qs1[j] = qs[j] BY <2>2, <2>5, <2>8 DEF With
    <3>2. q # <<>> BY <2>8
    <3>3. k \in Nonempty(qs) BY <2>2, <2>5, <3>2 DEF Nonempty
    <3>4. Nonempty(qs1) = IF r = <<>> THEN Nonempty(qs) \ {k} ELSE Nonempty(qs)
      BY <3>1, <3>3 DEF Nonempty
    <3> QED BY <1>1, <2>7, <2>10, <2>11, <3>4
  <2>14. ATtl' = ATtl /\ AExp' = AExp BY <2>6 DEF ATtl, AExp, SameTimers
  <2>15. AIn' = [y \in Node |-> AIn[y] /\ y \notin {n}] BY <2>6 DEF AIn
  <2>16. live' = live - Cardinality({n})
    <3>1. live' = Remaining(1) BY <1>5, Zenon DEF lawn2_del
    <3>2. Cardinality({n}) = 1 BY FS_Singleton
    <3> QED BY <3>1, <3>2 DEF Remaining
  <2>17. now' = now /\ next_expiration' = next_expiration BY <1>5, Zenon DEF lawn2_del
  <2>18. AIn' = L2!Cleared({n}) BY <2>15, Zenon DEF L2!Cleared, AIn
  <2>19. live' = L2!Uncounted({n})
    <3>1. L2!Cardinality({n}) = Cardinality({n}) BY DEF L2!Cardinality, Cardinality
    <3> QED BY <2>16, <3>1, Zenon DEF L2!Uncounted
  <2> QED BY <1>3, <2>10, <2>12, <2>13, <2>14, <2>17, <2>18, <2>19, Zenon
       DEF L2!lawn2_del, L2!live_unlink, AQueue, ALive, AOut, ATtl, AExp, AIn
<1> QED BY <1>4, <1>5

\* The inner loop of Lawn2 takes the nodes that are due.
LEMMA ExpiredHeadsIsDue ==
  ASSUME KnownTTLs(node), NEW q \in Seq(Node), NEW tm \in Nat, NEW d, DueHeads(q, node, tm, d)
  PROVE  L2!ExpiredHeads(q, tm) = d /\ L2!Drained(q, tm) = Dropped(q, d)
<1> DEFINE P(c) == /\ \A i \in 1 .. c : L2!Expired(q[i], tm)
                   /\ c < Len(q) => ~L2!Expired(q[c + 1], tm)
<1>1. Len(q) \in Nat BY LenProperties
<1>2. \A i \in 1 .. Len(q) : L2!Expired(q[i], tm) <=> node[q[i]].expiration <= tm
  <2>1. ASSUME NEW i \in 1 .. Len(q) PROVE L2!Expired(q[i], tm) <=> node[q[i]].expiration <= tm
    <3>1. PICK n : n = q[i] OBVIOUS
    <3>2. n \in Node BY <3>1, ElementOfSeq
    <3>3. L2!Expired(n, tm) <=> node[n].expiration <= tm BY <3>2 DEF L2!Expired
    <3> QED BY <3>1, <3>3
  <2> QED BY <2>1
<1>3. P(d)
  <2>1. \A i \in 1 .. d : i \in 1 .. Len(q) BY <1>1 DEF DueHeads
  <2>2. d \in Nat /\ (d < Len(q) => d + 1 \in 1 .. Len(q)) BY <1>1 DEF DueHeads
  <2> HIDE DEF L2!Expired
  <2> QED BY <1>2, <2>1, <2>2 DEF DueHeads
<1>4. ASSUME NEW c \in 0 .. Len(q), P(c) PROVE c = d
  <2>1. d \in 0 .. Len(q) BY DEF DueHeads
  <2>2. ~ (c < d)
    <3>1. SUFFICES ASSUME c < d PROVE FALSE OBVIOUS
    <3>2. c < Len(q) /\ c + 1 \in 1 .. d BY <1>1, <2>1, <3>1
    <3> QED BY <1>3, <1>4, <3>2
  <2>3. ~ (d < c)
    <3>1. SUFFICES ASSUME d < c PROVE FALSE OBVIOUS
    <3>2. d < Len(q) /\ d + 1 \in 1 .. c BY <1>1, <2>1, <3>1
    <3> QED BY <1>3, <1>4, <3>2
  <2> QED BY <1>1, <2>1, <2>2, <2>3
<1>5. L2!ExpiredHeads(q, tm) = CHOOSE c \in 0 .. Len(q) : P(c) BY DEF L2!ExpiredHeads
<1>6. L2!ExpiredHeads(q, tm) = d
  <2>1. d \in 0 .. Len(q) BY DEF DueHeads
  <2> HIDE DEF P
  <2> QED BY <1>3, <1>4, <1>5, <2>1
<1> QED BY <1>6 DEF L2!Drained, Dropped

\* The least of a set is its minimum.
LEMMA LeastIsMinimum ==
  ASSUME NEW S, S \subseteq Nat, NEW e, IsLeast(e, S)
  PROVE  L2!Minimum(S) = e
<1>1. e \in S /\ \A s \in S : e <= s BY DEF IsLeast
<1>2. \A c \in S : (\A s \in S : c <= s) => c = e BY <1>1
<1>3. L2!Minimum(S) = CHOOSE c \in S : \A s \in S : c <= s BY DEF L2!Minimum
<1> QED BY <1>1, <1>2, <1>3

\* What an empty blade gives.
LEMMA NothingDue ==
  ASSUME NEW m, NEW qs, NEW tm, NEW due, NEW k, DueHeads(qs[k], m, tm, due[k]), qs[k] = <<>>
  PROVE  due[k] = 0 /\ Dropped(qs[k], due[k]) = <<>>
<1>1. PICK q, d : q = qs[k] /\ d = due[k] OBVIOUS
<1>2. q = <<>> /\ q \in Seq(Node) /\ Len(q) = 0 BY <1>1
<1>3. d \in 0 .. Len(q) BY <1>1 DEF DueHeads
<1>4. d = 0 BY <1>2, <1>3
<1>5. Dropped(q, 0) = q BY <1>2, DropNone
<1> QED BY <1>1, <1>2, <1>4, <1>5

LEMMA CollectIsCollect ==
  ASSUME TableInv, NEW qs, Mirrors(tab, bits, live_head, node, qs), NEW tm \in Nat, NEW collect,
         collect_expired(tm, collect), bits' = bits, TableInv'
  PROVE  L2!collect_expired(tm, collect)
<1>1. AQueue = qs /\ ALive = Nonempty(qs) BY AbstractNow
<1>2. CASE tm < next_expiration
  <2>1. out_head' = NULL /\ UNCHANGED <<live, next_expiration, tab, live_head, node>>
    <3>1. next_expiration \in Nat BY DEF TableInv, TypesOK
    <3>2. ~ (tm >= next_expiration) BY <1>2, <3>1
    <3> QED BY <3>2, Zenon DEF collect_expired
  <2>2. Mirrors(tab', bits', live_head', node', qs) BY <2>1
  <2>3. AQueue' = AQueue /\ ALive' = ALive BY <1>1, <2>2, AbstractNext
  <2>4. ATtl' = ATtl /\ AExp' = AExp /\ AIn' = AIn BY <2>1 DEF ATtl, AExp, AIn
  <2>5. AOut' = {} BY <2>1, AOutNone
  <2>6. UNCHANGED <<<<AQueue, ALive>>, live, next_expiration, <<ATtl, AExp, AIn>>>>
    BY <2>1, <2>3, <2>4
  <2> QED BY <1>2, <2>5, <2>6, Zenon DEF L2!collect_expired, L2!bladeVars, L2!nodeVars, AQueue, ALive, AOut, ATtl, AExp, AIn
<1>3. CASE ~ (tm < next_expiration)
  <2>1. PICK w : w = WalkLive(tm, collect) OBVIOUS
  <2>2. /\ tm >= next_expiration
        /\ tab' = w.tab /\ live_head' = w.live_head /\ node' = w.node
        /\ live' = Remaining(w.fired) /\ next_expiration' = w.ne /\ out_head' = w.out
    BY <1>3, <2>1, Zenon DEF collect_expired
  <2>3. PICK due : \A k \in TTL : DueHeads(qs[k], node, tm, due[k]) BY SomeDue DEF Mirrors
  <2>4. PICK left, G : left = LeftOf(qs, due, TTL) /\ G = GoneOf(qs, due, TTL) OBVIOUS
  <2>5. /\ Mirrors(w.tab, bits, w.live_head, w.node, left)
        /\ LeftSince(node, w, G, collect)
        /\ IsLeast(w.ne, {UINT64_MAX} \cup HeadTimes(qs, due, node, TTL))
    <3>1. /\ Mirrors(w.tab, bits, w.live_head, w.node, LeftOf(qs, due, TTL))
          /\ LeftSince(node, w, GoneOf(qs, due, TTL), collect)
          /\ IsLeast(w.ne, {UINT64_MAX} \cup HeadTimes(qs, due, node, TTL))
      BY <2>1, <2>3, CollectMirrors
    <3> QED BY <2>4, <3>1
  <2>6. Mirrors(tab', bits', live_head', node', left) BY <2>2, <2>5
  <2>7. AQueue' = left /\ ALive' = Nonempty(left) BY <2>6, AbstractNext
  <2>8. qs \in [TTL -> Seq(Node)] /\ KnownTTLs(node) BY DEF Mirrors, Threads, TableInv, TypesOK
  <2>9. \A k \in TTL : left[k] = Dropped(qs[k], due[k]) BY <2>4 DEF LeftOf
  <2>10. \A k \in TTL : qs[k] = <<>> => due[k] = 0 /\ left[k] = <<>>
    <3>1. ASSUME NEW k \in TTL, qs[k] = <<>> PROVE due[k] = 0 /\ left[k] = <<>>
      <4>1. DueHeads(qs[k], node, tm, due[k]) /\ qs[k] = <<>> BY <2>3, <3>1
      <4>2. due[k] = 0 /\ Dropped(qs[k], due[k]) = <<>> BY <4>1, NothingDue
      <4> QED BY <2>9, <4>2
    <3> QED BY <3>1
  <2>11. \A k \in TTL : L2!ExpiredHeads(qs[k], tm) = due[k] /\ L2!Drained(qs[k], tm) = left[k]
    BY <2>3, <2>8, <2>9, ExpiredHeadsIsDue
  <2>12. [k \in TTL |-> IF k \in ALive THEN L2!Drained(AQueue[k], tm) ELSE AQueue[k]] = left
    <3>1. \A k \in TTL : (IF k \in Nonempty(qs) THEN L2!Drained(qs[k], tm) ELSE qs[k]) = left[k]
      BY <2>10, <2>11, Zenon DEF Nonempty
    <3>2. left = [k \in TTL |-> left[k]] BY <2>4, Zenon DEF LeftOf
    <3> QED BY <1>1, <3>1, <3>2, Zenon
  <2>13. {k \in ALive : left[k] # <<>>} = Nonempty(left) BY <1>1, <2>10 DEF Nonempty
  <2>14. L2!Fired(tm) = G
    <3>1. L2!Fired(tm) = {n \in Node : \E k \in ALive : \E i \in 1 .. L2!ExpiredHeads(AQueue[k], tm) : AQueue[k][i] = n}
      BY Zenon DEF L2!Fired, ALive, AQueue
    <3>2. G \subseteq Node BY <2>5 DEF LeftSince
    <3>3. ASSUME NEW n \in G
          PROVE  \E k \in ALive : \E i \in 1 .. L2!ExpiredHeads(AQueue[k], tm) : AQueue[k][i] = n
      <4>1. PICK k \in TTL : \E i \in 1 .. due[k] : qs[k][i] = n BY <2>4 DEF GoneOf, Gone
      <4>2. k \in Nonempty(qs) BY <2>10, <4>1 DEF Nonempty
      <4> QED BY <1>1, <2>11, <4>1, <4>2
    <3>4. ASSUME NEW k \in ALive, NEW i \in 1 .. L2!ExpiredHeads(AQueue[k], tm), NEW n, AQueue[k][i] = n PROVE n \in G
      <4>1. k \in TTL /\ i \in 1 .. due[k] /\ qs[k][i] = n BY <1>1, <2>11, <3>4 DEF Nonempty
      <4> QED BY <2>4, <4>1 DEF GoneOf, Gone
    <3> QED BY <3>1, <3>2, <3>3, <3>4
  <2>15. ATtl' = ATtl /\ AExp' = AExp BY <2>2, <2>5 DEF LeftSince, SameTimers, ATtl, AExp
  <2>16. AIn' = L2!Cleared(G)
    <3>1. AIn' = [y \in Node |-> AIn[y] /\ y \notin G] BY <2>2, <2>5 DEF LeftSince, AIn
    <3> QED BY <3>1, Zenon DEF L2!Cleared, AIn
  <2>17. live' = L2!Uncounted(G)
    <3>1. live' = live - Cardinality(G) BY <2>2, <2>5 DEF LeftSince, Remaining
    <3>2. L2!Cardinality(G) = Cardinality(G) BY DEF L2!Cardinality, Cardinality
    <3> QED BY <3>1, <3>2, Zenon DEF L2!Uncounted
  <2>18. next_expiration' = L2!Minimum({UINT64_MAX} \cup {AExp[left[k][1]] : k \in Nonempty(left)})
    <3>1. ASSUME NEW k \in TTL, left[k] # <<>> PROVE left[k][1] \in Node
      <4>1. PICK s : s = left[k] OBVIOUS
      <4>2. s \in Seq(Node) BY <2>5, <4>1 DEF Mirrors, Threads
      <4>3. Len(s) \in Nat /\ 1 \in 1 .. Len(s) BY <3>1, <4>1, <4>2, EmptySeq, LenProperties
      <4> QED BY <4>1, <4>2, <4>3, ElementOfSeq
    <3>2. ASSUME NEW k \in Nonempty(left)
          PROVE  AExp[left[k][1]] = node[Dropped(qs[k], due[k])[1]].expiration /\ AExp[left[k][1]] \in Nat
      <4>1. k \in TTL /\ left[k] # <<>> /\ left[k] = Dropped(qs[k], due[k]) BY <2>9 DEF Nonempty
      <4>2. PICK n : n = left[k][1] OBVIOUS
      <4>3. n \in Node BY <3>1, <4>1, <4>2
      <4>4. AExp[n] = node[n].expiration /\ node[n].expiration \in Nat BY <2>8, <4>3 DEF AExp, KnownTTLs, lawn2_timer
      <4> QED BY <4>1, <4>2, <4>4
    <3>3. Nonempty(left) = {j \in TTL : Dropped(qs[j], due[j]) # <<>>} BY <2>9 DEF Nonempty
    <3>4. {AExp[left[k][1]] : k \in Nonempty(left)} = HeadTimes(qs, due, node, TTL)
      BY <3>2, <3>3, Zenon DEF HeadTimes
    <3>5. PICK S : S = {UINT64_MAX} \cup {AExp[left[k][1]] : k \in Nonempty(left)} OBVIOUS
    <3>6. S \subseteq Nat
      <4>1. UINT64_MAX \in Nat BY LinksAssumption
      <4> QED BY <3>2, <3>5, <4>1
    <3>7. IsLeast(w.ne, S) BY <2>5, <3>4, <3>5
    <3> QED BY <2>2, <3>5, <3>6, <3>7, LeastIsMinimum
  <2>19. AOut' = IF collect THEN G ELSE {}
    <3>1. PICK os : OutIs(w.node, w.out, os) /\ In(os) = IF collect THEN G ELSE {} BY <2>5 DEF LeftSince, HandedOver
    <3> QED BY <2>2, <3>1, OutIsRead, ReadsNext
  <2> DEFINE drained == [k \in TTL |-> IF k \in ALive THEN L2!Drained(AQueue[k], tm) ELSE AQueue[k]]
             nonempty == {k \in ALive : drained[k] # <<>>}
  <2>20. drained = left BY <2>12
  <2>21. nonempty = Nonempty(left) BY <2>13, <2>20
  <2>22. {AExp[drained[k][1]] : k \in nonempty} = {AExp[left[k][1]] : k \in Nonempty(left)}
    <3> HIDE DEF drained, nonempty
    <3> QED BY <2>20, <2>21
  <2>23. AQueue' = drained /\ ALive' = nonempty BY <2>7, <2>20, <2>21
  <2>24. next_expiration' = L2!Minimum({UINT64_MAX} \cup {AExp[drained[k][1]] : k \in nonempty})
    BY <2>18, <2>22
  <2>25. /\ AIn' = L2!Cleared(L2!Fired(tm)) /\ live' = L2!Uncounted(L2!Fired(tm))
         /\ AOut' = (IF collect THEN L2!Fired(tm) ELSE {})
    BY <2>14, <2>16, <2>17, <2>19
  <2> QED BY <2>2, <2>15, <2>23, <2>24, <2>25, Zenon
       DEF L2!collect_expired, AQueue, ALive, AOut, ATtl, AExp, AIn
<1> QED BY <1>2, <1>3

LEMMA TickIsTick ==
  ASSUME TableInv, NEW qs, Mirrors(tab, bits, live_head, node, qs), NEW collect,
         now < MaxNow, lawn2_tick(collect), TableInv'
  PROVE  L2!ClientTick(collect)
<1>1. now' = Add64(now, 1) /\ collect_expired(now', collect) /\ bits' = bits BY Zenon DEF lawn2_tick
<1>2. PICK tm : tm = now' OBVIOUS
<1>3. tm \in Nat BY <1>2 DEF TableInv, TypesOK
<1>4. collect_expired(tm, collect) BY <1>1, <1>2, Zenon
<1>5. L2!collect_expired(tm, collect) BY <1>1, <1>3, <1>4, CollectIsCollect
<1>6. L2!collect_expired(now', collect) BY <1>2, <1>5, Zenon
<1>7. now' = L2!Add64(now, 1) BY <1>1 DEF L2!Add64, Add64
<1> QED BY <1>6, <1>7, Zenon DEF L2!ClientTick, L2!lawn2_tick

LEMMA AdvanceIsAdvance ==
  ASSUME TableInv, NEW qs, Mirrors(tab, bits, live_head, node, qs), NEW target \in 0 .. MaxNow, NEW collect,
         lawn2_advance(target, collect), TableInv'
  PROVE  L2!lawn2_advance(target, collect)
<1>1. target \in Nat /\ now \in Nat /\ bits' = bits
  <2>1. bits' = bits BY Zenon DEF lawn2_advance
  <2> QED BY <2>1, LinksAssumption DEF TableInv, TypesOK
<1>2. CASE target <= now
  <2>1. out_head' = NULL /\ UNCHANGED <<now, live, next_expiration, tab, live_head, node>>
    <3>1. ~ (target > now) BY <1>1, <1>2
    <3> QED BY <3>1, Zenon DEF lawn2_advance
  <2>2. AQueue = qs /\ ALive = Nonempty(qs) BY AbstractNow
  <2>3. Mirrors(tab', bits', live_head', node', qs) BY <1>1, <2>1
  <2>4. AQueue' = AQueue /\ ALive' = ALive BY <2>2, <2>3, AbstractNext
  <2>5. ATtl' = ATtl /\ AExp' = AExp /\ AIn' = AIn BY <2>1 DEF ATtl, AExp, AIn
  <2>6. AOut' = {} BY <2>1, AOutNone
  <2>7. UNCHANGED <<now, <<AQueue, ALive>>, live, next_expiration, <<ATtl, AExp, AIn>>>>
    BY <2>1, <2>4, <2>5
  <2> QED BY <1>2, <2>6, <2>7, Zenon DEF L2!lawn2_advance, L2!bladeVars, L2!nodeVars, AQueue, ALive, AOut, ATtl, AExp, AIn
<1>3. CASE ~ (target <= now)
  <2>1. target > now /\ now' = target /\ collect_expired(target, collect)
    <3>1. target > now BY <1>1, <1>3
    <3> QED BY <1>3, <3>1, Zenon DEF lawn2_advance
  <2>2. L2!collect_expired(target, collect) BY <1>1, <2>1, CollectIsCollect
  <2> QED BY <2>1, <2>2, Zenon DEF L2!lawn2_advance
<1> QED BY <1>2, <1>3

LEMMA SetNowIsSetNow ==
  ASSUME TableInv, NEW qs, Mirrors(tab, bits, live_head, node, qs), NEW target \in now .. MaxNow,
         lawn2_set_now(target), TableInv'
  PROVE  target \in 0 .. MaxNow /\ L2!ClientSetNow(target)
<1>1. /\ now' = target /\ out_head' = NULL
      /\ UNCHANGED <<live, next_expiration, bits, tab, count, live_head, node>>
  BY Zenon DEF lawn2_set_now
<1>2. target \in 0 .. MaxNow /\ target >= now
  <2>1. now \in Nat /\ MaxNow \in Nat BY LinksAssumption DEF TableInv, TypesOK
  <2> QED BY <2>1
<1>3. AQueue = qs /\ ALive = Nonempty(qs) BY AbstractNow
<1>4. Mirrors(tab', bits', live_head', node', qs) BY <1>1
<1>5. AQueue' = AQueue /\ ALive' = ALive BY <1>3, <1>4, AbstractNext
<1>6. ATtl' = ATtl /\ AExp' = AExp /\ AIn' = AIn BY <1>1 DEF ATtl, AExp, AIn
<1>7. AOut' = {} BY <1>1, AOutNone
<1>8. UNCHANGED <<<<AQueue, ALive>>, live, next_expiration, <<ATtl, AExp, AIn>>>>
  BY <1>1, <1>5, <1>6
<1>9. L2!lawn2_set_now(target)
  BY <1>1, <1>7, <1>8, Zenon DEF L2!lawn2_set_now, L2!bladeVars, L2!nodeVars, AQueue, ALive, AOut, ATtl, AExp, AIn
<1> QED BY <1>2, <1>9 DEF L2!ClientSetNow

LEMMA StutterIsStutter == UNCHANGED vars => UNCHANGED L2!vars
<1> SUFFICES ASSUME UNCHANGED vars PROVE UNCHANGED L2!vars OBVIOUS
<1>1. UNCHANGED <<now, live, next_expiration, bits, tab, live_head, node, out_head>> BY DEF vars
<1>2. AQueue' = AQueue BY <1>1, Reads, ReadsNext
<1>3. ALive' = ALive BY <1>1 DEF ALive, LiveList, LiveNextOf
<1>4. ATtl' = ATtl /\ AExp' = AExp /\ AIn' = AIn BY <1>1 DEF ATtl, AExp, AIn
<1>5. AOut' = AOut BY <1>1, Reads, ReadsNext
<1>6. UNCHANGED <<now, <<AQueue, ALive>>, live, next_expiration, <<ATtl, AExp, AIn>>, AOut>>
  BY <1>1, <1>2, <1>3, <1>4, <1>5
<1> QED BY <1>6, Zenon DEF L2!vars, L2!bladeVars, L2!nodeVars, AQueue, ALive, AOut, ATtl, AExp, AIn

LEMMA NextIsNext == MirrorInv /\ [Next]_vars => [L2!Next]_(L2!vars)
<1> SUFFICES ASSUME MirrorInv, [Next]_vars PROVE [L2!Next]_(L2!vars) OBVIOUS
<1>1. TableInv /\ TableInv' BY TableInvNext DEF MirrorInv
<1>2. PICK qs : Mirrors(tab, bits, live_head, node, qs) BY DEF MirrorInv
<1>3. CASE UNCHANGED vars BY <1>3, StutterIsStutter
<1>4. CASE Next
  <2>1. ASSUME NEW n \in Node, NEW k \in TTL, ~node[n].in_store /\ now + k <= UINT64_MAX /\ lawn2_add(n, k)
        PROVE  L2!Next
    <3>1. L2!ClientAdd(n, k) BY <1>1, <1>2, <2>1, AddIsAdd
    <3> QED BY <3>1, Zenon DEF L2!Next
  <2>2. ASSUME NEW n \in Node, lawn2_del(n) PROVE L2!Next
    <3>1. L2!lawn2_del(n) BY <1>1, <1>2, <2>2, DelIsDel
    <3> QED BY <3>1, Zenon DEF L2!Next
  <2>3. ASSUME NEW collect \in BOOLEAN, now < MaxNow /\ lawn2_tick(collect) PROVE L2!Next
    <3>1. L2!ClientTick(collect) BY <1>1, <1>2, <2>3, TickIsTick
    <3> QED BY <3>1, Zenon DEF L2!Next
  <2>4. ASSUME NEW target \in 0 .. MaxNow, NEW collect \in BOOLEAN, lawn2_advance(target, collect) PROVE L2!Next
    <3>1. L2!lawn2_advance(target, collect) BY <1>1, <1>2, <2>4, AdvanceIsAdvance
    <3> QED BY <3>1, Zenon DEF L2!Next
  <2>5. ASSUME NEW target \in now .. MaxNow, lawn2_set_now(target) PROVE L2!Next
    <3>1. target \in 0 .. MaxNow /\ L2!ClientSetNow(target) BY <1>1, <1>2, <2>5, SetNowIsSetNow
    <3> QED BY <3>1, Zenon DEF L2!Next
  <2> QED BY <1>4, <2>1, <2>2, <2>3, <2>4, <2>5, Zenon DEF Next
<1> QED BY <1>3, <1>4

\* Whatever the hashes and the growth of the table, the linked store of
\* src/src/lawn2.c behaves as the queues of Lawn2, the expired list and the
\* bound on the earliest expiry included.
THEOREM Lawn2LinksImplementsLawn2 == Spec => ImplementsLawn2
<1>1. Init => L2!Init BY InitIsInit
<1>2. MirrorInv /\ [Next]_vars => [L2!Next]_(L2!vars) BY NextIsNext
<1> QED BY <1>1, <1>2, Lawn2MirrorInvariant, PTL DEF Spec, ImplementsLawn2, L2!Spec

(***************************************************************************)
(* The event loop of Lawn2Loop.  A call for one node leaves the next of the  *)
(* others that are out of the store as it is.                                *)
(***************************************************************************)
OutsKeepNext(m, m1, n) == \A y \in Node : y # n /\ ~m[y].in_store => m1[y].next = m[y].next

LEMMA AddLeavesOuts ==
  ASSUME MirrorInv, NEW n \in Node, NEW k \in TTL, ~node[n].in_store, lawn2_add(n, k)
  PROVE  MirrorInv' /\ OutsKeepNext(node, node', n) /\ \A y \in Node : y # n => node'[y].in_store = node[y].in_store
<1>1. TableInv /\ TableInv' BY AddKeeps DEF MirrorInv
<1>2. PICK qs : Mirrors(tab, bits, live_head, node, qs) BY DEF MirrorInv
<1>3. PICK qs1 : qs1 = With(qs, k, Behind(qs[k], n)) OBVIOUS
<1>4. /\ Mirrors(tab', bits', live_head', node', qs1)
      /\ SameTimesBut(node, node', n)
      /\ node'[n].ttl = k /\ node'[n].in_store
  <2>1. /\ Mirrors(tab', bits', live_head', node', With(qs, k, Behind(qs[k], n)))
        /\ SameTimesBut(node, node', n)
        /\ node'[n].ttl = k /\ node'[n].in_store /\ node'[n].expiration = Add64(now, k)
    BY <1>1, <1>2, AddMirrors
  <2> QED BY <1>3, <2>1
<1>5. PICK exp, tail : node' = Appended(n, k, exp, tail) BY Zenon DEF lawn2_add
<1>6. node \in [Node -> lawn2_timer] BY <1>1 DEF TableInv, TypesOK, KnownTTLs
<1>7. PICK m1 : m1 = [node EXCEPT ![n] = [ttl |-> k, expiration |-> exp, next |-> NULL,
                                         prev |-> tail, in_store |-> TRUE]]
  OBVIOUS
<1>8. m1[n].prev = tail /\ \A y \in Node : y # n => m1[y] = node[y] BY <1>6, <1>7
<1>9. node' = IF tail = NULL THEN m1 ELSE [m1 EXCEPT ![tail].next = n] BY <1>5, <1>7, Zenon DEF Appended
<1>10. node'[n].prev = tail
  <2>1. DOMAIN m1 = Node BY <1>6, <1>7
  <2>2. PICK v : v = m1[tail] OBVIOUS
  <2>3. CASE tail = NULL BY <1>8, <1>9, <2>3
  <2>4. CASE tail # NULL /\ tail # n BY <1>8, <1>9, <2>1, <2>4
  <2>5. CASE tail = n
    <3>1. m1[n] = [ttl |-> k, expiration |-> exp, next |-> NULL, prev |-> tail, in_store |-> TRUE] BY <1>6, <1>7
    <3>2. tail # NULL BY <2>5, LinksAssumption
    <3>3. node' = [m1 EXCEPT ![n].next = n] BY <1>9, <2>5, <3>2
    <3> QED BY <2>1, <3>1, <3>3
  <2> QED BY <2>3, <2>4, <2>5
<1>11. ASSUME NEW y \in Node, y # n, ~node[y].in_store PROVE y # tail
  <2>1. SUFFICES ASSUME y = tail PROVE FALSE OBVIOUS
  <2>2. Threads(node', qs1) BY <1>4 DEF Mirrors
  <2>3. PICK a \in 1 .. Len(qs1[k]) : n = qs1[k][a]
    <3>1. PICK m, j : m = node' /\ j = k OBVIOUS
    <3>2. Threads(m, qs1) /\ m[n].in_store /\ j = m[n].ttl /\ j \in TTL BY <1>4, <2>2, <3>1
    <3>3. \E a \in 1 .. Len(qs1[j]) : n = qs1[j][a] BY <3>2, PlaceOf
    <3> QED BY <3>1, <3>3
  <2>4. Prevs(node')[n] = Before(qs1[k], a) BY <2>2, <2>3 DEF Threads, Listed
  <2>5. tail = Before(qs1[k], a) BY <1>10, <2>4 DEF Prevs
  <2>6. a # 1 BY <2>1, <2>5, LinksAssumption DEF Before
  <2>7. qs1[k] \in Seq(Node) BY <2>2 DEF Threads
  <2>8. a - 1 \in 1 .. Len(qs1[k]) BY <2>3, <2>6, <2>7, LenProperties
  <2>9. tail = qs1[k][a - 1] BY <2>5, <2>6 DEF Before
  <2>10. tail \in In(qs1[k]) BY <2>8, <2>9 DEF In
  <2>11. node'[y].in_store BY <2>1, <2>2, <2>10 DEF Threads
  <2> QED BY <1>4, <1>11, <2>11 DEF SameTimesBut
<1>12. ASSUME NEW y \in Node, y # n, y # tail PROVE node'[y].next = node[y].next
  <2>1. CASE tail = NULL BY <1>8, <1>9, <1>12, <2>1
  <2>2. CASE tail # NULL
    <3>1. DOMAIN m1 = Node BY <1>6, <1>7
    <3>2. node'[y] = m1[y] BY <1>9, <1>12, <2>2, <3>1
    <3> QED BY <1>8, <1>12, <3>2
  <2> QED BY <2>1, <2>2
<1> QED BY <1>1, <1>4, <1>11, <1>12 DEF MirrorInv, OutsKeepNext, SameTimesBut

LEMMA DelLeavesOuts ==
  ASSUME MirrorInv, NEW n \in Node, lawn2_del(n)
  PROVE  /\ MirrorInv' /\ ~node'[n].in_store
         /\ \A y \in Node : ~node[y].in_store => node'[y].next = node[y].next /\ ~node'[y].in_store
<1>1. MirrorInv'
  <2>1. [Next]_vars BY Zenon DEF Next
  <2> QED BY <2>1, MirrorInvNext
<1>2. CASE ~node[n].in_store
  <2>1. node' = node BY <1>2, Zenon DEF lawn2_del
  <2> QED BY <1>1, <1>2, <2>1
<1>3. CASE node[n].in_store
  <2>1. TableInv BY DEF MirrorInv
  <2>2. PICK qs : Mirrors(tab, bits, live_head, node, qs) BY DEF MirrorInv
  <2>3. PICK k : k = node[n].ttl OBVIOUS
  <2>4. k \in TTL /\ node \in [Node -> lawn2_timer] BY <1>3, <2>1, <2>3 DEF TableInv, TypesOK, KnownTTLs
  <2>5. Threads(node, qs) BY <2>2 DEF Mirrors
  <2>6. PICK a \in 1 .. Len(qs[k]) : n = qs[k][a] BY <1>3, <2>3, <2>4, <2>5, PlaceOf
  <2>7. PICK p, z : p = node[n].prev /\ z = node[n].next OBVIOUS
  <2>8. p # NULL => p \in Node /\ node[p].in_store
    <3>1. Prevs(node)[n] = Before(qs[k], a) BY <2>4, <2>5, <2>6 DEF Threads, Listed
    <3>2. p = Before(qs[k], a) BY <2>7, <3>1 DEF Prevs
    <3>3. qs[k] \in Seq(Node) BY <2>4, <2>5 DEF Threads
    <3>4. CASE a = 1 BY <3>2, <3>4 DEF Before
    <3>5. CASE a # 1
      <4>1. a - 1 \in 1 .. Len(qs[k]) BY <2>6, <3>3, <3>5, LenProperties
      <4>2. p = qs[k][a - 1] BY <3>2, <3>5 DEF Before
      <4>3. p \in In(qs[k]) /\ p \in Node BY <3>3, <4>1, <4>2, ElementOfSeq DEF In
      <4> QED BY <2>4, <2>5, <4>3 DEF Threads
    <3> QED BY <3>4, <3>5
  <2>9. node' = Unlinked(n) BY <1>3, Zenon DEF lawn2_del
  <2>10. ASSUME NEW y \in Node, y # n, y # p PROVE node'[y].next = node[y].next
    <3>1. PICK m1 : m1 = IF p = NULL THEN node ELSE [node EXCEPT ![p].next = z] OBVIOUS
    <3>2. PICK m2 : m2 = IF z = NULL THEN m1 ELSE [m1 EXCEPT ![z].prev = p] OBVIOUS
    <3>3. node' = [m2 EXCEPT ![n].next = NULL, ![n].prev = NULL, ![n].in_store = FALSE]
      BY <2>7, <2>9, <3>1, <3>2, Zenon DEF Unlinked
    <3>4. DOMAIN m1 = Node /\ m1[y] = node[y] BY <2>4, <2>10, <3>1
    <3>5. DOMAIN m2 = Node /\ m2[y].next = node[y].next
      <4>1. CASE z = y
        <5>1. m1[y] \in lawn2_timer BY <2>4, <3>4
        <5>2. m2 = [m1 EXCEPT ![y].prev = p] BY <3>2, <4>1, LinksAssumption
        <5> QED BY <3>4, <5>1, <5>2 DEF lawn2_timer
      <4>2. CASE z # y BY <3>2, <3>4, <4>2
      <4> QED BY <4>1, <4>2
    <3>6. node'[y] = m2[y] BY <2>10, <3>3, <3>5
    <3> QED BY <3>5, <3>6
  <2>11. \A y \in Node : node'[y].in_store = (y # n /\ node[y].in_store)
    BY <2>1, <2>2, <2>4, <2>6, DelMirrors
  <2>12. \A y \in Node : ~node[y].in_store => y # n /\ y # p BY <1>3, <2>8, LinksAssumption
  <2> QED BY <1>1, <2>10, <2>11, <2>12
<1> QED BY <1>2, <1>3

\* A tick leaves a list of the nodes that it took out.
TookOut(m, m1) == {n \in Node : m[n].in_store /\ ~m1[n].in_store}

LEMMA TickHandsOver ==
  ASSUME MirrorInv, now < MaxNow, lawn2_tick(TRUE)
  PROVE  MirrorInv' /\ \E os : OutIs(node', out_head', os) /\ In(os) = TookOut(node, node')
<1>1. MirrorInv'
  <2>1. [Next]_vars BY Zenon DEF Next
  <2> QED BY <2>1, MirrorInvNext
<1>2. TableInv BY DEF MirrorInv
<1>3. PICK qs : Mirrors(tab, bits, live_head, node, qs) BY DEF MirrorInv
<1>4. PICK tm : tm = now' OBVIOUS
<1>5. tm \in Nat BY <1>1, <1>4 DEF MirrorInv, TableInv, TypesOK
<1>6. collect_expired(tm, TRUE) BY <1>4, Zenon DEF lawn2_tick
<1>7. CASE tm < next_expiration
  <2>1. next_expiration \in Nat BY <1>2 DEF TableInv, TypesOK
  <2>2. ~ (tm >= next_expiration) BY <1>5, <1>7, <2>1
  <2>3. out_head' = NULL /\ node' = node BY <1>6, <2>2, Zenon DEF collect_expired
  <2>4. PICK os : os = <<>> OBVIOUS
  <2>5. PICK m : m = node' OBVIOUS
  <2>6. OutIs(m, NULL, os) /\ In(os) = {} BY <2>4, OutNone
  <2>7. TookOut(node, node') = {} BY <2>3 DEF TookOut
  <2> QED BY <1>1, <2>3, <2>5, <2>6, <2>7
<1>8. CASE ~ (tm < next_expiration)
  <2>1. PICK w : w = WalkLive(tm, TRUE) OBVIOUS
  <2>2. node' = w.node /\ out_head' = w.out BY <1>6, <1>8, <2>1, Zenon DEF collect_expired
  <2>3. Threads(node, qs) BY <1>3 DEF Mirrors
  <2>4. PICK due : \A k \in TTL : DueHeads(qs[k], node, tm, due[k]) BY <2>3, SomeDue
  <2>5. PICK G : G = GoneOf(qs, due, TTL) OBVIOUS
  <2>6. LeftSince(node, w, G, TRUE) BY <1>2, <1>3, <1>5, <2>1, <2>4, <2>5, CollectMirrors
  <2>7. PICK os : OutIs(w.node, w.out, os) /\ In(os) = G BY <2>6 DEF LeftSince, HandedOver
  <2>8. ASSUME NEW n \in G PROVE n \in Node /\ node[n].in_store
    <3>1. PICK k \in TTL : n \in Gone(qs[k], due[k]) BY <2>5, <2>8 DEF GoneOf
    <3>2. PICK i \in 1 .. due[k] : n = qs[k][i] BY <3>1 DEF Gone
    <3>3. due[k] \in 0 .. Len(qs[k]) BY <2>4, <3>1 DEF DueHeads
    <3>4. i \in 1 .. Len(qs[k]) BY <3>3
    <3>5. n \in In(qs[k]) BY <3>2, <3>4 DEF In
    <3>6. node[n].in_store BY <2>3, <3>5 DEF Threads
    <3> QED BY <2>6, <2>8, <3>6 DEF LeftSince
  <2>9. TookOut(node, w.node) = G BY <2>6, <2>8 DEF LeftSince, TookOut
  <2> QED BY <1>1, <2>2, <2>7, <2>9
<1> QED BY <1>7, <1>8

(***************************************************************************)
(* What is left of the walk.                                                *)
(***************************************************************************)
\* The nodes after the first, which the walk has yet to meet.
Ahead(m, l) == \A i \in 2 .. Len(l) : ~m[l[i]].in_store /\ m[l[i]].next = After(l, i)
Meets(m, l, c, f, e) ==
  /\ Simple(l, Node) /\ Ahead(m, l)
  /\ c = FirstOf(l) /\ f = (IF Len(l) = 0 THEN NULL ELSE After(l, 1))
  /\ e = In(l)

\* A connection being served is none of those.
Serves(m, l, n) == n # NULL => n \in Node /\ ~m[n].in_store /\ \A i \in 2 .. Len(l) : l[i] # n

LoopInv ==
  MirrorInv /\ \E l : Meets(node, l, curr, following, expired) /\ Serves(node, l, fresh)

\* A call for a node that is not ahead.
LEMMA AheadKept ==
  ASSUME NEW m, NEW m1, NEW l, Simple(l, Node), Ahead(m, l), NEW n, \A i \in 2 .. Len(l) : l[i] # n,
         \A y \in Node : y # n /\ ~m[y].in_store => ~m1[y].in_store /\ m1[y].next = m[y].next
  PROVE  Ahead(m1, l)
<1>1. l \in Seq(Node) BY DEF Simple
<1>2. ASSUME NEW i \in 2 .. Len(l) PROVE ~m1[l[i]].in_store /\ m1[l[i]].next = After(l, i)
  <2>1. Len(l) \in Nat BY <1>1, LenProperties
  <2>2. i \in 1 .. Len(l) BY <1>2, <2>1
  <2>3. PICK y : y = l[i] OBVIOUS
  <2>4. y \in Node /\ y # n BY <1>1, <2>2, <2>3, ElementOfSeq
  <2>5. ~m[y].in_store /\ m[y].next = After(l, i) BY <2>3 DEF Ahead
  <2> QED BY <2>3, <2>4, <2>5
<1> QED BY <1>2 DEF Ahead

\* A node that is not ahead is the one whose handler runs or not of the list.
LEMMA NotAhead ==
  ASSUME NEW m, NEW l, NEW c, NEW f, NEW e, Meets(m, l, c, f, e), NEW n \in Node, n = c \/ n \notin e
  PROVE  \A i \in 2 .. Len(l) : l[i] # n
<1>1. l \in Seq(Node) /\ Len(l) \in Nat BY LenProperties DEF Meets, Simple
<1> SUFFICES ASSUME NEW i \in 2 .. Len(l), l[i] = n PROVE FALSE OBVIOUS
<1>2. i \in 1 .. Len(l) /\ 1 \in 1 .. Len(l) /\ i # 1 /\ Len(l) # 0 BY <1>1
<1>3. n \in e BY <1>2 DEF Meets, In
<1>4. c = l[1] BY <1>2 DEF Meets, FirstOf
<1>5. l[i] # l[1] BY <1>2 DEF Meets, Simple
<1> QED BY <1>3, <1>4, <1>5

\* The list l1 without the node whose handler has returned.
TheRest(m, l1, c, f, e) ==
  /\ Simple(l1, Node) /\ f = FirstOf(l1)
  /\ \A i \in 1 .. Len(l1) : m[l1[i]].next = After(l1, i)
  /\ e = {c} \cup In(l1) /\ c \notin In(l1)

LEMMA MeetsTheNext ==
  ASSUME NEW m, NEW l, NEW c, NEW f, NEW e, Meets(m, l, c, f, e), c # NULL,
         NEW l1, l1 = Dropped(l, 1)
  PROVE  /\ Meets(m, l1, f, IF f = NULL THEN NULL ELSE m[f].next, e \ {c})
         /\ TheRest(m, l1, c, f, e)
<1>1. l \in Seq(Node) BY DEF Meets, Simple
<1>2. PICK k \in Nat : k = Len(l) BY <1>1, LenProperties
<1>3. k # 0 /\ c = l[1] BY <1>2 DEF Meets, FirstOf
<1>4. \A i \in 1 .. k : l[i] \in Node BY <1>1, <1>2, ElementOfSeq
<1>5. l1 = [i \in 1 .. (k - 1) |-> l[i + 1]]
  <2>1. l1 = SubSeq(l, 2, k) BY <1>2 DEF Dropped
  <2>2. \A i \in 2 .. k : l[i] \in Node BY <1>4
  <2> QED BY <1>2, <1>3, <2>1, <2>2 DEF Dropped
<1>6. \A i \in 1 .. (k - 1) : i + 1 \in 1 .. k /\ i + 1 \in 2 .. k /\ l1[i] = l[i + 1] BY <1>2, <1>5
<1>7. l1 \in Seq(Node) /\ Len(l1) = k - 1
  <2>1. k - 1 \in Nat BY <1>2, <1>3
  <2>2. l1 \in [1 .. (k - 1) -> Node] BY <1>4, <1>5, <1>6
  <2> QED BY <2>1, <2>2
<1>8. \A i, j \in 1 .. k : l[i] = l[j] => i = j BY <1>2 DEF Meets, Simple
<1>9. Simple(l1, Node)
  <2>1. ASSUME NEW i \in 1 .. (k - 1), NEW j \in 1 .. (k - 1), l1[i] = l1[j] PROVE i = j
    <3>1. i + 1 = j + 1 BY <1>6, <1>8, <2>1
    <3> QED BY <3>1
  <2> QED BY <1>7, <2>1 DEF Simple
<1>10. \A i \in 1 .. (k - 1) : After(l1, i) = After(l, i + 1)
  <2>1. SUFFICES ASSUME NEW i \in 1 .. (k - 1) PROVE After(l1, i) = After(l, i + 1) OBVIOUS
  <2>2. CASE i = k - 1 BY <1>2, <1>7, <2>2 DEF After
  <2>3. CASE i # k - 1
    <3>1. i + 1 \in 1 .. (k - 1) /\ i + 1 # k BY <1>2, <2>3
    <3>2. l1[i + 1] = l[(i + 1) + 1] BY <1>6, <3>1
    <3> QED BY <1>2, <1>7, <2>3, <3>1, <3>2 DEF After
  <2> QED BY <2>2, <2>3
<1>11. \A i \in 1 .. (k - 1) : ~m[l1[i]].in_store /\ m[l1[i]].next = After(l1, i)
  <2>1. \A i \in 2 .. k : ~m[l[i]].in_store /\ m[l[i]].next = After(l, i) BY <1>2 DEF Meets, Ahead
  <2> QED BY <1>6, <1>10, <2>1
<1>12. f = FirstOf(l1)
  <2>1. f = After(l, 1) BY <1>2, <1>3 DEF Meets
  <2>2. CASE k = 1 BY <1>2, <1>7, <2>1, <2>2 DEF After, FirstOf
  <2>3. CASE k # 1
    <3>1. 1 \in 1 .. (k - 1) BY <1>2, <1>3, <2>3
    <3>2. l1[1] = l[1 + 1] BY <1>6, <3>1
    <3> QED BY <1>2, <1>3, <1>7, <2>1, <2>3, <3>2 DEF After, FirstOf
  <2> QED BY <2>2, <2>3
<1>13. e = {c} \cup In(l1) /\ c \notin In(l1)
  <2>1. In(l1) = {l1[i] : i \in 1 .. (k - 1)} /\ e = {l[i] : i \in 1 .. k} BY <1>2, <1>7 DEF In, Meets
  <2>2. ASSUME NEW x \in e PROVE x = c \/ x \in In(l1)
    <3>1. PICK i \in 1 .. k : x = l[i] BY <2>1, <2>2
    <3>2. CASE i = 1 BY <1>3, <3>1, <3>2
    <3>3. CASE i # 1
      <4>1. i - 1 \in 1 .. (k - 1) /\ (i - 1) + 1 = i BY <1>2, <3>3
      <4>2. l1[i - 1] = x BY <1>6, <3>1, <4>1
      <4> QED BY <2>1, <4>1, <4>2
    <3> QED BY <3>2, <3>3
  <2>3. ASSUME NEW x \in In(l1) PROVE x \in e /\ x # c
    <3>1. PICK i \in 1 .. (k - 1) : x = l1[i] BY <2>1, <2>3
    <3>2. x = l[i + 1] /\ i + 1 \in 1 .. k /\ i + 1 # 1 /\ 1 \in 1 .. k BY <1>2, <1>6, <3>1
    <3>3. l[i + 1] # l[1] BY <1>8, <3>2
    <3> QED BY <1>3, <2>1, <3>2, <3>3
  <2>4. c \in e
    <3>1. 1 \in 1 .. k BY <1>2, <1>3
    <3> QED BY <1>3, <2>1, <3>1
  <2> QED BY <2>2, <2>3, <2>4
<1>14. PICK g : g = IF f = NULL THEN NULL ELSE m[f].next OBVIOUS
<1>15. g = IF Len(l1) = 0 THEN NULL ELSE After(l1, 1)
  <2>1. CASE k = 1
    <3>1. Len(l1) = 0 /\ f = NULL BY <1>7, <1>12, <2>1 DEF FirstOf
    <3> QED BY <1>14, <3>1
  <2>2. CASE k # 1
    <3>1. 1 \in 1 .. (k - 1) /\ Len(l1) # 0 BY <1>2, <1>3, <1>7, <2>2
    <3>2. f = l1[1] BY <1>12, <3>1 DEF FirstOf
    <3>3. f \in Node BY <1>7, <3>1, <3>2, ElementOfSeq
    <3>4. f # NULL BY <3>3, LinksAssumption
    <3>5. m[f].next = After(l1, 1) BY <1>11, <3>1, <3>2
    <3> QED BY <1>14, <3>1, <3>4, <3>5
  <2> QED BY <2>1, <2>2
<1>16. Ahead(m, l1)
  <2>1. \A i \in 2 .. (k - 1) : i \in 1 .. (k - 1) BY <1>2
  <2> QED BY <1>7, <1>11, <2>1 DEF Ahead
<1>17. In(l1) = e \ {c} BY <1>13
<1>18. Meets(m, l1, f, g, e \ {c}) BY <1>9, <1>12, <1>15, <1>16, <1>17 DEF Meets
<1>19. TheRest(m, l1, c, f, e) BY <1>7, <1>9, <1>11, <1>12, <1>13 DEF TheRest
<1> QED BY <1>14, <1>18, <1>19

\* Nothing to meet.
LEMMA NothingAhead ==
  ASSUME NEW m, NEW l, l = <<>>
  PROVE  Meets(m, l, NULL, NULL, {}) /\ Serves(m, l, NULL)
<1>1. l \in Seq(Node) /\ Len(l) = 0 OBVIOUS
<1>2. (\A i \in 1 .. Len(l) : FALSE) /\ \A i \in 2 .. Len(l) : FALSE BY <1>1
<1>3. Simple(l, Node) /\ Ahead(m, l) /\ FirstOf(l) = NULL /\ In(l) = {} BY <1>1, <1>2 DEF Simple, Ahead, FirstOf, In
<1> QED BY <1>1, <1>2, <1>3 DEF Meets, Serves

LEMMA LoopInvInit == LoopInit => LoopInv
<1> SUFFICES ASSUME LoopInit PROVE LoopInv OBVIOUS
<1>1. Init BY DEF LoopInit
<1>2. MirrorInv BY <1>1, TableInvInit, InitMirrors DEF MirrorInv
<1>3. PICK m, l : m = node /\ l = <<>> OBVIOUS
<1>4. Meets(m, l, NULL, NULL, {}) /\ Serves(m, l, NULL) BY <1>3, NothingAhead
<1>5. curr = NULL /\ following = NULL /\ fresh = NULL /\ expired = {} BY DEF LoopInit
<1> QED BY <1>2, <1>3, <1>4, <1>5 DEF LoopInv

\* The tick begins the walk.
LEMMA WalkStarted ==
  ASSUME NEW m, NEW m1, NEW os, NEW x, OutIs(m1, x, os), In(os) = TookOut(m, m1),
         NEW f, f = IF x = NULL THEN NULL ELSE m1[x].next
  PROVE  Meets(m1, os, x, f, TookOut(m, m1))
<1>1. PICK nx : nx = Nexts(m1) OBVIOUS
<1>2. PICK pv : Listed(os, Node, nx, pv) BY <1>1 DEF OutIs
<1>3. Simple(os, Node) /\ os \in Seq(Node) /\ Len(os) \in Nat BY <1>2, LenProperties DEF Listed, Simple
<1>4. ASSUME NEW i \in 1 .. Len(os) PROVE ~m1[os[i]].in_store /\ m1[os[i]].next = After(os, i)
  <2>1. PICK y : y = os[i] OBVIOUS
  <2>2. y \in Node BY <1>3, <2>1, ElementOfSeq
  <2>3. nx[y] = After(os, i) BY <1>2, <2>1 DEF Listed
  <2>4. m1[y].next = After(os, i) BY <1>1, <2>2, <2>3 DEF Nexts
  <2>5. y \in In(os) BY <2>1 DEF In
  <2>6. ~m1[y].in_store BY <2>5 DEF TookOut
  <2> QED BY <2>1, <2>4, <2>6
<1>5. Ahead(m1, os)
  <2>1. \A i \in 2 .. Len(os) : i \in 1 .. Len(os) BY <1>3
  <2> QED BY <1>4, <2>1 DEF Ahead
<1>6. x = FirstOf(os) BY DEF OutIs
<1>7. f = IF Len(os) = 0 THEN NULL ELSE After(os, 1)
  <2>1. CASE Len(os) = 0 BY <1>6, <2>1 DEF FirstOf
  <2>2. CASE Len(os) # 0
    <3>1. 1 \in 1 .. Len(os) /\ x = os[1] BY <1>3, <1>6, <2>2 DEF FirstOf
    <3>2. x \in Node BY <1>3, <3>1, ElementOfSeq
    <3>3. x # NULL BY <3>2, LinksAssumption
    <3>4. m1[x].next = After(os, 1) BY <1>4, <3>1
    <3> QED BY <2>2, <3>3, <3>4
  <2> QED BY <2>1, <2>2
<1> QED BY <1>3, <1>5, <1>6, <1>7 DEF Meets

LEMMA LoopInvNext == LoopInv /\ [LoopNext]_allVars => LoopInv'
<1> SUFFICES ASSUME LoopInv, [LoopNext]_allVars PROVE LoopInv' OBVIOUS
<1>1. MirrorInv BY DEF LoopInv
<1>2. PICK l : Meets(node, l, curr, following, expired) /\ Serves(node, l, fresh) BY DEF LoopInv
<1>3. Simple(l, Node) /\ Ahead(node, l) BY <1>2 DEF Meets
<1>4. CASE event_loop_tick
  <2>1. /\ fresh = NULL /\ now < MaxNow /\ lawn2_tick(TRUE) /\ curr' = out_head'
        /\ following' = SavedNext(curr') /\ expired' = TookOut(node, node') /\ fresh' = fresh
    BY <1>4, Zenon DEF event_loop_tick, TookOut
  <2>2. MirrorInv' /\ \E os : OutIs(node', out_head', os) /\ In(os) = TookOut(node, node')
    BY <1>1, <2>1, TickHandsOver
  <2>3. PICK os : OutIs(node', out_head', os) /\ In(os) = TookOut(node, node') BY <2>2
  <2>4. PICK m, m1, x, f : m = node /\ m1 = node' /\ x = curr' /\ f = following' OBVIOUS
  <2>5. f = IF x = NULL THEN NULL ELSE m1[x].next BY <2>1, <2>4, Zenon DEF SavedNext
  <2>6. Meets(m1, os, x, f, TookOut(m, m1)) BY <2>1, <2>3, <2>4, <2>5, WalkStarted
  <2>7. Serves(node', os, fresh') BY <2>1 DEF Serves
  <2>8. Meets(node', os, curr', following', expired') BY <2>1, <2>4, <2>6
  <2> QED BY <2>2, <2>7, <2>8 DEF LoopInv
<1>5. CASE HandlerReturns
  <2>1. /\ curr # NULL /\ fresh = NULL /\ UNCHANGED <<vars, fresh>> /\ curr' = following
        /\ following' = SavedNext(curr') /\ expired' = expired \ {curr}
    BY <1>5, Zenon DEF HandlerReturns, Following
  <2>2. node' = node /\ MirrorInv'
    <3>1. UNCHANGED vars BY <2>1
    <3>2. node' = node BY <3>1 DEF vars
    <3> QED BY <1>1, <3>1, <3>2, MirrorInvNext
  <2>3. PICK l1 : l1 = Dropped(l, 1) OBVIOUS
  <2>4. Meets(node, l1, following, IF following = NULL THEN NULL ELSE node[following].next, expired \ {curr})
    BY <1>2, <2>1, <2>3, MeetsTheNext
  <2>5. following' = IF following = NULL THEN NULL ELSE node[following].next BY <2>1, <2>2 DEF SavedNext
  <2>6. Meets(node', l1, curr', following', expired') BY <2>1, <2>2, <2>4, <2>5
  <2>7. Serves(node', l1, fresh') BY <2>1 DEF Serves
  <2> QED BY <2>2, <2>6, <2>7 DEF LoopInv
<1>6. CASE ReAdd
  <2>1. PICK k \in TTL : lawn2_add(fresh, k) BY <1>6, Zenon DEF ReAdd
  <2>2. fresh # NULL /\ fresh' = NULL /\ UNCHANGED <<curr, following, expired>> BY <1>6, Zenon DEF ReAdd
  <2>3. fresh \in Node /\ ~node[fresh].in_store /\ \A i \in 2 .. Len(l) : l[i] # fresh
    BY <1>2, <2>2 DEF Serves
  <2>4. /\ MirrorInv' /\ OutsKeepNext(node, node', fresh)
        /\ \A y \in Node : y # fresh => node'[y].in_store = node[y].in_store
    BY <1>1, <2>1, <2>3, AddLeavesOuts
  <2>5. PICK m, m1 : m = node /\ m1 = node' OBVIOUS
  <2>6. \A y \in Node : y # fresh /\ ~m[y].in_store => ~m1[y].in_store /\ m1[y].next = m[y].next
    BY <2>4, <2>5 DEF OutsKeepNext
  <2>7. Ahead(m1, l) BY <1>3, <2>3, <2>5, <2>6, AheadKept
  <2>8. Meets(node', l, curr', following', expired') BY <1>2, <2>2, <2>5, <2>7 DEF Meets
  <2>9. Serves(node', l, fresh') BY <2>2 DEF Serves
  <2> QED BY <2>4, <2>8, <2>9 DEF LoopInv
<1>7. ASSUME NEW n \in Node, lawn2_del(n), Usable(n), UNCHANGED <<curr, following, expired>>, fresh' = NULL \/ fresh' = n
      PROVE  LoopInv'
  <2>1. n = curr \/ n \notin expired BY <1>7 DEF Usable
  <2>2. \A i \in 2 .. Len(l) : l[i] # n BY <1>2, <2>1, NotAhead
  <2>3. /\ MirrorInv' /\ ~node'[n].in_store
        /\ \A y \in Node : ~node[y].in_store => node'[y].next = node[y].next /\ ~node'[y].in_store
    BY <1>1, <1>7, DelLeavesOuts
  <2>4. PICK m, m1 : m = node /\ m1 = node' OBVIOUS
  <2>5. \A y \in Node : y # n /\ ~m[y].in_store => ~m1[y].in_store /\ m1[y].next = m[y].next
    BY <2>3, <2>4
  <2>6. Ahead(m1, l) BY <1>3, <2>2, <2>4, <2>5, AheadKept
  <2>7. Meets(node', l, curr', following', expired') BY <1>2, <1>7, <2>4, <2>6 DEF Meets
  <2>8. Serves(node', l, fresh') BY <1>7, <2>2, <2>3 DEF Serves
  <2> QED BY <2>3, <2>7, <2>8 DEF LoopInv
<1>8. ASSUME NEW n \in Node, on_socket_activity(n) PROVE LoopInv'
  <2>1. lawn2_del(n) /\ Usable(n) /\ fresh' = n /\ UNCHANGED <<curr, following, expired>>
    BY <1>8, Zenon DEF on_socket_activity
  <2> QED BY <1>7, <2>1
<1>9. ASSUME NEW n \in Node, on_connection_close(n) PROVE LoopInv'
  <2>1. lawn2_del(n) /\ Usable(n) /\ fresh = NULL /\ UNCHANGED loopVars
    BY <1>9, Zenon DEF on_connection_close
  <2>2. fresh' = NULL /\ UNCHANGED <<curr, following, expired>> BY <2>1 DEF loopVars
  <2> QED BY <1>7, <2>1, <2>2
<1>10. CASE UNCHANGED allVars
  <2>1. UNCHANGED vars /\ UNCHANGED loopVars BY <1>10 DEF allVars
  <2>2. MirrorInv' BY <1>1, <2>1, MirrorInvNext
  <2>3. node' = node /\ curr' = curr /\ following' = following /\ fresh' = fresh /\ expired' = expired
    BY <2>1 DEF vars, loopVars
  <2> QED BY <1>2, <2>2, <2>3 DEF LoopInv
<1> QED BY <1>4, <1>5, <1>6, <1>8, <1>9, <1>10, Zenon DEF LoopNext

LEMMA LoopInvImplies == LoopInv => WalkMeetsTheExpired
<1> SUFFICES ASSUME LoopInv PROVE WalkMeetsTheExpired OBVIOUS
<1>1. PICK l : Meets(node, l, curr, following, expired) BY DEF LoopInv
<1>2. PICK nx : nx = Nexts(node) OBVIOUS
<1>3. nx = NextOf /\ DOMAIN nx = Node /\ \A y \in Node : nx[y] = node[y].next BY <1>2 DEF Nexts, NextOf
<1>4. NULL \notin Node /\ IsFiniteSet(Node) BY LinksAssumption
<1>5. CASE curr = NULL
  <2>1. l \in Seq(Node) BY <1>1 DEF Meets, Simple
  <2>2. Len(l) = 0 /\ expired = {}
    <3>1. FirstOf(l) = NULL BY <1>1, <1>5 DEF Meets
    <3> QED BY <1>1, <1>4, <2>1, <3>1, InProps DEF Meets
  <2>3. following = NULL BY <1>1, <2>2 DEF Meets
  <2>4. OutRead(node, NULL) = {} BY NoneIsRead
  <2>5. PICK ahead : ahead = Follow(following, NextOf) OBVIOUS
  <2>6. {ahead[i] : i \in DOMAIN ahead} = {} BY <1>2, <1>3, <2>3, <2>4, <2>5 DEF OutRead
  <2> QED BY <1>5, <2>2, <2>5, <2>6 DEF WalkMeetsTheExpired
<1>6. CASE curr # NULL
  <2>1. PICK l1 : l1 = Dropped(l, 1) OBVIOUS
  <2>2. /\ Simple(l1, Node) /\ following = FirstOf(l1)
        /\ \A i \in 1 .. Len(l1) : node[l1[i]].next = After(l1, i)
        /\ expired = {curr} \cup In(l1) /\ curr \notin In(l1)
    <3>1. TheRest(node, l1, curr, following, expired) BY <1>1, <1>6, <2>1, MeetsTheNext
    <3> QED BY <3>1 DEF TheRest
  <2>3. l1 \in Seq(Node) /\ DOMAIN l1 = 1 .. Len(l1) BY <2>2, LenProperties DEF Simple
  <2>4. \A i \in 1 .. Len(l1) : nx[l1[i]] = After(l1, i) BY <1>3, <2>2, <2>3, ElementOfSeq
  <2>5. Follow(following, nx) = l1 BY <1>3, <1>4, <2>2, <2>4, FollowSpells
  <2>6. Follow(following, NextOf) = l1 BY <1>3, <2>5
  <2> QED BY <1>6, <2>2, <2>3, <2>6 DEF WalkMeetsTheExpired, In
<1> QED BY <1>5, <1>6

\* The walk of the event loop of src/README_Lawn2.md meets each timer that the
\* tick handed over, once, whatever handlers and other connections start or stop
\* meanwhile, although lawn2_add reuses the next of the node it links.
THEOREM Lawn2LoopWalkMeetsTheExpired == LoopSpec => []WalkMeetsTheExpired
<1>1. LoopInit => LoopInv BY LoopInvInit
<1>2. LoopInv /\ [LoopNext]_allVars => LoopInv' BY LoopInvNext
<1>3. LoopInv => WalkMeetsTheExpired BY LoopInvImplies
<1> QED BY <1>1, <1>2, <1>3, PTL DEF LoopSpec
===============================================================================
