------------------------------ MODULE LawnProofs ------------------------------
(***************************************************************************)
(* Proofs about Lawn for every set of elements, TTLs and nodes.  MemoryInv   *)
(* holds in any surroundings; OrderInv, which says that the queues sort      *)
(* themselves and that next_expiration is exact, needs hash maps that can    *)
(* allocate and a clock that is not set back.                                *)
(***************************************************************************)
EXTENDS Lawn, SeqLemmas, FiniteSetTheorems

Typed ==
  /\ clock \in 1 .. MaxClock
  /\ timeout_queues \subseteq TTL
  /\ queue \in [TTL -> Seq(Node)]
  /\ len \in [TTL -> Nat]
  /\ element_nodes \in [Element -> Node \cup {NULL}]
  /\ next_expiration \in Nat
  /\ element \in [Node -> Element \cup {NULL}]
  /\ ttl_queue \in [Node -> Nat]
  /\ expiration \in [Node -> Nat]
  /\ owner \in [Node -> {"none", "lawn", "client", "leaked"}]
  /\ popped \subseteq Node

MemoryInv == Typed /\ QueuesHoldOwnedNodes /\ ElementMapLeadsToOwnedNodes

\* "self-sorted": appending keeps a queue in expiry order, because all its
\* nodes have the same ttl and the clock has not gone back since.
QueuesSelfSorted ==
  \A k \in TTL : \A i, j \in DOMAIN queue[k] :
    i <= j => expiration[queue[k][i]] <= expiration[queue[k][j]]

DeadlineWithinTTL ==
  \A n \in Queued : expiration[n] \in 1 .. (clock + ttl_queue[n])

\* A next_expiration that is known is the deadline of a node that no other
\* precedes.
KnownIsClosest ==
  next_expiration # 0 =>
    /\ \E n \in Queued : expiration[n] = next_expiration
    /\ \A n \in Queued : next_expiration <= expiration[n]

OrderInv == MemoryInv /\ QueuesSelfSorted /\ DeadlineWithinTTL /\ KnownIsClosest

Benign == ~MayFail /\ ~ClockBack

(***************************************************************************)
(* Lemmas about the operators the actions are built from.                   *)
(***************************************************************************)
\* The least of a set of deadlines.
LEMMA MinimumIsLeast ==
  ASSUME NEW S, S \subseteq Nat, S # {}
  PROVE  Minimum(S) \in S /\ \A x \in S : Minimum(S) <= x
BY NatLeast DEF Minimum

\* What a queue and its members are, spelled out.
LEMMA QueueFacts ==
  ASSUME Typed, QueuesHoldOwnedNodes
  PROVE  /\ \A k \in TTL : /\ queue[k] \in Seq(Node)
                           /\ Len(queue[k]) \in Nat
                           /\ DOMAIN queue[k] = 1 .. Len(queue[k])
                           /\ len[k] \in Nat
                           /\ len[k] >= Len(queue[k])
         /\ \A k \in TTL : \A i \in 1 .. Len(queue[k]) :
              /\ queue[k][i] \in Node
              /\ owner[queue[k][i]] = "lawn"
              /\ ttl_queue[queue[k][i]] = k
              /\ \A j \in 1 .. Len(queue[k]) : queue[k][i] = queue[k][j] => i = j
         /\ \A n \in Queued : /\ ttl_queue[n] \in timeout_queues
                              /\ ttl_queue[n] \in TTL
                              /\ \E i \in 1 .. Len(queue[ttl_queue[n]]) : queue[ttl_queue[n]][i] = n
<1>1. \A k \in TTL : /\ queue[k] \in Seq(Node)
                     /\ Len(queue[k]) \in Nat
                     /\ DOMAIN queue[k] = 1 .. Len(queue[k])
                     /\ len[k] \in Nat
                     /\ len[k] >= Len(queue[k])
  BY LenProperties DEF Typed, QueuesHoldOwnedNodes
<1>2. \A k \in TTL : \A i \in 1 .. Len(queue[k]) : queue[k][i] \in Node
  BY <1>1, ElementOfSeq
<1>3. \A k \in TTL : \A i \in 1 .. Len(queue[k]) :
        /\ owner[queue[k][i]] = "lawn"
        /\ ttl_queue[queue[k][i]] = k
        /\ \A j \in 1 .. Len(queue[k]) : queue[k][i] = queue[k][j] => i = j
  BY <1>1 DEF QueuesHoldOwnedNodes
<1>4. ASSUME NEW n \in Queued
      PROVE  /\ ttl_queue[n] \in timeout_queues
             /\ ttl_queue[n] \in TTL
             /\ \E i \in 1 .. Len(queue[ttl_queue[n]]) : queue[ttl_queue[n]][i] = n
  <2>1. /\ ttl_queue[n] \in timeout_queues
        /\ \E i \in DOMAIN queue[ttl_queue[n]] : queue[ttl_queue[n]][i] = n
    BY DEF QueuesHoldOwnedNodes
  <2>2. ttl_queue[n] \in TTL BY <2>1 DEF Typed
  <2> QED BY <1>1, <2>1, <2>2
<1> QED BY <1>1, <1>2, <1>3, <1>4

\* The scans see exactly the queues that hold a node.
LEMMA ScannedIsNonEmpty ==
  ASSUME Typed, QueuesHoldOwnedNodes
  PROVE  /\ Scanned = {k \in TTL : queue[k] # <<>>}
         /\ \A k \in Scanned : Len(queue[k]) > 0 /\ queue[k][1] \in Queued
         /\ Scanned = {} <=> Queued = {}
<1>1. ASSUME NEW k \in TTL, queue[k] # <<>>
      PROVE  k \in Scanned /\ Len(queue[k]) > 0 /\ queue[k][1] \in Queued
  <2>1. Len(queue[k]) > 0 /\ 1 \in 1 .. Len(queue[k]) /\ len[k] > 0
    BY <1>1, QueueFacts
  <2>2. queue[k][1] \in Queued /\ ttl_queue[queue[k][1]] = k
    BY <2>1, QueueFacts DEF Queued
  <2>3. k \in timeout_queues BY <2>2, QueueFacts
  <2> QED BY <1>1, <2>1, <2>2, <2>3 DEF Scanned
<1>2. Scanned \subseteq TTL BY DEF Scanned, Typed
<1>3. Scanned = {k \in TTL : queue[k] # <<>>} BY <1>1, <1>2 DEF Scanned
<1>4. ASSUME NEW n \in Queued PROVE Scanned # {}
  <2>1. ttl_queue[n] \in TTL /\ Len(queue[ttl_queue[n]]) > 0 BY QueueFacts
  <2>2. queue[ttl_queue[n]] # <<>> BY <2>1
  <2> QED BY <1>1, <2>1, <2>2
<1> QED BY <1>1, <1>3, <1>4

\* _queuePull takes out the node it is given and no other, also when len = 1
\* makes it empty the queue.
LEMMA PulledTakesOut ==
  ASSUME Typed, QueuesHoldOwnedNodes, NEW n \in Queued
  PROVE  LET k == ttl_queue[n]
             q == queue[k]
             r == Pulled(k, n)
         IN  \E a \in 1 .. Len(q) :
               /\ q[a] = n
               /\ r \in Seq(Node)
               /\ Len(r) = Len(q) - 1
               /\ \A i \in 1 .. Len(r) : Past(a, i) \in 1 .. Len(q) /\ Past(a, i) # a /\ r[i] = q[Past(a, i)]
               /\ PulledLen(k) \in Nat
               /\ PulledLen(k) >= Len(r)
<1> DEFINE k == ttl_queue[n]
           q == queue[k]
           r == Pulled(k, n)
<1>1. k \in TTL /\ \E i \in 1 .. Len(q) : q[i] = n BY QueueFacts
<1>2. PICK a \in 1 .. Len(q) : q[a] = n BY <1>1
<1>3. q \in Seq(Node) /\ Len(q) \in Nat /\ DOMAIN q = 1 .. Len(q) /\ len[k] \in Nat /\ len[k] >= Len(q)
  BY <1>1, QueueFacts
<1>4. \A i \in 1 .. Len(q) : q[i] = n => i = a
  BY <1>1, <1>2, QueueFacts
<1>5. Unlink(q, n) = TakenOut(q, a)
  <2>1. (CHOOSE i \in DOMAIN q : q[i] = n) = a BY <1>2, <1>3, <1>4
  <2> QED BY <2>1 DEF Unlink, TakenOut
<1>6. /\ TakenOut(q, a) \in Seq(Node)
      /\ Len(TakenOut(q, a)) = Len(q) - 1
      /\ \A i \in 1 .. (Len(q) - 1) :
           /\ Past(a, i) \in 1 .. Len(q)
           /\ Past(a, i) # a
           /\ TakenOut(q, a)[i] = q[Past(a, i)]
  <2> HIDE DEF q
  <2> QED BY <1>3, SeqTakeOut
<1>7. r = TakenOut(q, a)
  <2>1. CASE len[k] = 1
    <3>1. Len(q) = 1
      <4> HIDE DEF k, q
      <4> QED BY <1>2, <1>3, <2>1
    <3>2. TakenOut(q, a) = <<>> BY <1>6, <3>1, EmptySeq
    <3> QED BY <2>1, <3>2 DEF Pulled
  <2>2. CASE len[k] # 1 BY <1>5, <2>2 DEF Pulled
  <2> QED BY <2>1, <2>2
<1>8. /\ r \in Seq(Node)
      /\ Len(r) = Len(q) - 1
      /\ \A i \in 1 .. Len(r) : Past(a, i) \in 1 .. Len(q) /\ Past(a, i) # a /\ r[i] = q[Past(a, i)]
  <2> HIDE DEF q, r
  <2> QED BY <1>6, <1>7
<1>9. PulledLen(k) \in Nat /\ PulledLen(k) >= Len(r)
  <2>1. PulledLen(k) = IF len[k] = 1 \/ Len(q) = 1 THEN len[k] ELSE len[k] - 1
    BY DEF PulledLen
  <2> HIDE DEF q, r
  <2> QED BY <1>2, <1>3, <1>8, <2>1
<1> QED BY <1>2, <1>8, <1>9

\* The loop of pop_expired takes the longest expired prefix of a queue; the
\* branches that empty the queue drop nothing that has not expired.
LEMMA DrainedIsSuffix ==
  ASSUME Typed, QueuesHoldOwnedNodes, NEW k \in TTL
  PROVE  /\ PopCount(k) \in 0 .. Len(queue[k])
         /\ \A i \in 1 .. PopCount(k) : Expired(queue[k][i])
         /\ PopCount(k) < Len(queue[k]) => ~Expired(queue[k][PopCount(k) + 1])
         /\ Drained(k) \in Seq(Node)
         /\ Len(Drained(k)) = Len(queue[k]) - PopCount(k)
         /\ \A i \in 1 .. Len(Drained(k)) :
              i + PopCount(k) \in 1 .. Len(queue[k]) /\ Drained(k)[i] = queue[k][i + PopCount(k)]
<1> DEFINE q == queue[k]
           P(d) == /\ \A i \in 1 .. d : Expired(q[i])
                   /\ d < Len(q) => ~Expired(q[d + 1])
           good == {i \in 1 .. Len(q) : Expired(q[i])}
<1>1. q \in Seq(Node) /\ Len(q) \in Nat /\ len[k] \in Nat /\ len[k] >= Len(q)
  BY QueueFacts
<1>2. Popable(k) = Len(q) BY <1>1 DEF Popable
<1>3. PICK d \in 0 .. Len(q) : (\A i \in 1 .. d : i \in good) /\ (d < Len(q) => d + 1 \notin good)
  <2> HIDE DEF good, q
  <2> QED BY <1>1, LongestPrefix
<1>4. P(d) BY <1>1, <1>3
<1>5. PopCount(k) = CHOOSE c \in 0 .. Len(q) : P(c)
  BY <1>2 DEF PopCount
<1> HIDE DEF P
<1>6. PopCount(k) \in 0 .. Len(q) /\ P(PopCount(k))
  BY <1>4, <1>5
<1>7. /\ SubSeq(q, PopCount(k) + 1, Len(q)) \in Seq(Node)
      /\ Len(SubSeq(q, PopCount(k) + 1, Len(q))) = Len(q) - PopCount(k)
      /\ \A i \in 1 .. (Len(q) - PopCount(k)) :
           i + PopCount(k) \in 1 .. Len(q) /\ SubSeq(q, PopCount(k) + 1, Len(q))[i] = q[i + PopCount(k)]
  <2> HIDE DEF q
  <2> QED BY <1>1, <1>6, SeqDrop
<1>8. Drained(k) = SubSeq(q, PopCount(k) + 1, Len(q))
  <2>1. CASE PopCount(k) = Len(q)
    <3>1. SubSeq(q, PopCount(k) + 1, Len(q)) = <<>>
      <4>1. Len(SubSeq(q, PopCount(k) + 1, Len(q))) = 0 BY <1>1, <1>7, <2>1
      <4> QED BY <1>7, <4>1, EmptySeq
    <3> QED BY <1>2, <3>1 DEF Drained
  <2>2. CASE PopCount(k) # Len(q) BY <1>2, <2>2 DEF Drained
  <2> QED BY <2>1, <2>2
<1> QED BY <1>1, <1>6, <1>7, <1>8 DEF P

(***************************************************************************)
(* The three ways a queue changes: a node is appended, a node is taken out,  *)
(* the expired heads are dropped.                                           *)
(***************************************************************************)
\* Appending a new node, with or without an entry for its element.
LEMMA QueueKeepsMemoryInv ==
  ASSUME MemoryInv, NEW n \in Node, NEW e \in Element, NEW k \in TTL,
         NewNode(n, e, k), Queue(n, k), clock' = clock, popped' = {}, next_expiration' \in Nat,
         element_nodes' = element_nodes \/ element_nodes' = [element_nodes EXCEPT ![e] = n]
  PROVE  /\ MemoryInv'
         /\ n \notin Queued
         /\ Queued' = Queued \cup {n}
         /\ expiration'[n] = clock + k /\ ttl_queue'[n] = k
         /\ \A m \in Queued : expiration'[m] = expiration[m] /\ ttl_queue'[m] = ttl_queue[m]
         /\ QueuesSelfSorted /\ DeadlineWithinTTL => QueuesSelfSorted'
<1> DEFINE q == queue[k]
           r == Append(q, n)
<1>i. Typed /\ QueuesHoldOwnedNodes /\ ElementMapLeadsToOwnedNodes BY DEF MemoryInv
<1>t. /\ clock \in Nat /\ k \in Nat /\ queue \in [TTL -> Seq(Node)] /\ len \in [TTL -> Nat]
      /\ element \in [Node -> Element \cup {NULL}] /\ ttl_queue \in [Node -> Nat]
      /\ expiration \in [Node -> Nat] /\ owner \in [Node -> {"none", "lawn", "client", "leaked"}]
      /\ element_nodes \in [Element -> Node \cup {NULL}]
  BY <1>i, ConstantsAssumption DEF Typed
<1>1. /\ owner[n] = "none"
      /\ element' = [element EXCEPT ![n] = e]
      /\ ttl_queue' = [ttl_queue EXCEPT ![n] = k]
      /\ expiration' = [expiration EXCEPT ![n] = clock + k]
      /\ timeout_queues' = timeout_queues \cup {k}
      /\ queue' = [queue EXCEPT ![k] = r]
      /\ len' = [len EXCEPT ![k] = len[k] + 1]
      /\ owner' = [owner EXCEPT ![n] = "lawn"]
  BY DEF NewNode, Queue, queuePush
<1>2. \A m \in Node : m # n => /\ owner'[m] = owner[m] /\ element'[m] = element[m]
                              /\ ttl_queue'[m] = ttl_queue[m] /\ expiration'[m] = expiration[m]
  BY <1>t, <1>1
<1>3. owner'[n] = "lawn" /\ element'[n] = e /\ ttl_queue'[n] = k /\ expiration'[n] = clock + k
  BY <1>t, <1>1
<1>4. n \notin Queued /\ Queued' = Queued \cup {n}
  BY <1>1, <1>2, <1>3 DEF Queued
<1>5. /\ q \in Seq(Node) /\ Len(q) \in Nat
      /\ r \in Seq(Node) /\ Len(r) = Len(q) + 1 /\ DOMAIN r = 1 .. (Len(q) + 1)
      /\ \A i \in 1 .. Len(q) : r[i] = q[i]
      /\ r[Len(q) + 1] = n
  <2>1. q \in Seq(Node) /\ Len(q) \in Nat BY <1>i, QueueFacts
  <2> HIDE DEF q
  <2> QED BY <2>1
<1> HIDE DEF q, r
<1>6. \A j \in TTL : queue'[j] = IF j = k THEN r ELSE queue[j]
  BY <1>t, <1>1
<1>7. \A j \in TTL : \A i \in 1 .. Len(queue[j]) :
        /\ queue[j][i] \in Node /\ queue[j][i] # n /\ queue[j][i] \in Queued
        /\ owner[queue[j][i]] = "lawn" /\ ttl_queue[queue[j][i]] = j
        /\ \A l \in 1 .. Len(queue[j]) : queue[j][i] = queue[j][l] => i = l
  BY <1>i, <1>1, QueueFacts DEF Queued
<1>8. Typed'
  <2>1. queue' \in [TTL -> Seq(Node)] BY <1>t, <1>1, <1>5
  <2>2. len' \in [TTL -> Nat] BY <1>t, <1>1
  <2>3. element_nodes' \in [Element -> Node \cup {NULL}] BY <1>t
  <2>4. /\ element' \in [Node -> Element \cup {NULL}] /\ ttl_queue' \in [Node -> Nat]
        /\ expiration' \in [Node -> Nat]
    BY <1>t, <1>1
  <2>5. owner' \in [Node -> {"none", "lawn", "client", "leaked"}] BY <1>t, <1>1
  <2>6. timeout_queues' \subseteq TTL BY <1>i, <1>1 DEF Typed
  <2> QED BY <1>i, <2>1, <2>2, <2>3, <2>4, <2>5, <2>6 DEF Typed
<1>9. QueuesHoldOwnedNodes'
  <2>1. ASSUME NEW m \in Queued'
        PROVE  /\ ttl_queue'[m] \in timeout_queues'
               /\ \E i \in DOMAIN queue'[ttl_queue'[m]] : queue'[ttl_queue'[m]][i] = m
    <3>1. CASE m = n
      <4>1. Len(q) + 1 \in DOMAIN r BY <1>5
      <4>2. ttl_queue'[m] = k /\ queue'[ttl_queue'[m]] = r /\ r[Len(q) + 1] = m
        BY <1>3, <1>5, <1>6, <3>1
      <4> QED BY <1>1, <4>1, <4>2
    <3>2. CASE m # n
      <4>1. m \in Queued /\ ttl_queue'[m] = ttl_queue[m] BY <1>2, <1>4, <3>2 DEF Queued
      <4> DEFINE j == ttl_queue[m]
      <4>2. j \in timeout_queues /\ j \in TTL /\ \E i \in 1 .. Len(queue[j]) : queue[j][i] = m
        BY <1>i, <4>1, QueueFacts
      <4>3. PICK i \in 1 .. Len(queue[j]) : queue[j][i] = m BY <4>2
      <4> HIDE DEF j
      <4>4. \E x \in DOMAIN queue'[j] : queue'[j][x] = m
        <5>1. CASE j = k
          <6>1. i \in 1 .. Len(q) /\ q[i] = m BY <4>3, <5>1 DEF q
          <6>2. i \in DOMAIN r /\ r[i] = m BY <1>5, <6>1
          <6>3. queue'[j] = r BY <1>6, <4>2, <5>1
          <6> QED BY <6>2, <6>3
        <5>2. CASE j # k
          <6>1. queue'[j] = queue[j] /\ i \in DOMAIN queue[j] BY <1>i, <1>6, <4>2, <5>2, QueueFacts
          <6> QED BY <4>3, <6>1
        <5> QED BY <5>1, <5>2
      <4> QED BY <1>1, <4>1, <4>2, <4>4 DEF j
    <3> QED BY <3>1, <3>2
  <2>2. ASSUME NEW j \in TTL, NEW i \in DOMAIN queue'[j]
        PROVE  /\ owner'[queue'[j][i]] = "lawn"
               /\ ttl_queue'[queue'[j][i]] = j
               /\ \A l \in DOMAIN queue'[j] : queue'[j][i] = queue'[j][l] => i = l
    <3>1. CASE j = k
      <4>1. \A l \in 1 .. (Len(q) + 1) : \/ l \in 1 .. Len(q) /\ r[l] = q[l]
                                         \/ l = Len(q) + 1 /\ r[l] = n
        BY <1>5
      <4>2. \A l \in 1 .. Len(q) : /\ q[l] \in Node /\ q[l] # n /\ owner[q[l]] = "lawn" /\ ttl_queue[q[l]] = k
                                   /\ \A m \in 1 .. Len(q) : q[l] = q[m] => l = m
        BY <1>7 DEF q
      <4>3. queue'[j] = r /\ i \in 1 .. (Len(q) + 1) BY <1>5, <1>6, <3>1
      <4>4. owner'[r[i]] = "lawn" /\ ttl_queue'[r[i]] = k
        BY <1>2, <1>3, <4>1, <4>2, <4>3
      <4>5. \A l \in 1 .. (Len(q) + 1) : r[i] = r[l] => i = l
        BY <4>1, <4>2, <4>3
      <4> QED BY <1>5, <3>1, <4>3, <4>4, <4>5
    <3>2. CASE j # k
      <4>1. queue'[j] = queue[j] /\ DOMAIN queue[j] = 1 .. Len(queue[j])
        BY <1>i, <1>6, <3>2, QueueFacts
      <4> QED BY <1>2, <1>7, <4>1
    <3> QED BY <3>1, <3>2
  <2>3. ASSUME NEW j \in TTL PROVE len'[j] >= Len(queue'[j])
    <3>1. len[j] \in Nat /\ Len(queue[j]) \in Nat /\ len[j] >= Len(queue[j]) BY <1>i, QueueFacts
    <3>2. CASE j = k
      <4>1. len'[j] = len[j] + 1 /\ queue'[j] = r /\ q = queue[j] BY <1>t, <1>1, <1>6, <3>2 DEF q
      <4> QED BY <1>5, <3>1, <4>1
    <3>3. CASE j # k BY <1>t, <1>1, <1>6, <3>1, <3>3
    <3> QED BY <3>2, <3>3
  <2> QED BY <2>1, <2>2, <2>3 DEF QueuesHoldOwnedNodes
<1>10. ElementMapLeadsToOwnedNodes'
  <2> SUFFICES ASSUME NEW f \in Element, element_nodes'[f] # NULL
               PROVE  owner'[element_nodes'[f]] = "lawn" /\ element'[element_nodes'[f]] = f
    BY DEF ElementMapLeadsToOwnedNodes
  <2>1. CASE element_nodes'[f] = element_nodes[f]
    <3>1. element_nodes[f] \in Node /\ owner[element_nodes[f]] = "lawn" /\ element[element_nodes[f]] = f
      BY <1>i, <1>t, <2>1 DEF ElementMapLeadsToOwnedNodes
    <3> QED BY <1>1, <1>2, <2>1, <3>1
  <2>2. CASE f = e /\ element_nodes'[f] = n BY <1>3, <2>2
  <2> QED BY <1>t, <2>1, <2>2
<1>11. ASSUME QueuesSelfSorted, DeadlineWithinTTL PROVE QueuesSelfSorted'
  <2> SUFFICES ASSUME NEW j \in TTL, NEW a \in DOMAIN queue'[j], NEW b \in DOMAIN queue'[j], a <= b
               PROVE  expiration'[queue'[j][a]] <= expiration'[queue'[j][b]]
    BY DEF QueuesSelfSorted
  <2>0. DOMAIN queue[j] = 1 .. Len(queue[j]) BY <1>i, QueueFacts
  <2>1. CASE j # k
    <3>1. queue'[j] = queue[j] /\ a \in 1 .. Len(queue[j]) /\ b \in 1 .. Len(queue[j])
      BY <1>6, <2>0, <2>1
    <3>2. expiration[queue[j][a]] <= expiration[queue[j][b]]
      BY <1>11, <2>0, <3>1 DEF QueuesSelfSorted
    <3> QED BY <1>2, <1>7, <3>1, <3>2
  <2>2. CASE j = k
    <3>1. queue'[j] = r /\ a \in 1 .. (Len(q) + 1) /\ b \in 1 .. (Len(q) + 1) BY <1>5, <1>6, <2>2
    <3>2. \A l \in 1 .. Len(q) : /\ q[l] \in Node /\ q[l] # n /\ q[l] \in Queued /\ ttl_queue[q[l]] = k
                                 /\ r[l] = q[l] /\ expiration'[q[l]] = expiration[q[l]]
      BY <1>2, <1>5, <1>7 DEF q
    <3>3. CASE b \in 1 .. Len(q)
      <4>1. a \in 1 .. Len(q) BY <1>5, <3>1, <3>3
      <4>2. expiration[q[a]] <= expiration[q[b]]
        BY <1>11, <2>0, <2>2, <3>3, <4>1 DEF QueuesSelfSorted, q
      <4> QED BY <3>1, <3>2, <3>3, <4>1, <4>2
    <3>4. CASE b = Len(q) + 1 /\ a = b BY <1>t, <1>3, <1>5, <3>1, <3>4, SMTT(30)
    <3>5. CASE b = Len(q) + 1 /\ a # b
      <4>1. a \in 1 .. Len(q) /\ r[b] = n BY <1>5, <3>1, <3>5
      <4>2. expiration[q[a]] \in 1 .. (clock + k) BY <1>11, <3>2, <4>1 DEF DeadlineWithinTTL
      <4>3. expiration'[r[a]] \in Nat /\ expiration'[r[a]] <= clock + k BY <1>t, <3>2, <4>1, <4>2
      <4> QED BY <1>3, <3>1, <4>1, <4>3
    <3> QED BY <1>5, <3>1, <3>3, <3>4, <3>5
  <2> QED BY <2>1, <2>2
<1>12. \A m \in Queued : expiration'[m] = expiration[m] /\ ttl_queue'[m] = ttl_queue[m]
  BY <1>2, <1>4 DEF Queued
<1> QED BY <1>3, <1>4, <1>8, <1>9, <1>10, <1>11, <1>12 DEF MemoryInv

\* _removeNode, whatever then becomes of the node.
LEMMA RemoveKeepsMemoryInv ==
  ASSUME MemoryInv, NEW n \in Queued, NEW known \in Nat, removeNode(n, known),
         clock' = clock, popped' \subseteq Node,
         owner' \in [Node -> {"none", "lawn", "client", "leaked"}], owner'[n] # "lawn",
         element' \in [Node -> Element \cup {NULL}], ttl_queue' \in [Node -> Nat],
         expiration' \in [Node -> Nat],
         \A m \in Node : m # n => /\ owner'[m] = owner[m] /\ element'[m] = element[m]
                                  /\ ttl_queue'[m] = ttl_queue[m] /\ expiration'[m] = expiration[m]
  PROVE  /\ MemoryInv'
         /\ Queued' = Queued \ {n}
         /\ QueuesSelfSorted => QueuesSelfSorted'
<1> DEFINE k == ttl_queue[n]
           q == queue[k]
           r == Pulled(k, n)
<1>i. Typed /\ QueuesHoldOwnedNodes /\ ElementMapLeadsToOwnedNodes BY DEF MemoryInv
<1>t. /\ queue \in [TTL -> Seq(Node)] /\ len \in [TTL -> Nat]
      /\ element \in [Node -> Element \cup {NULL}]
      /\ element_nodes \in [Element -> Node \cup {NULL}]
      /\ n \in Node /\ owner[n] = "lawn"
  BY <1>i DEF Typed, Queued
<1>1. PICK a \in 1 .. Len(q) :
        /\ q[a] = n
        /\ r \in Seq(Node)
        /\ Len(r) = Len(q) - 1
        /\ \A i \in 1 .. Len(r) : Past(a, i) \in 1 .. Len(q) /\ Past(a, i) # a /\ r[i] = q[Past(a, i)]
        /\ PulledLen(k) \in Nat
        /\ PulledLen(k) >= Len(r)
  BY <1>i, PulledTakesOut
<1>2. /\ queue' = [queue EXCEPT ![k] = r]
      /\ len' = [len EXCEPT ![k] = PulledLen(k)]
      /\ timeout_queues' = timeout_queues
      /\ element_nodes' = removeNodeFromMapping({n})
      /\ next_expiration' = Forgotten(expiration[n], known)
  BY DEF removeNode, removeQueueFromMapping
<1>3. k \in TTL /\ q \in Seq(Node) /\ Len(q) \in Nat /\ DOMAIN q = 1 .. Len(q) /\ DOMAIN r = 1 .. Len(r) /\ Len(r) \in Nat
  <2>1. k \in TTL /\ q \in Seq(Node) /\ Len(q) \in Nat /\ DOMAIN q = 1 .. Len(q) BY <1>i, QueueFacts
  <2>2. r \in Seq(Node) BY <1>1
  <2> HIDE DEF r, q, k
  <2> QED BY <2>1, <2>2
<1>4. Queued' = Queued \ {n} BY DEF Queued
<1> HIDE DEF k, q, r
<1>5. \A j \in TTL : queue'[j] = IF j = k THEN r ELSE queue[j]
  BY <1>t, <1>2
<1>6. \A j \in TTL : \A i \in 1 .. Len(queue[j]) :
        /\ queue[j][i] \in Node
        /\ owner[queue[j][i]] = "lawn" /\ ttl_queue[queue[j][i]] = j
        /\ \A l \in 1 .. Len(queue[j]) : queue[j][i] = queue[j][l] => i = l
  BY <1>i, QueueFacts
<1>7. \A i \in 1 .. Len(q) :
        /\ q[i] \in Node /\ owner[q[i]] = "lawn" /\ ttl_queue[q[i]] = k
        /\ \A l \in 1 .. Len(q) : q[i] = q[l] => i = l
  BY <1>3, <1>6 DEF q
<1>8. \A i \in 1 .. Len(r) : r[i] \in Node /\ r[i] # n /\ owner[r[i]] = "lawn" /\ ttl_queue[r[i]] = k
  <2> SUFFICES ASSUME NEW i \in 1 .. Len(r)
               PROVE  r[i] \in Node /\ r[i] # n /\ owner[r[i]] = "lawn" /\ ttl_queue[r[i]] = k
    OBVIOUS
  <2>1. PICK x \in 1 .. Len(q) : x = Past(a, i) /\ x # a /\ r[i] = q[x] BY <1>1
  <2>2. q[x] # n BY <1>1, <1>7, <2>1
  <2> QED BY <1>7, <2>1, <2>2
<1>9. /\ \A i, j \in 1 .. Len(r) : i <= j => Past(a, i) <= Past(a, j)
      /\ \A i, j \in 1 .. Len(r) : Past(a, i) = Past(a, j) => i = j
      /\ \A i \in 1 .. Len(q) : i # a => \E j \in 1 .. Len(r) : Past(a, j) = i
  <2>1. Len(q) \in Nat /\ Len(r) = Len(q) - 1 BY <1>1, <1>3
  <2>2. /\ \A i, j \in 1 .. (Len(q) - 1) : i <= j => Past(a, i) <= Past(a, j)
        /\ \A i, j \in 1 .. (Len(q) - 1) : Past(a, i) = Past(a, j) => i = j
        /\ \A i \in 1 .. Len(q) : i # a => \E j \in 1 .. (Len(q) - 1) : Past(a, j) = i
    BY <2>1, PastIsMonotone, Zenon
  <2> QED BY <2>1, <2>2
<1>10. Typed'
  <2>1. queue' \in [TTL -> Seq(Node)] BY <1>t, <1>1, <1>2
  <2>2. len' \in [TTL -> Nat] BY <1>t, <1>1, <1>2
  <2>3. element_nodes' \in [Element -> Node \cup {NULL}] BY <1>t, <1>2 DEF removeNodeFromMapping
  <2>4. next_expiration' \in Nat BY <1>i, <1>2 DEF Forgotten, Typed
  <2> QED BY <1>i, <1>2, <2>1, <2>2, <2>3, <2>4 DEF Typed
<1>11. QueuesHoldOwnedNodes'
  <2>1. ASSUME NEW m \in Queued'
        PROVE  /\ ttl_queue'[m] \in timeout_queues'
               /\ \E i \in DOMAIN queue'[ttl_queue'[m]] : queue'[ttl_queue'[m]][i] = m
    <3> DEFINE j == ttl_queue[m]
    <3>1. m \in Queued /\ m # n /\ ttl_queue'[m] = j BY <1>4 DEF Queued
    <3>2. j \in timeout_queues /\ j \in TTL /\ \E i \in 1 .. Len(queue[j]) : queue[j][i] = m
      BY <1>i, <3>1, QueueFacts
    <3>3. PICK i \in 1 .. Len(queue[j]) : queue[j][i] = m BY <3>2
    <3> HIDE DEF j
    <3>4. \E x \in DOMAIN queue'[j] : queue'[j][x] = m
      <4>1. CASE j = k
        <5>1. i \in 1 .. Len(q) /\ q[i] = m /\ i # a BY <1>1, <3>1, <3>3, <4>1 DEF q
        <5>2. PICK x \in 1 .. Len(r) : Past(a, x) = i BY <1>9, <5>1
        <5>3. r[x] = m /\ x \in DOMAIN r /\ queue'[j] = r BY <1>1, <1>3, <1>5, <3>2, <4>1, <5>1, <5>2
        <5> QED BY <5>3
      <4>2. CASE j # k
        <5>1. queue'[j] = queue[j] /\ i \in DOMAIN queue[j] BY <1>i, <1>5, <3>2, <4>2, QueueFacts
        <5> QED BY <3>3, <5>1
      <4> QED BY <4>1, <4>2
    <3> QED BY <1>2, <3>1, <3>2, <3>4
  <2>2. ASSUME NEW j \in TTL, NEW i \in DOMAIN queue'[j]
        PROVE  /\ owner'[queue'[j][i]] = "lawn"
               /\ ttl_queue'[queue'[j][i]] = j
               /\ \A l \in DOMAIN queue'[j] : queue'[j][i] = queue'[j][l] => i = l
    <3>1. CASE j = k
      <4>1. queue'[j] = r /\ DOMAIN queue'[j] = 1 .. Len(r) /\ i \in 1 .. Len(r) BY <1>3, <1>5, <3>1
      <4>2. owner'[r[i]] = "lawn" /\ ttl_queue'[r[i]] = k BY <1>8, <4>1
      <4>3. ASSUME NEW l \in 1 .. Len(r), r[i] = r[l] PROVE i = l
        <5>1. PICK x \in 1 .. Len(q) : x = Past(a, i) /\ r[i] = q[x] BY <1>1, <4>1
        <5>2. PICK y \in 1 .. Len(q) : y = Past(a, l) /\ r[l] = q[y] BY <1>1
        <5>3. x = y BY <1>7, <4>3, <5>1, <5>2
        <5> QED BY <1>9, <4>1, <5>1, <5>2, <5>3
      <4> QED BY <3>1, <4>1, <4>2, <4>3
    <3>2. CASE j # k
      <4>1. queue'[j] = queue[j] /\ DOMAIN queue[j] = 1 .. Len(queue[j])
        BY <1>i, <1>5, <3>2, QueueFacts
      <4>2. \A l \in 1 .. Len(queue[j]) : queue[j][l] # n BY <1>6, <3>2 DEF k
      <4>3. /\ queue[j][i] \in Node /\ owner[queue[j][i]] = "lawn" /\ ttl_queue[queue[j][i]] = j
            /\ \A l \in 1 .. Len(queue[j]) : queue[j][i] = queue[j][l] => i = l
        BY <1>6, <4>1
      <4>4. owner'[queue[j][i]] = "lawn" /\ ttl_queue'[queue[j][i]] = j BY <4>1, <4>2, <4>3
      <4> QED BY <4>1, <4>3, <4>4
    <3> QED BY <3>1, <3>2
  <2>3. ASSUME NEW j \in TTL PROVE len'[j] >= Len(queue'[j])
    <3>1. CASE j = k BY <1>t, <1>1, <1>2, <1>5, <3>1
    <3>2. CASE j # k BY <1>i, <1>t, <1>2, <1>5, <3>2, QueueFacts
    <3> QED BY <3>1, <3>2
  <2> QED BY <2>1, <2>2, <2>3 DEF QueuesHoldOwnedNodes
<1>12. ElementMapLeadsToOwnedNodes'
  <2> SUFFICES ASSUME NEW f \in Element, element_nodes'[f] # NULL
               PROVE  owner'[element_nodes'[f]] = "lawn" /\ element'[element_nodes'[f]] = f
    BY DEF ElementMapLeadsToOwnedNodes
  <2>1. element_nodes'[f] = element_nodes[f] /\ element[n] # f
    BY <1>2 DEF removeNodeFromMapping
  <2>2. element_nodes[f] \in Node /\ owner[element_nodes[f]] = "lawn" /\ element[element_nodes[f]] = f
    BY <1>i, <1>t, <2>1 DEF ElementMapLeadsToOwnedNodes
  <2>3. element_nodes[f] # n BY <2>1, <2>2
  <2> QED BY <2>1, <2>2, <2>3
<1>13. ASSUME QueuesSelfSorted PROVE QueuesSelfSorted'
  <2> SUFFICES ASSUME NEW j \in TTL, NEW b \in DOMAIN queue'[j], NEW c \in DOMAIN queue'[j], b <= c
               PROVE  expiration'[queue'[j][b]] <= expiration'[queue'[j][c]]
    BY DEF QueuesSelfSorted
  <2>1. CASE j # k
    <3>1. queue'[j] = queue[j] /\ DOMAIN queue[j] = 1 .. Len(queue[j])
      BY <1>i, <1>5, <2>1, QueueFacts
    <3>2. \A l \in 1 .. Len(queue[j]) : queue[j][l] # n BY <1>6, <2>1 DEF k
    <3>3. expiration[queue[j][b]] <= expiration[queue[j][c]]
      BY <1>13, <3>1 DEF QueuesSelfSorted
    <3> QED BY <1>6, <3>1, <3>2, <3>3
  <2>2. CASE j = k
    <3>1. queue'[j] = r /\ b \in 1 .. Len(r) /\ c \in 1 .. Len(r) BY <1>3, <1>5, <2>2
    <3>2. Past(a, b) \in DOMAIN q /\ Past(a, c) \in DOMAIN q /\ Past(a, b) <= Past(a, c)
      BY <1>1, <1>3, <1>9, <3>1
    <3>3. expiration[q[Past(a, b)]] <= expiration[q[Past(a, c)]]
      BY <1>3, <1>13, <3>2 DEF QueuesSelfSorted, q
    <3>4. r[b] = q[Past(a, b)] /\ r[c] = q[Past(a, c)] BY <1>1, <3>1
    <3>5. expiration'[r[b]] = expiration[r[b]] /\ expiration'[r[c]] = expiration[r[c]] BY <1>8, <3>1
    <3> QED BY <3>1, <3>3, <3>4, <3>5
  <2> QED BY <2>1, <2>2
<1> QED BY <1>4, <1>10, <1>11, <1>12, <1>13 DEF MemoryInv

\* The nodes a pop_expired that does not return early takes out, and what it
\* leaves of each queue.
LEMMA PopKeepsMemoryInv ==
  ASSUME MemoryInv, clock >= next_expiration, pop_expired
  PROVE  /\ MemoryInv'
         /\ popped' \subseteq Queued
         /\ Queued' = Queued \ popped'
         /\ \A n \in popped' : expiration[n] <= clock
         /\ UNCHANGED <<clock, timeout_queues, nodeVars>>
         /\ next_expiration' = IF Queued' = {} THEN 0
                               ELSE Minimum({expiration[queue'[k][1]] : k \in {j \in TTL : queue'[j] # <<>>}})
         /\ \A k \in TTL : \E d \in 0 .. Len(queue[k]) :
              /\ Len(queue'[k]) = Len(queue[k]) - d
              /\ d < Len(queue[k]) => ~(expiration[queue[k][d + 1]] <= clock)
              /\ \A i \in 1 .. Len(queue'[k]) : i + d \in 1 .. Len(queue[k]) /\ queue'[k][i] = queue[k][i + d]
<1> DEFINE d(k) == PopCount(k)
           due == {n \in Node : \E k \in Scanned : \E i \in 1 .. d(k) : queue[k][i] = n}
           left == [k \in TTL |-> IF k \in Scanned THEN Drained(k) ELSE queue[k]]
           lenLeft == [k \in TTL |-> IF k \in Scanned THEN len[k] - d(k) ELSE len[k]]
           heads == {k \in Scanned : left[k] # <<>> /\ lenLeft[k] > 0}
           least == Minimum({expiration[left[k][1]] : k \in heads})
<1>i. Typed /\ QueuesHoldOwnedNodes /\ ElementMapLeadsToOwnedNodes BY DEF MemoryInv
<1>t. /\ clock \in Nat /\ next_expiration \in Nat
      /\ queue \in [TTL -> Seq(Node)] /\ len \in [TTL -> Nat]
      /\ element \in [Node -> Element \cup {NULL}] /\ expiration \in [Node -> Nat]
      /\ owner \in [Node -> {"none", "lawn", "client", "leaked"}]
      /\ element_nodes \in [Element -> Node \cup {NULL}]
  BY <1>i, ConstantsAssumption DEF Typed
<1>1. /\ queue' = left
      /\ len' = lenLeft
      /\ next_expiration' = IF heads = {} THEN 0 ELSE least
      /\ element_nodes' = removeNodeFromMapping(due)
      /\ owner' = [n \in Node |-> IF n \in due THEN "client" ELSE owner[n]]
      /\ popped' = due
      /\ UNCHANGED <<clock, timeout_queues, element, ttl_queue, expiration>>
  <2>1. ~(clock < next_expiration) BY <1>t
  <2> QED BY <2>1 DEF pop_expired, nodeVars
<1>2. Scanned = {k \in TTL : queue[k] # <<>>} BY <1>i, ScannedIsNonEmpty
<1>3. \A k \in TTL : /\ queue[k] \in Seq(Node) /\ Len(queue[k]) \in Nat
                     /\ DOMAIN queue[k] = 1 .. Len(queue[k])
                     /\ len[k] \in Nat /\ len[k] >= Len(queue[k])
  BY <1>i, QueueFacts
<1>4. \A k \in TTL : /\ d(k) \in 0 .. Len(queue[k])
                     /\ \A i \in 1 .. d(k) : expiration[queue[k][i]] <= clock
                     /\ d(k) < Len(queue[k]) => ~(expiration[queue[k][d(k) + 1]] <= clock)
                     /\ Drained(k) \in Seq(Node)
                     /\ Len(Drained(k)) = Len(queue[k]) - d(k)
                     /\ \A i \in 1 .. Len(Drained(k)) :
                          i + d(k) \in 1 .. Len(queue[k]) /\ Drained(k)[i] = queue[k][i + d(k)]
  BY <1>i, DrainedIsSuffix DEF Expired
<1>5. \A k \in TTL : k \notin Scanned => queue[k] = <<>> /\ Len(queue[k]) = 0 /\ d(k) = 0
  <2> SUFFICES ASSUME NEW k \in TTL, k \notin Scanned PROVE queue[k] = <<>> /\ Len(queue[k]) = 0 /\ d(k) = 0
    OBVIOUS
  <2>1. queue[k] = <<>> BY <1>2
  <2>2. Len(queue[k]) = 0 BY <2>1
  <2>3. d(k) \in 0 .. Len(queue[k]) BY <1>4
  <2> QED BY <2>1, <2>2, <2>3
<1> HIDE DEF d
<1>6. \A k \in TTL : /\ left[k] \in Seq(Node)
                     /\ Len(left[k]) = Len(queue[k]) - d(k)
                     /\ DOMAIN left[k] = 1 .. Len(left[k])
                     /\ \A i \in 1 .. Len(left[k]) :
                          i + d(k) \in 1 .. Len(queue[k]) /\ left[k][i] = queue[k][i + d(k)]
                     /\ lenLeft[k] \in Nat /\ lenLeft[k] >= Len(left[k])
  <2> SUFFICES ASSUME NEW k \in TTL
               PROVE  /\ left[k] \in Seq(Node)
                      /\ Len(left[k]) = Len(queue[k]) - d(k)
                      /\ DOMAIN left[k] = 1 .. Len(left[k])
                      /\ \A i \in 1 .. Len(left[k]) :
                           i + d(k) \in 1 .. Len(queue[k]) /\ left[k][i] = queue[k][i + d(k)]
                      /\ lenLeft[k] \in Nat /\ lenLeft[k] >= Len(left[k])
    OBVIOUS
  <2>0. d(k) \in 0 .. Len(queue[k]) /\ Len(queue[k]) \in Nat /\ len[k] \in Nat /\ len[k] >= Len(queue[k])
    BY <1>3, <1>4
  <2>1. CASE k \in Scanned
    <3>1. left[k] = Drained(k) /\ lenLeft[k] = len[k] - d(k) BY <2>1
    <3>2. left[k] \in Seq(Node) /\ Len(left[k]) = Len(queue[k]) - d(k)
      BY <1>4, <3>1
    <3>3. lenLeft[k] \in Nat /\ lenLeft[k] >= Len(left[k])
      <4> HIDE DEF left, lenLeft
      <4> QED BY <2>0, <3>1, <3>2
    <3>4. DOMAIN left[k] = 1 .. Len(left[k]) BY <3>2, LenProperties
    <3> QED BY <1>4, <3>1, <3>2, <3>3, <3>4
  <2>2. CASE k \notin Scanned
    <3>1. left[k] = queue[k] /\ lenLeft[k] = len[k] BY <2>2
    <3>2. Len(queue[k]) = 0 /\ d(k) = 0 BY <1>5, <2>2
    <3> HIDE DEF left, lenLeft
    <3> QED BY <1>3, <2>0, <3>1, <3>2
  <2> QED BY <2>1, <2>2
<1>7. left \in [TTL -> Seq(Node)] /\ lenLeft \in [TTL -> Nat] BY <1>6
<1>8. heads = {k \in TTL : left[k] # <<>>}
  <2>1. ASSUME NEW k \in TTL, left[k] # <<>> PROVE k \in heads
    <3>1. Len(left[k]) > 0 BY <1>6, <2>1, EmptySeq
    <3>2. lenLeft[k] > 0 BY <1>6, <3>1
    <3>3. k \in Scanned BY <1>5, <2>1
    <3> QED BY <2>1, <3>2, <3>3
  <2> QED BY <1>2, <2>1
<1>9. \A k \in TTL : \A i \in 1 .. Len(queue[k]) :
        /\ queue[k][i] \in Node
        /\ owner[queue[k][i]] = "lawn" /\ ttl_queue[queue[k][i]] = k
        /\ \A l \in 1 .. Len(queue[k]) : queue[k][i] = queue[k][l] => i = l
  BY <1>i, QueueFacts
<1>10. \A k \in TTL : \A i \in 1 .. Len(queue[k]) : queue[k][i] \in due <=> i <= d(k)
  <2> SUFFICES ASSUME NEW k \in TTL, NEW i \in 1 .. Len(queue[k])
               PROVE  queue[k][i] \in due <=> i <= d(k)
    OBVIOUS
  <2>0. d(k) \in 0 .. Len(queue[k]) /\ Len(queue[k]) \in Nat BY <1>3, <1>4
  <2>1. ASSUME i <= d(k) PROVE queue[k][i] \in due
    <3>1. i \in 1 .. d(k) BY <2>0, <2>1
    <3>2. k \in Scanned BY <1>5, <2>0, <2>1
    <3>3. queue[k][i] \in Node BY <1>9
    <3> QED BY <3>1, <3>2, <3>3
  <2>2. ASSUME queue[k][i] \in due PROVE i <= d(k)
    <3>1. PICK j \in Scanned : \E x \in 1 .. d(j) : queue[j][x] = queue[k][i] BY <2>2
    <3>2. PICK x \in 1 .. d(j) : queue[j][x] = queue[k][i] BY <3>1
    <3>3. j \in TTL BY <1>2
    <3>4. d(j) \in 0 .. Len(queue[j]) /\ Len(queue[j]) \in Nat BY <1>3, <1>4, <3>3
    <3>5. x \in 1 .. Len(queue[j]) BY <3>4
    <3>6. ttl_queue[queue[j][x]] = j /\ ttl_queue[queue[k][i]] = k BY <1>9, <3>3, <3>5
    <3>7. j = k BY <3>2, <3>6
    <3>8. x = i BY <1>9, <3>2, <3>5, <3>7
    <3> QED BY <2>0, <3>4, <3>7, <3>8
  <2> QED BY <2>1, <2>2
<1>11. ASSUME NEW n \in due PROVE n \in Queued /\ expiration[n] <= clock
  <2>1. PICK k \in Scanned : \E i \in 1 .. d(k) : queue[k][i] = n OBVIOUS
  <2>2. PICK i \in 1 .. d(k) : queue[k][i] = n BY <2>1
  <2>3. k \in TTL BY <1>2
  <2>4. i \in 1 .. Len(queue[k]) /\ expiration[n] <= clock BY <1>3, <1>4, <2>2, <2>3
  <2> QED BY <1>9, <2>2, <2>3, <2>4 DEF Queued
<1> HIDE DEF due, left, lenLeft, heads
<1>12. Queued' = Queued \ due
  BY <1>1 DEF Queued
<1>13. \A k \in TTL : \A i \in 1 .. Len(left[k]) :
         /\ i + d(k) \in 1 .. Len(queue[k]) /\ left[k][i] = queue[k][i + d(k)]
         /\ left[k][i] \in Node /\ owner'[left[k][i]] = "lawn" /\ ttl_queue[left[k][i]] = k
         /\ \A l \in 1 .. Len(left[k]) : left[k][i] = left[k][l] => i = l
  <2> SUFFICES ASSUME NEW k \in TTL, NEW i \in 1 .. Len(left[k])
               PROVE  /\ i + d(k) \in 1 .. Len(queue[k]) /\ left[k][i] = queue[k][i + d(k)]
                      /\ left[k][i] \in Node /\ owner'[left[k][i]] = "lawn" /\ ttl_queue[left[k][i]] = k
                      /\ \A l \in 1 .. Len(left[k]) : left[k][i] = left[k][l] => i = l
    OBVIOUS
  <2>0. d(k) \in 0 .. Len(queue[k]) /\ Len(queue[k]) \in Nat /\ Len(left[k]) = Len(queue[k]) - d(k)
    BY <1>3, <1>4, <1>6
  <2>1. i + d(k) \in 1 .. Len(queue[k]) /\ left[k][i] = queue[k][i + d(k)] BY <1>6
  <2>2. left[k][i] \notin due BY <1>10, <2>0, <2>1
  <2>3. left[k][i] \in Node /\ owner[left[k][i]] = "lawn" /\ ttl_queue[left[k][i]] = k
    BY <1>9, <2>1
  <2>4. owner'[left[k][i]] = "lawn" BY <1>1, <2>2, <2>3
  <2>5. ASSUME NEW l \in 1 .. Len(left[k]), left[k][i] = left[k][l] PROVE i = l
    <3>1. l + d(k) \in 1 .. Len(queue[k]) /\ left[k][l] = queue[k][l + d(k)] BY <1>6
    <3>2. i + d(k) = l + d(k) BY <1>9, <2>1, <2>5, <3>1, ZenonT(60)
    <3> QED BY <2>0, <3>2
  <2> QED BY <2>1, <2>3, <2>4, <2>5
<1>20. Typed'
  <2>1. element_nodes' \in [Element -> Node \cup {NULL}] BY <1>t, <1>1 DEF removeNodeFromMapping
  <2>2. owner' \in [Node -> {"none", "lawn", "client", "leaked"}] BY <1>t, <1>1
  <2>3. next_expiration' \in Nat
    <3>1. CASE heads = {} BY <1>1, <3>1
    <3>2. CASE heads # {}
      <4> DEFINE S == {expiration[left[k][1]] : k \in heads}
      <4>1. ASSUME NEW k \in heads PROVE expiration[left[k][1]] \in Nat
        <5>1. k \in TTL /\ Len(left[k]) > 0 BY <1>6, <1>8, EmptySeq
        <5>2. 1 \in 1 .. Len(left[k]) BY <1>6, <5>1
        <5>3. left[k][1] \in Node BY <1>13, <5>1, <5>2
        <5> QED BY <1>t, <5>3
      <4>2. S \subseteq Nat /\ S # {} BY <3>2, <4>1
      <4> HIDE DEF S
      <4>3. Minimum(S) \in Nat BY <4>2, MinimumIsLeast
      <4> QED BY <1>1, <3>2, <4>3 DEF S
    <3> QED BY <3>1, <3>2
  <2>4. popped' \subseteq Node BY <1>1, <1>11 DEF Queued
  <2> QED BY <1>i, <1>1, <1>7, <2>1, <2>2, <2>3, <2>4 DEF Typed
<1>21. QueuesHoldOwnedNodes'
  <2>1. ASSUME NEW n \in Queued'
        PROVE  /\ ttl_queue'[n] \in timeout_queues'
               /\ \E i \in DOMAIN queue'[ttl_queue'[n]] : queue'[ttl_queue'[n]][i] = n
    <3> DEFINE k == ttl_queue[n]
    <3>1. n \in Queued /\ n \notin due BY <1>12
    <3>2. k \in timeout_queues /\ k \in TTL /\ \E i \in 1 .. Len(queue[k]) : queue[k][i] = n
      BY <1>i, <3>1, QueueFacts
    <3>3. PICK i \in 1 .. Len(queue[k]) : queue[k][i] = n BY <3>2
    <3> HIDE DEF k
    <3>4. d(k) \in 0 .. Len(queue[k]) /\ Len(queue[k]) \in Nat /\ Len(left[k]) = Len(queue[k]) - d(k)
      BY <1>3, <1>4, <1>6, <3>2
    <3>5. i > d(k) BY <1>10, <3>1, <3>2, <3>3, <3>4
    <3>6. i - d(k) \in 1 .. Len(left[k]) /\ (i - d(k)) + d(k) = i BY <3>4, <3>5
    <3>7. left[k][i - d(k)] = n BY <1>13, <3>2, <3>3, <3>6
    <3>8. i - d(k) \in DOMAIN left[k] BY <1>6, <3>2, <3>6
    <3>9. ttl_queue'[n] = k /\ queue'[k] = left[k] /\ timeout_queues' = timeout_queues BY <1>1 DEF k
    <3> QED BY <3>2, <3>7, <3>8, <3>9
  <2>2. ASSUME NEW k \in TTL, NEW i \in DOMAIN queue'[k]
        PROVE  /\ owner'[queue'[k][i]] = "lawn"
               /\ ttl_queue'[queue'[k][i]] = k
               /\ \A l \in DOMAIN queue'[k] : queue'[k][i] = queue'[k][l] => i = l
    <3>1. queue'[k] = left[k] /\ DOMAIN queue'[k] = 1 .. Len(left[k]) /\ ttl_queue' = ttl_queue
      BY <1>1, <1>6
    <3> QED BY <1>13, <3>1
  <2>3. \A k \in TTL : len'[k] >= Len(queue'[k]) BY <1>1, <1>6
  <2> QED BY <2>1, <2>2, <2>3 DEF QueuesHoldOwnedNodes
<1>22. ElementMapLeadsToOwnedNodes'
  <2> SUFFICES ASSUME NEW f \in Element, element_nodes'[f] # NULL
               PROVE  owner'[element_nodes'[f]] = "lawn" /\ element'[element_nodes'[f]] = f
    BY DEF ElementMapLeadsToOwnedNodes
  <2>1. element_nodes'[f] = element_nodes[f] /\ \A n \in due : element[n] # f
    BY <1>1 DEF removeNodeFromMapping
  <2>2. element_nodes[f] \in Node /\ owner[element_nodes[f]] = "lawn" /\ element[element_nodes[f]] = f
    BY <1>i, <1>t, <2>1 DEF ElementMapLeadsToOwnedNodes
  <2>3. element_nodes[f] \notin due BY <2>1, <2>2
  <2> QED BY <1>1, <2>1, <2>2, <2>3
<1>23. heads = {} <=> Queued' = {}
  <2>1. ASSUME NEW k \in heads PROVE Queued' # {}
    <3>1. k \in TTL /\ Len(left[k]) > 0 BY <1>6, <1>8, EmptySeq
    <3>2. 1 \in 1 .. Len(left[k]) BY <1>6, <3>1
    <3>3. left[k][1] \in Node /\ owner'[left[k][1]] = "lawn" BY <1>13, <3>1, <3>2
    <3> QED BY <3>3 DEF Queued
  <2>2. ASSUME NEW n \in Queued' PROVE heads # {}
    <3>1. /\ ttl_queue'[n] \in timeout_queues'
          /\ \E i \in DOMAIN queue'[ttl_queue'[n]] : queue'[ttl_queue'[n]][i] = n
      BY <1>21 DEF QueuesHoldOwnedNodes
    <3>2. PICK k \in TTL : DOMAIN left[k] # {} BY <1>1, <1>20, <3>1 DEF Typed
    <3>3. left[k] # <<>> BY <3>2
    <3> QED BY <1>8, <3>3
  <2> QED BY <2>1, <2>2
<1>24. next_expiration' = IF Queued' = {} THEN 0
                          ELSE Minimum({expiration[queue'[k][1]] : k \in {j \in TTL : queue'[j] # <<>>}})
  <2>1. {expiration[queue'[k][1]] : k \in {j \in TTL : queue'[j] # <<>>}} = {expiration[left[k][1]] : k \in heads}
    BY <1>1, <1>8
  <2> QED BY <1>1, <1>23, <2>1
<1>25. \A k \in TTL : \E c \in 0 .. Len(queue[k]) :
         /\ Len(queue'[k]) = Len(queue[k]) - c
         /\ c < Len(queue[k]) => ~(expiration[queue[k][c + 1]] <= clock)
         /\ \A i \in 1 .. Len(queue'[k]) : i + c \in 1 .. Len(queue[k]) /\ queue'[k][i] = queue[k][i + c]
  <2> SUFFICES ASSUME NEW k \in TTL
               PROVE  /\ d(k) \in 0 .. Len(queue[k])
                      /\ Len(left[k]) = Len(queue[k]) - d(k)
                      /\ d(k) < Len(queue[k]) => ~(expiration[queue[k][d(k) + 1]] <= clock)
                      /\ \A i \in 1 .. Len(left[k]) : i + d(k) \in 1 .. Len(queue[k]) /\ left[k][i] = queue[k][i + d(k)]
    BY <1>1
  <2> QED BY <1>4, <1>6
<1> QED BY <1>1, <1>11, <1>12, <1>20, <1>21, <1>22, <1>24, <1>25 DEF MemoryInv, nodeVars

(***************************************************************************)
(* The memory invariant, in any surroundings.                               *)
(***************************************************************************)
\* A step that leaves the queues, the maps and the nodes alone.
LEMMA IdleKeepsMemoryInv ==
  ASSUME MemoryInv, UNCHANGED <<timeout_queues, queue, len, element_nodes, nodeVars, owner>>,
         clock' \in 1 .. MaxClock, next_expiration' \in Nat, popped' \subseteq Node
  PROVE  /\ MemoryInv'
         /\ Queued' = Queued
         /\ QueuesSelfSorted => QueuesSelfSorted'
<1>1. UNCHANGED <<element, ttl_queue, expiration>> BY DEF nodeVars
<1>2. Queued' = Queued BY DEF Queued
<1>3. Typed' BY <1>1 DEF MemoryInv, Typed
<1>4. QueuesHoldOwnedNodes' BY <1>1, <1>2 DEF MemoryInv, QueuesHoldOwnedNodes
<1>5. ElementMapLeadsToOwnedNodes' BY <1>1 DEF MemoryInv, ElementMapLeadsToOwnedNodes
<1>6. QueuesSelfSorted => QueuesSelfSorted' BY <1>1 DEF QueuesSelfSorted
<1> QED BY <1>2, <1>3, <1>4, <1>5, <1>6 DEF MemoryInv

\* A node the lawn does not own is in no queue and in no entry of the map, so
\* its fields and its owner can change.
LEMMA OutsideKeepsMemoryInv ==
  ASSUME MemoryInv, NEW n \in Node, owner[n] # "lawn", UNCHANGED <<lawnVars, clock>>, popped' = {},
         owner' \in [Node -> {"none", "lawn", "client", "leaked"}], owner'[n] # "lawn",
         element' \in [Node -> Element \cup {NULL}], ttl_queue' \in [Node -> Nat],
         expiration' \in [Node -> Nat],
         \A m \in Node : m # n => /\ owner'[m] = owner[m] /\ element'[m] = element[m]
                                  /\ ttl_queue'[m] = ttl_queue[m] /\ expiration'[m] = expiration[m]
  PROVE  /\ MemoryInv'
         /\ Queued' = Queued
         /\ n \notin Queued
         /\ QueuesSelfSorted => QueuesSelfSorted'
<1>i. Typed /\ QueuesHoldOwnedNodes /\ ElementMapLeadsToOwnedNodes BY DEF MemoryInv
<1>1. UNCHANGED <<timeout_queues, queue, len, element_nodes, next_expiration>> BY DEF lawnVars
<1>2. Queued' = Queued /\ n \notin Queued BY DEF Queued
<1>3. Typed' BY <1>i, <1>1 DEF Typed
<1>4. \A k \in TTL : \A i \in DOMAIN queue[k] :
        queue[k][i] \in Node /\ queue[k][i] # n /\ owner[queue[k][i]] = "lawn" /\ ttl_queue[queue[k][i]] = k
  <2>1. \A k \in TTL : \A i \in DOMAIN queue[k] :
          queue[k][i] \in Node /\ owner[queue[k][i]] = "lawn" /\ ttl_queue[queue[k][i]] = k
    <3>1. \A k \in TTL : DOMAIN queue[k] = 1 .. Len(queue[k]) BY <1>i, QueueFacts
    <3>2. \A k \in TTL : \A i \in 1 .. Len(queue[k]) :
            queue[k][i] \in Node /\ owner[queue[k][i]] = "lawn" /\ ttl_queue[queue[k][i]] = k
      BY <1>i, QueueFacts
    <3> SUFFICES ASSUME NEW k \in TTL, NEW i \in DOMAIN queue[k]
                 PROVE  queue[k][i] \in Node /\ owner[queue[k][i]] = "lawn" /\ ttl_queue[queue[k][i]] = k
      OBVIOUS
    <3>3. i \in 1 .. Len(queue[k]) BY <3>1
    <3> QED BY <3>2, <3>3
  <2> QED BY <2>1
<1>5. QueuesHoldOwnedNodes'
  <2>1. ASSUME NEW m \in Queued'
        PROVE  /\ ttl_queue'[m] \in timeout_queues'
               /\ \E i \in DOMAIN queue'[ttl_queue'[m]] : queue'[ttl_queue'[m]][i] = m
    <3>1. m \in Queued /\ ttl_queue'[m] = ttl_queue[m] BY <1>2 DEF Queued
    <3> QED BY <1>i, <1>1, <3>1 DEF QueuesHoldOwnedNodes
  <2>2. ASSUME NEW k \in TTL, NEW i \in DOMAIN queue'[k]
        PROVE  /\ owner'[queue'[k][i]] = "lawn"
               /\ ttl_queue'[queue'[k][i]] = k
               /\ \A j \in DOMAIN queue'[k] : queue'[k][i] = queue'[k][j] => i = j
    <3>1. queue'[k] = queue[k] BY <1>1
    <3>2. \A j \in DOMAIN queue[k] : queue[k][i] = queue[k][j] => i = j
      BY <1>i, <3>1 DEF QueuesHoldOwnedNodes
    <3> QED BY <1>4, <3>1, <3>2
  <2>3. \A k \in TTL : len'[k] >= Len(queue'[k]) BY <1>i, <1>1 DEF QueuesHoldOwnedNodes
  <2> QED BY <2>1, <2>2, <2>3 DEF QueuesHoldOwnedNodes
<1>6. ElementMapLeadsToOwnedNodes'
  <2> SUFFICES ASSUME NEW f \in Element, element_nodes[f] # NULL
               PROVE  owner'[element_nodes[f]] = "lawn" /\ element'[element_nodes[f]] = f
    BY <1>1 DEF ElementMapLeadsToOwnedNodes
  <2>1. element_nodes[f] \in Node /\ owner[element_nodes[f]] = "lawn" /\ element[element_nodes[f]] = f
    BY <1>i DEF ElementMapLeadsToOwnedNodes, Typed
  <2>2. element_nodes[f] # n BY <2>1
  <2> QED BY <2>1, <2>2
<1>7. ASSUME QueuesSelfSorted PROVE QueuesSelfSorted'
  <2> SUFFICES ASSUME NEW k \in TTL, NEW i \in DOMAIN queue[k], NEW j \in DOMAIN queue[k], i <= j
               PROVE  expiration'[queue[k][i]] <= expiration'[queue[k][j]]
    BY <1>1 DEF QueuesSelfSorted
  <2>1. expiration[queue[k][i]] <= expiration[queue[k][j]] BY <1>7 DEF QueuesSelfSorted
  <2> QED BY <1>4, <2>1
<1> QED BY <1>2, <1>3, <1>5, <1>6, <1>7 DEF MemoryInv

\* What freeNode does to the fields.
LEMMA FreedFacts ==
  ASSUME Typed, NEW n \in Node, Freed(n)
  PROVE  /\ owner' \in [Node -> {"none", "lawn", "client", "leaked"}] /\ owner'[n] # "lawn"
         /\ element' \in [Node -> Element \cup {NULL}]
         /\ ttl_queue' \in [Node -> Nat]
         /\ expiration' \in [Node -> Nat]
         /\ \A m \in Node : m # n => /\ owner'[m] = owner[m] /\ element'[m] = element[m]
                                     /\ ttl_queue'[m] = ttl_queue[m] /\ expiration'[m] = expiration[m]
<1>1. owner' = [owner EXCEPT ![n] = "none"] /\ element' = [element EXCEPT ![n] = NULL]
  BY DEF Freed
<1>2. ttl_queue' = [ttl_queue EXCEPT ![n] = 0] /\ expiration' = [expiration EXCEPT ![n] = 0]
  BY DEF Freed
<1>3. owner' \in [Node -> {"none", "lawn", "client", "leaked"}] /\ owner'[n] # "lawn"
  BY <1>1 DEF Typed
<1> QED BY <1>1, <1>2, <1>3 DEF Typed

\* _get_next_node returns a node the lawn owns.
LEMMA NextNodeIsQueued ==
  ASSUME Typed, QueuesHoldOwnedNodes, NEW n \in Node, IsNextNode(n)
  PROVE  n \in Queued
BY ScannedIsNonEmpty DEF IsNextNode

\* The empty lawn.
LEMMA InitOrderInv == Init => OrderInv
<1> SUFFICES ASSUME Init PROVE OrderInv OBVIOUS
<1> USE DEF Init
<1>1. Queued = {} BY DEF Queued
<1>2. Typed
  <2>1. 1 \in 1 .. MaxClock BY ConstantsAssumption
  <2> QED BY <2>1 DEF Typed
<1>3. QueuesHoldOwnedNodes BY <1>1 DEF QueuesHoldOwnedNodes
<1>4. ElementMapLeadsToOwnedNodes BY DEF ElementMapLeadsToOwnedNodes
<1>5. QueuesSelfSorted BY DEF QueuesSelfSorted
<1>6. DeadlineWithinTTL /\ KnownIsClosest BY <1>1 DEF DeadlineWithinTTL, KnownIsClosest
<1> QED BY <1>2, <1>3, <1>4, <1>5, <1>6 DEF OrderInv, MemoryInv

\* Every step keeps the memory invariant.
LEMMA NextKeepsMemoryInv == MemoryInv /\ [Next]_vars => MemoryInv'
<1> SUFFICES ASSUME MemoryInv, [Next]_vars PROVE MemoryInv' OBVIOUS
<1>i. Typed /\ QueuesHoldOwnedNodes /\ ElementMapLeadsToOwnedNodes BY DEF MemoryInv
<1>t. /\ clock \in 1 .. MaxClock /\ clock \in Nat /\ MaxClock \in Nat /\ next_expiration \in Nat
      /\ owner \in [Node -> {"none", "lawn", "client", "leaked"}]
      /\ element \in [Node -> Element \cup {NULL}] /\ ttl_queue \in [Node -> Nat]
      /\ expiration \in [Node -> Nat] /\ element_nodes \in [Element -> Node \cup {NULL}]
      /\ \A k \in TTL : k \in Nat
  BY <1>i, ConstantsAssumption DEF Typed
<1>1. ASSUME NEW n \in Node, NEW e \in Element, NEW k \in TTL, set_element_ttl(n, e, k) PROVE MemoryInv'
  <2>1. NewNode(n, e, k) /\ Queue(n, k) /\ clock' = clock /\ popped' = {}
        /\ element_nodes' = [element_nodes EXCEPT ![e] = n]
    BY <1>1 DEF set_element_ttl
  <2>2. next_expiration' \in Nat BY <1>t, <1>1 DEF set_element_ttl, Lowered
  <2> QED BY <2>1, <2>2, QueueKeepsMemoryInv
<1>2. ASSUME NEW n \in Node, NEW e \in Element, NEW k \in TTL, set_element_ttl_no_queue(n, e, k)
      PROVE  MemoryInv'
  <2>1. /\ owner[n] = "none"
        /\ element' = [element EXCEPT ![n] = e]
        /\ ttl_queue' = [ttl_queue EXCEPT ![n] = k]
        /\ expiration' = [expiration EXCEPT ![n] = clock + k]
        /\ owner' = [owner EXCEPT ![n] = "leaked"]
        /\ popped' = {} /\ UNCHANGED <<lawnVars, clock>>
    BY <1>2 DEF set_element_ttl_no_queue, NewNode
  <2>2. owner' \in [Node -> {"none", "lawn", "client", "leaked"}] /\ owner'[n] # "lawn" /\ owner[n] # "lawn"
    BY <1>t, <2>1
  <2>3. /\ element' \in [Node -> Element \cup {NULL}]
        /\ ttl_queue' \in [Node -> Nat]
        /\ expiration' \in [Node -> Nat]
    BY <1>t, <2>1
  <2>4. \A m \in Node : m # n => /\ owner'[m] = owner[m] /\ element'[m] = element[m]
                                 /\ ttl_queue'[m] = ttl_queue[m] /\ expiration'[m] = expiration[m]
    BY <1>t, <2>1
  <2> QED BY <2>1, <2>2, <2>3, <2>4, OutsideKeepsMemoryInv
<1>3. ASSUME NEW n \in Node, NEW e \in Element, NEW k \in TTL, set_element_ttl_no_mapping(n, e, k)
      PROVE  MemoryInv'
  <2>1. NewNode(n, e, k) /\ Queue(n, k) /\ popped' = {} /\ UNCHANGED <<clock, element_nodes, next_expiration>>
    BY <1>3 DEF set_element_ttl_no_mapping
  <2>2. next_expiration' \in Nat BY <1>t, <2>1
  <2> QED BY <2>1, <2>2, QueueKeepsMemoryInv
<1>4. ASSUME NEW e \in Element, del_element_exp(e) PROVE MemoryInv'
  <2> DEFINE n == element_nodes[e]
  <2>1. CASE n = NULL
    <3>1. \/ popped' = {} /\ UNCHANGED <<clock, lawnVars, nodeVars, owner>>
          \/ n # NULL
      BY <1>4 DEF del_element_exp
    <3>2. popped' = {} /\ UNCHANGED <<clock, timeout_queues, queue, len, element_nodes, next_expiration, nodeVars, owner>>
      BY <2>1, <3>1 DEF lawnVars
    <3> QED BY <1>t, <3>2, IdleKeepsMemoryInv
  <2>2. CASE n # NULL
    <3>1. removeNode(n, next_expiration) /\ Freed(n) /\ popped' = {} /\ clock' = clock
      BY <1>4, <2>2 DEF del_element_exp
    <3>2. n \in Node /\ n \in Queued
      BY <1>i, <1>t, <2>2 DEF ElementMapLeadsToOwnedNodes, Queued
    <3> HIDE DEF n
    <3> QED BY <1>i, <1>t, <3>1, <3>2, FreedFacts, RemoveKeepsMemoryInv
  <2> QED BY <2>1, <2>2
<1>5. ASSUME next_at PROVE MemoryInv'
  <2>1. next_expiration' \in Nat BY <1>t, <1>5 DEF next_at
  <2> QED BY <1>t, <1>5, <2>1, IdleKeepsMemoryInv DEF next_at
<1>6. ASSUME pop_next PROVE MemoryInv'
  <2>1. CASE popped' = {} /\ UNCHANGED <<clock, lawnVars, nodeVars, owner>>
    BY <1>t, <2>1, IdleKeepsMemoryInv DEF lawnVars
  <2>2. ASSUME NEW n \in Node, IsNextNode(n), removeNode(n, Known(expiration[n])),
               owner' = [owner EXCEPT ![n] = "client"], popped' = {n}, UNCHANGED <<clock, nodeVars>>
        PROVE  MemoryInv'
    <3>1. n \in Queued BY <1>i, <2>2, NextNodeIsQueued
    <3>2. Known(expiration[n]) \in Nat BY <1>t DEF Known
    <3>3. owner' \in [Node -> {"none", "lawn", "client", "leaked"}] /\ owner'[n] # "lawn"
      BY <1>t, <2>2
    <3>4. UNCHANGED <<element, ttl_queue, expiration>> /\ \A m \in Node : m # n => owner'[m] = owner[m]
      BY <1>t, <2>2 DEF nodeVars
    <3> QED BY <1>t, <2>2, <3>1, <3>2, <3>3, <3>4, RemoveKeepsMemoryInv
  <2> QED BY <1>6, <2>1, <2>2 DEF pop_next
<1>7. ASSUME pop_expired PROVE MemoryInv'
  <2>1. CASE clock >= next_expiration BY <1>7, <2>1, PopKeepsMemoryInv
  <2>2. CASE ~(clock >= next_expiration)
    <3>1. popped' = {} /\ UNCHANGED <<clock, timeout_queues, queue, len, element_nodes, next_expiration, nodeVars, owner>>
      BY <1>7, <2>2 DEF pop_expired, lawnVars
    <3> QED BY <1>t, <3>1, IdleKeepsMemoryInv
  <2> QED BY <2>1, <2>2
<1>8. ASSUME NEW n \in Node, freeNode(n) PROVE MemoryInv'
  <2>1. owner[n] # "lawn" /\ Freed(n) /\ popped' = {} /\ UNCHANGED <<lawnVars, clock>>
    BY <1>8 DEF freeNode
  <2> QED BY <1>i, <2>1, FreedFacts, OutsideKeepsMemoryInv
<1>9. ASSUME NEW t \in 1 .. MaxClock, current_time_ms(t) PROVE MemoryInv'
  BY <1>t, <1>9, IdleKeepsMemoryInv DEF current_time_ms, lawnVars
<1>10. CASE UNCHANGED vars
  <2>1. popped' \subseteq Node BY <1>i, <1>10 DEF vars, Typed
  <2> QED BY <1>t, <1>10, <2>1, IdleKeepsMemoryInv DEF vars, lawnVars
<1>11. CASE Set BY <1>1, <1>2, <1>3, <1>11 DEF Set
<1>12. CASE OtherCalls BY <1>4, <1>5, <1>6, <1>7, <1>8, <1>12 DEF OtherCalls
<1>13. CASE TimePasses
  <2>1. clock + 1 \in 1 .. MaxClock /\ current_time_ms(clock + 1) BY <1>t, <1>13 DEF TimePasses
  <2> QED BY <1>9, <2>1
<1>14. CASE TimeIsSetBack
  <2>1. PICK t \in 1 .. (clock - 1) : current_time_ms(t) BY <1>14 DEF TimeIsSetBack
  <2>2. t \in 1 .. MaxClock BY <1>t
  <2> QED BY <1>9, <2>1, <2>2
<1> QED BY <1>10, <1>11, <1>12, <1>13, <1>14 DEF Next

\* The memory invariant, for any elements, TTLs and nodes, with allocations
\* that fail and a clock that is set back.
THEOREM LawnMemory == Spec => []MemoryInv
<1>1. Init => MemoryInv BY InitOrderInv DEF OrderInv
<1>2. MemoryInv /\ [Next]_vars => MemoryInv' BY NextKeepsMemoryInv
<1> QED BY <1>1, <1>2, PTL DEF Spec

\* A node is in the mapped queue of its ttl, once, exactly while the lawn
\* owns it, and queue->len never falls below the number of nodes.
THEOREM LawnQueuesHoldOwnedNodes == Spec => []QueuesHoldOwnedNodes
<1>1. MemoryInv => QueuesHoldOwnedNodes BY DEF MemoryInv
<1> QED BY <1>1, LawnMemory, PTL

\* element_nodes only leads to nodes the lawn owns, made for that element.
THEOREM LawnElementMap == Spec => []ElementMapLeadsToOwnedNodes
<1>1. MemoryInv => ElementMapLeadsToOwnedNodes BY DEF MemoryInv
<1> QED BY <1>1, LawnMemory, PTL

(***************************************************************************)
(* Order and next_expiration, in benign surroundings.                       *)
(***************************************************************************)
HeadDeadlines(Q, exp) == {exp[Q[k][1]] : k \in {j \in TTL : Q[j] # <<>>}}

\* The least head of queues that are in order is the least of all they hold.
LEMMA LeastHead ==
  ASSUME NEW Q \in [TTL -> Seq(Node)], NEW exp \in [Node -> Nat], NEW held, held \subseteq Node, held # {},
         \A n \in held : \E k \in TTL : \E i \in 1 .. Len(Q[k]) : Q[k][i] = n,
         \A k \in TTL : \A i \in 1 .. Len(Q[k]) : Q[k][i] \in held /\ exp[Q[k][1]] <= exp[Q[k][i]]
  PROVE  LET m == Minimum(HeadDeadlines(Q, exp))
         IN  (\E n \in held : exp[n] = m) /\ (\A n \in held : m <= exp[n]) /\ m \in Nat
<1> DEFINE nonempty == {j \in TTL : Q[j] # <<>>}
           S == HeadDeadlines(Q, exp)
           m == Minimum(S)
<1> USE DEF HeadDeadlines
<1>1. \A k \in TTL : Q[k] \in Seq(Node) /\ Len(Q[k]) \in Nat BY LenProperties
<1>2. ASSUME NEW k \in nonempty PROVE Q[k][1] \in held
  <2>1. Len(Q[k]) # 0 BY <1>1, EmptySeq
  <2>2. 1 \in 1 .. Len(Q[k]) BY <1>1, <2>1
  <2> QED BY <2>2
<1>3. ASSUME NEW n \in held PROVE \E x \in S : x <= exp[n]
  <2>1. PICK k \in TTL : \E i \in 1 .. Len(Q[k]) : Q[k][i] = n OBVIOUS
  <2>2. PICK i \in 1 .. Len(Q[k]) : Q[k][i] = n BY <2>1
  <2>3. Q[k] # <<>> BY <1>1, <2>2
  <2>4. exp[Q[k][1]] <= exp[n] BY <2>2
  <2> QED BY <2>3, <2>4
<1>4. S \subseteq Nat BY <1>2
<1>5. S # {} BY <1>3
<1> HIDE DEF m
<1>7. m \in S /\ \A x \in S : m <= x
  <2> HIDE DEF S
  <2> QED BY <1>4, <1>5, MinimumIsLeast DEF m
<1>8. PICK k \in nonempty : m = exp[Q[k][1]] BY <1>7
<1>9. Q[k][1] \in held BY <1>2
<1>10. ASSUME NEW n \in held PROVE m <= exp[n]
  <2>1. PICK x \in S : x <= exp[n] BY <1>3
  <2>2. x \in Nat /\ m \in Nat /\ exp[n] \in Nat /\ m <= x BY <1>4, <1>7
  <2> QED BY <2>1, <2>2
<1> QED BY <1>4, <1>7, <1>8, <1>9, <1>10 DEF m

\* OrderInv lets the previous lemma be used on the queues as they are.
LEMMA OrderFacts ==
  ASSUME Typed, QueuesHoldOwnedNodes, QueuesSelfSorted
  PROVE  /\ Queued \subseteq Node
         /\ \A n \in Queued : \E k \in TTL : \E i \in 1 .. Len(queue[k]) : queue[k][i] = n
         /\ \A k \in TTL : \A i \in 1 .. Len(queue[k]) :
              queue[k][i] \in Queued /\ expiration[queue[k][1]] <= expiration[queue[k][i]]
<1>1. Queued \subseteq Node BY DEF Queued
<1>2. \A n \in Queued : \E k \in TTL : \E i \in 1 .. Len(queue[k]) : queue[k][i] = n
  BY QueueFacts
<1>3. ASSUME NEW k \in TTL, NEW i \in 1 .. Len(queue[k])
      PROVE  queue[k][i] \in Queued /\ expiration[queue[k][1]] <= expiration[queue[k][i]]
  <2>1. Len(queue[k]) \in Nat /\ DOMAIN queue[k] = 1 .. Len(queue[k]) BY QueueFacts
  <2>2. 1 \in DOMAIN queue[k] /\ i \in DOMAIN queue[k] /\ 1 <= i BY <2>1
  <2>3. expiration[queue[k][1]] <= expiration[queue[k][i]] BY <2>2 DEF QueuesSelfSorted
  <2> QED BY <2>3, QueueFacts DEF Queued
<1> QED BY <1>1, <1>2, <1>3

\* _get_next_node returns a node that no other precedes.
LEMMA NextNodeIsClosest ==
  ASSUME Typed, QueuesHoldOwnedNodes, QueuesSelfSorted, NEW n \in Node, IsNextNode(n)
  PROVE  n \in Queued /\ \A m \in Queued : expiration[n] <= expiration[m]
<1>1. n \in Queued BY NextNodeIsQueued
<1>2. ASSUME NEW m \in Queued PROVE expiration[n] <= expiration[m]
  <2>1. PICK k \in TTL : \E i \in 1 .. Len(queue[k]) : queue[k][i] = m BY OrderFacts
  <2>2. PICK i \in 1 .. Len(queue[k]) : queue[k][i] = m BY <2>1
  <2>3. queue[k] \in Seq(Node) /\ Len(queue[k]) \in Nat BY QueueFacts
  <2>4. queue[k] # <<>> BY <2>2, <2>3
  <2>5. k \in Scanned BY <2>4, ScannedIsNonEmpty
  <2>6. expiration[n] <= expiration[queue[k][1]] BY <2>5 DEF IsNextNode
  <2>7. expiration[queue[k][1]] <= expiration[m] BY <2>2, OrderFacts
  <2>8. queue[k][1] \in Node BY <2>5, ScannedIsNonEmpty DEF Queued
  <2>9. expiration[n] \in Nat /\ expiration[m] \in Nat /\ expiration[queue[k][1]] \in Nat
    BY <2>8 DEF Typed, Queued
  <2> QED BY <2>6, <2>7, <2>9
<1> QED BY <1>1, <1>2

\* A step after which the lawn holds no node it did not hold, with the same
\* deadlines, at a time that is not before.
LEMMA FewerKeepsDeadlines ==
  ASSUME Typed, DeadlineWithinTTL, Queued' \subseteq Queued, clock' \in Nat, clock' >= clock,
         \A n \in Queued' : expiration'[n] = expiration[n] /\ ttl_queue'[n] = ttl_queue[n]
  PROVE  DeadlineWithinTTL'
<1> SUFFICES ASSUME NEW n \in Queued' PROVE expiration'[n] \in 1 .. (clock' + ttl_queue'[n])
  BY DEF DeadlineWithinTTL
<1>1. n \in Queued /\ n \in Node BY DEF Queued
<1>2. expiration[n] \in 1 .. (clock + ttl_queue[n]) /\ ttl_queue[n] \in Nat /\ clock \in Nat
  BY <1>1 DEF DeadlineWithinTTL, Typed
<1> QED BY <1>2

\* set_element_ttl.
LEMMA SetKeepsOrderInv ==
  ASSUME OrderInv, NEW n \in Node, NEW e \in Element, NEW k \in TTL, set_element_ttl(n, e, k)
  PROVE  /\ OrderInv'
         /\ n \notin Queued
         /\ Queued' = Queued \cup {n}
         /\ expiration'[n] = clock + k
         /\ \A m \in Queued : expiration'[m] = expiration[m]
<1>i. MemoryInv /\ QueuesSelfSorted /\ DeadlineWithinTTL /\ KnownIsClosest BY DEF OrderInv
<1>t. clock \in Nat \ {0} /\ next_expiration \in Nat /\ k \in Nat /\ expiration \in [Node -> Nat]
  BY <1>i, ConstantsAssumption DEF MemoryInv, Typed
<1>1. /\ NewNode(n, e, k) /\ Queue(n, k) /\ clock' = clock /\ popped' = {}
      /\ element_nodes' = [element_nodes EXCEPT ![e] = n]
      /\ next_expiration' = IF clock + k < next_expiration THEN clock + k ELSE next_expiration
  BY DEF set_element_ttl, Lowered
<1>2. next_expiration' \in Nat BY <1>t, <1>1
<1>3. /\ MemoryInv'
      /\ n \notin Queued
      /\ Queued' = Queued \cup {n}
      /\ expiration'[n] = clock + k /\ ttl_queue'[n] = k
      /\ \A m \in Queued : expiration'[m] = expiration[m] /\ ttl_queue'[m] = ttl_queue[m]
      /\ QueuesSelfSorted'
  BY <1>i, <1>1, <1>2, QueueKeepsMemoryInv
<1>4. DeadlineWithinTTL'
  <2> SUFFICES ASSUME NEW m \in Queued' PROVE expiration'[m] \in 1 .. (clock' + ttl_queue'[m])
    BY DEF DeadlineWithinTTL
  <2>1. CASE m = n BY <1>t, <1>1, <1>3, <2>1
  <2>2. CASE m # n
    <3>1. m \in Queued /\ expiration[m] \in 1 .. (clock + ttl_queue[m])
      BY <1>i, <1>3, <2>2 DEF DeadlineWithinTTL
    <3> QED BY <1>1, <1>3, <3>1
  <2> QED BY <2>1, <2>2
<1>5. KnownIsClosest'
  <2> SUFFICES ASSUME next_expiration' # 0
               PROVE  /\ \E m \in Queued' : expiration'[m] = next_expiration'
                      /\ \A m \in Queued' : next_expiration' <= expiration'[m]
    BY DEF KnownIsClosest
  <2>1. next_expiration # 0 BY <1>t, <1>1
  <2>2. PICK x \in Queued : expiration[x] = next_expiration BY <1>i, <2>1 DEF KnownIsClosest
  <2>3. \A m \in Queued : next_expiration <= expiration[m] /\ expiration[m] \in Nat
    BY <1>i, <1>t, <2>1 DEF KnownIsClosest, Queued
  <2>4. \E m \in Queued' : expiration'[m] = next_expiration' BY <1>1, <1>3, <2>2
  <2>5. \A m \in Queued' : next_expiration' <= expiration'[m] BY <1>t, <1>1, <1>3, <2>3
  <2> QED BY <2>4, <2>5
<1> QED BY <1>3, <1>4, <1>5 DEF OrderInv

\* _removeNode, given what next_expiration was or was just found to be.
LEMMA RemoveKeepsOrderInv ==
  ASSUME OrderInv, NEW n \in Queued, NEW known \in Nat, removeNode(n, known),
         \/ known = next_expiration
         \/ known = Known(expiration[n]) /\ \A m \in Queued : expiration[n] <= expiration[m],
         clock' = clock, popped' \subseteq Node,
         owner' \in [Node -> {"none", "lawn", "client", "leaked"}], owner'[n] # "lawn",
         element' \in [Node -> Element \cup {NULL}], ttl_queue' \in [Node -> Nat],
         expiration' \in [Node -> Nat],
         \A m \in Node : m # n => /\ owner'[m] = owner[m] /\ element'[m] = element[m]
                                  /\ ttl_queue'[m] = ttl_queue[m] /\ expiration'[m] = expiration[m]
  PROVE  /\ OrderInv'
         /\ Queued' = Queued \ {n}
<1>i. MemoryInv /\ QueuesSelfSorted /\ DeadlineWithinTTL /\ KnownIsClosest BY DEF OrderInv
<1>t. /\ clock \in Nat /\ next_expiration \in Nat /\ expiration \in [Node -> Nat] /\ Queued \subseteq Node
      /\ expiration[n] \in Nat \ {0}
  BY <1>i, ConstantsAssumption DEF MemoryInv, Typed, Queued, DeadlineWithinTTL
<1>1. MemoryInv' /\ Queued' = Queued \ {n} /\ QueuesSelfSorted'
  BY <1>i, RemoveKeepsMemoryInv
<1>2. DeadlineWithinTTL'
  BY <1>i, <1>t, <1>1, FewerKeepsDeadlines DEF MemoryInv
<1>3. next_expiration' = IF expiration[n] <= known THEN 0 ELSE known
  BY DEF removeNode, Forgotten
<1>4. KnownIsClosest'
  <2> SUFFICES ASSUME next_expiration' # 0
               PROVE  /\ \E m \in Queued' : expiration'[m] = next_expiration'
                      /\ \A m \in Queued' : next_expiration' <= expiration'[m]
    BY DEF KnownIsClosest
  <2>1. known # 0 /\ next_expiration' = known /\ expiration[n] > known BY <1>t, <1>3
  <2>2. known = next_expiration
    BY <1>t, <2>1 DEF Known
  <2>3. PICK x \in Queued : expiration[x] = known BY <1>i, <2>1, <2>2 DEF KnownIsClosest
  <2>4. x # n BY <1>t, <2>1, <2>3
  <2>5. \A m \in Queued : known <= expiration[m] BY <1>i, <2>1, <2>2 DEF KnownIsClosest
  <2>6. \A m \in Queued' : m \in Queued /\ expiration'[m] = expiration[m] BY <1>t, <1>1
  <2> QED BY <1>1, <2>1, <2>3, <2>4, <2>5, <2>6
<1> QED BY <1>1, <1>2, <1>4 DEF OrderInv

\* pop_expired takes out what is due and leaves the rest in order, with its
\* least deadline known.
LEMMA PopKeepsOrderInv ==
  ASSUME OrderInv, pop_expired
  PROVE  /\ OrderInv'
         /\ Queued' = Queued \ popped'
         /\ popped' = {n \in Queued : expiration[n] <= clock}
         /\ UNCHANGED <<clock, expiration>>
<1>i. MemoryInv /\ QueuesSelfSorted /\ DeadlineWithinTTL /\ KnownIsClosest BY DEF OrderInv
<1>t. /\ clock \in Nat /\ clock \in 1 .. MaxClock /\ next_expiration \in Nat
      /\ expiration \in [Node -> Nat] /\ Queued \subseteq Node
      /\ Typed /\ QueuesHoldOwnedNodes
  BY <1>i, ConstantsAssumption DEF MemoryInv, Typed, Queued
<1>1. CASE ~(clock >= next_expiration)
  <2>1. /\ popped' = {}
        /\ UNCHANGED <<clock, timeout_queues, queue, len, element_nodes, next_expiration, nodeVars, owner>>
    BY <1>1 DEF pop_expired, lawnVars
  <2>2. MemoryInv' /\ Queued' = Queued /\ QueuesSelfSorted' /\ UNCHANGED <<ttl_queue, expiration>>
    BY <1>i, <1>t, <2>1, IdleKeepsMemoryInv DEF nodeVars
  <2>3. DeadlineWithinTTL' /\ KnownIsClosest'
    BY <1>i, <2>1, <2>2 DEF DeadlineWithinTTL, KnownIsClosest
  <2>4. \A n \in Queued : ~(expiration[n] <= clock)
    <3>1. \A n \in Queued : next_expiration <= expiration[n] /\ expiration[n] \in Nat
      BY <1>i, <1>t, <1>1 DEF KnownIsClosest
    <3> QED BY <1>t, <1>1, <3>1
  <2> QED BY <2>1, <2>2, <2>3, <2>4 DEF OrderInv
<1>2. CASE clock >= next_expiration
  <2>1. /\ MemoryInv'
        /\ popped' \subseteq Queued
        /\ Queued' = Queued \ popped'
        /\ \A n \in popped' : expiration[n] <= clock
        /\ UNCHANGED <<clock, timeout_queues, nodeVars>>
        /\ next_expiration' = IF Queued' = {} THEN 0
                              ELSE Minimum({expiration[queue'[k][1]] : k \in {j \in TTL : queue'[j] # <<>>}})
        /\ \A k \in TTL : \E d \in 0 .. Len(queue[k]) :
             /\ Len(queue'[k]) = Len(queue[k]) - d
             /\ d < Len(queue[k]) => ~(expiration[queue[k][d + 1]] <= clock)
             /\ \A i \in 1 .. Len(queue'[k]) : i + d \in 1 .. Len(queue[k]) /\ queue'[k][i] = queue[k][i + d]
    BY <1>i, <1>2, PopKeepsMemoryInv
  <2>2. UNCHANGED <<ttl_queue, expiration>> BY <2>1 DEF nodeVars
  <2>3. \A k \in TTL : /\ queue[k] \in Seq(Node) /\ Len(queue[k]) \in Nat
                       /\ DOMAIN queue[k] = 1 .. Len(queue[k])
    BY <1>t, QueueFacts
  <2>4. /\ queue' \in [TTL -> Seq(Node)]
        /\ \A k \in TTL : /\ queue'[k] \in Seq(Node) /\ Len(queue'[k]) \in Nat
                          /\ DOMAIN queue'[k] = 1 .. Len(queue'[k])
    <3>1. queue' \in [TTL -> Seq(Node)] BY <2>1 DEF MemoryInv, Typed
    <3> QED BY <3>1, LenProperties
  <2>5. ASSUME NEW k \in TTL, NEW i \in 1 .. Len(queue'[k])
        PROVE  /\ queue'[k][i] \in Node
               /\ ~(expiration[queue'[k][i]] <= clock)
               /\ \A j \in 1 .. Len(queue'[k]) : i <= j => expiration[queue'[k][i]] <= expiration[queue'[k][j]]
    <3>1. PICK d \in 0 .. Len(queue[k]) :
             /\ Len(queue'[k]) = Len(queue[k]) - d
             /\ d < Len(queue[k]) => ~(expiration[queue[k][d + 1]] <= clock)
             /\ \A x \in 1 .. Len(queue'[k]) : x + d \in 1 .. Len(queue[k]) /\ queue'[k][x] = queue[k][x + d]
      BY <2>1
    <3>2. i + d \in 1 .. Len(queue[k]) /\ queue'[k][i] = queue[k][i + d] BY <3>1
    <3>3. d < Len(queue[k]) /\ d + 1 \in 1 .. Len(queue[k]) /\ d + 1 <= i + d BY <2>3, <3>2
    <3>4. expiration[queue[k][d + 1]] <= expiration[queue[k][i + d]]
      BY <1>i, <2>3, <3>2, <3>3 DEF QueuesSelfSorted
    <3>5. queue[k][d + 1] \in Node /\ queue[k][i + d] \in Node BY <1>t, <3>2, <3>3, QueueFacts
    <3>6. ~(expiration[queue[k][d + 1]] <= clock) BY <3>1, <3>3
    <3>7. expiration[queue[k][d + 1]] \in Nat /\ expiration[queue[k][i + d]] \in Nat BY <1>t, <3>5
    <3>8. ~(expiration[queue[k][i + d]] <= clock) BY <1>t, <3>4, <3>6, <3>7
    <3>9. ASSUME NEW j \in 1 .. Len(queue'[k]), i <= j
          PROVE  expiration[queue'[k][i]] <= expiration[queue'[k][j]]
      <4>1. j + d \in 1 .. Len(queue[k]) /\ queue'[k][j] = queue[k][j + d] /\ i + d <= j + d
        BY <2>4, <3>1, <3>9
      <4>2. expiration[queue[k][i + d]] <= expiration[queue[k][j + d]]
        BY <1>i, <2>3, <3>2, <4>1 DEF QueuesSelfSorted
      <4> QED BY <3>2, <4>1, <4>2
    <3> QED BY <3>2, <3>5, <3>8, <3>9
  <2>6. QueuesSelfSorted'
    <3> SUFFICES ASSUME NEW k \in TTL, NEW i \in DOMAIN queue'[k], NEW j \in DOMAIN queue'[k], i <= j
                 PROVE  expiration'[queue'[k][i]] <= expiration'[queue'[k][j]]
      BY DEF QueuesSelfSorted
    <3>1. i \in 1 .. Len(queue'[k]) /\ j \in 1 .. Len(queue'[k]) BY <2>4
    <3>2. expiration[queue'[k][i]] <= expiration[queue'[k][j]] BY <2>5, <3>1
    <3> QED BY <2>2, <3>2
  <2>7. \A n \in Queued' : \E k \in TTL : \E i \in 1 .. Len(queue'[k]) : queue'[k][i] = n
    <3> SUFFICES ASSUME NEW n \in Queued' PROVE \E k \in TTL : \E i \in 1 .. Len(queue'[k]) : queue'[k][i] = n
      OBVIOUS
    <3> DEFINE k == ttl_queue'[n]
    <3>1. k \in timeout_queues' /\ \E i \in DOMAIN queue'[k] : queue'[k][i] = n
      BY <2>1 DEF MemoryInv, QueuesHoldOwnedNodes
    <3>2. k \in TTL BY <2>1, <3>1 DEF MemoryInv, Typed
    <3> HIDE DEF k
    <3>3. DOMAIN queue'[k] = 1 .. Len(queue'[k]) BY <2>4, <3>2
    <3> QED BY <3>1, <3>2, <3>3
  <2>8. popped' = {n \in Queued : expiration[n] <= clock}
    <3>1. \A n \in Queued' : ~(expiration[n] <= clock) BY <2>5, <2>7
    <3> QED BY <2>1, <3>1
  <2>9. DeadlineWithinTTL'
    BY <1>i, <1>t, <2>1, <2>2, FewerKeepsDeadlines
  <2>10. KnownIsClosest'
    <3>1. CASE Queued' = {} BY <2>1, <3>1 DEF KnownIsClosest
    <3>2. CASE Queued' # {}
      <4>1. next_expiration' = Minimum({expiration[queue'[k][1]] : k \in {j \in TTL : queue'[j] # <<>>}})
        BY <2>1, <3>2
      <4>2. Queued' \subseteq Node BY <1>t, <2>1
      <4>3. ASSUME NEW k \in TTL, NEW i \in 1 .. Len(queue'[k])
            PROVE  queue'[k][i] \in Queued' /\ expiration[queue'[k][1]] <= expiration[queue'[k][i]]
        <5>1. i \in DOMAIN queue'[k] /\ 1 \in 1 .. Len(queue'[k]) /\ 1 <= i BY <2>4
        <5>2. queue'[k][i] \in Node /\ expiration[queue'[k][1]] <= expiration[queue'[k][i]] BY <2>5, <5>1
        <5>3. owner'[queue'[k][i]] = "lawn" BY <2>1, <5>1 DEF MemoryInv, QueuesHoldOwnedNodes
        <5> QED BY <5>2, <5>3 DEF Queued
      <4> DEFINE QQ == queue'
                 held == Queued'
                 m == next_expiration'
      <4>4. QQ \in [TTL -> Seq(Node)] /\ held \subseteq Node /\ held # {}
        BY <2>4, <3>2, <4>2
      <4>5. \A n \in held : \E k \in TTL : \E i \in 1 .. Len(QQ[k]) : QQ[k][i] = n BY <2>7
      <4>6. \A k \in TTL : \A i \in 1 .. Len(QQ[k]) : QQ[k][i] \in held /\ expiration[QQ[k][1]] <= expiration[QQ[k][i]]
        BY <4>3
      <4>7. m = Minimum(HeadDeadlines(QQ, expiration)) BY <4>1 DEF HeadDeadlines
      <4> HIDE DEF QQ, held, m
      <4>8. LET l == Minimum(HeadDeadlines(QQ, expiration))
            IN  (\E n \in held : expiration[n] = l) /\ (\A n \in held : l <= expiration[n]) /\ l \in Nat
        BY <1>t, <4>4, <4>5, <4>6, LeastHead
      <4>9. (\E n \in held : expiration[n] = m) /\ (\A n \in held : m <= expiration[n])
        BY <4>7, <4>8
      <4> QED BY <2>2, <4>9 DEF KnownIsClosest, held, m
    <3> QED BY <3>1, <3>2
  <2> QED BY <2>1, <2>2, <2>6, <2>8, <2>9, <2>10 DEF OrderInv
<1> QED BY <1>1, <1>2

\* A step that leaves the queues and the nodes the lawn owns alone keeps the
\* invariant and skips in the abstract store.
LEMMA IdleKeepsOrderInv ==
  ASSUME OrderInv, MemoryInv', Queued' = Queued, QueuesSelfSorted',
         clock' \in 1 .. MaxClock, clock' >= clock, popped' = {},
         \A n \in Queued : expiration'[n] = expiration[n] /\ ttl_queue'[n] = ttl_queue[n],
         \/ next_expiration' = next_expiration
         \/ /\ \E n \in Queued : expiration[n] = next_expiration'
            /\ \A n \in Queued : next_expiration' <= expiration[n]
  PROVE  OrderInv' /\ TS!Next
<1>i. MemoryInv /\ DeadlineWithinTTL /\ KnownIsClosest BY DEF OrderInv
<1>1. clock' \in Nat BY ConstantsAssumption
<1>2. DeadlineWithinTTL' BY <1>i, <1>1, FewerKeepsDeadlines DEF MemoryInv
<1>3. KnownIsClosest' BY <1>i DEF KnownIsClosest
<1>4. {<<n, expiration'[n]>> : n \in Queued'} = {<<n, expiration[n]>> : n \in Queued}
  OBVIOUS
<1>5. {<<n, expiration'[n]>> : n \in popped'} = {} OBVIOUS
<1>6. PICK t \in 1 .. MaxClock : t = clock' OBVIOUS
<1>7. TS!Next
  <2>1. TS!Skip(t) BY <1>4, <1>5, <1>6 DEF TS!Skip
  <2> QED BY <2>1 DEF TS!Next
<1> QED BY <1>2, <1>3, <1>7 DEF OrderInv

\* In benign surroundings every step keeps the order invariant and is a step
\* of the abstract store, or leaves it alone.
LEMMA NextKeepsOrderInv ==
  ASSUME Benign
  PROVE  OrderInv /\ [Next]_vars => OrderInv' /\ [TS!Next]_(TS!vars)
<1> SUFFICES ASSUME OrderInv, [Next]_vars PROVE OrderInv' /\ [TS!Next]_(TS!vars) OBVIOUS
<1>i. /\ MemoryInv /\ QueuesSelfSorted /\ DeadlineWithinTTL /\ KnownIsClosest
      /\ Typed /\ QueuesHoldOwnedNodes /\ ElementMapLeadsToOwnedNodes
  BY DEF OrderInv, MemoryInv
<1>t. /\ clock \in 1 .. MaxClock /\ clock \in Nat /\ MaxClock \in Nat /\ next_expiration \in Nat
      /\ owner \in [Node -> {"none", "lawn", "client", "leaked"}]
      /\ expiration \in [Node -> Nat] /\ element_nodes \in [Element -> Node \cup {NULL}]
      /\ element \in [Node -> Element \cup {NULL}] /\ ttl_queue \in [Node -> Nat]
      /\ Queued \subseteq Node
  BY <1>i, ConstantsAssumption DEF Typed, Queued
<1>m. ASSUME Next PROVE MemoryInv' BY <1>i, <1>m, NextKeepsMemoryInv
<1>1. ASSUME NEW n \in Node, NEW e \in Element, NEW k \in TTL, set_element_ttl(n, e, k)
      PROVE  OrderInv' /\ TS!Next
  <2>1. /\ OrderInv'
        /\ n \notin Queued
        /\ Queued' = Queued \cup {n}
        /\ expiration'[n] = clock + k
        /\ \A m \in Queued : expiration'[m] = expiration[m]
    BY <1>1, SetKeepsOrderInv
  <2>2. clock' = clock /\ popped' = {} BY <1>1 DEF set_element_ttl
  <2>3. {<<m, expiration'[m]>> : m \in Queued'} = {<<m, expiration[m]>> : m \in Queued} \cup {<<n, clock + k>>}
    BY <2>1
  <2>4. \A p \in {<<m, expiration[m]>> : m \in Queued} : p[1] # n BY <2>1
  <2>5. TS!Start(n, k) BY <2>2, <2>3, <2>4 DEF TS!Start
  <2> QED BY <2>1, <2>5 DEF TS!Next
<1>2. ASSUME NEW e \in Element, del_element_exp(e), MemoryInv' PROVE OrderInv' /\ TS!Next
  <2> DEFINE n == element_nodes[e]
  <2>1. CASE n = NULL
    <3>1. \/ popped' = {} /\ UNCHANGED <<clock, lawnVars, nodeVars, owner>>
          \/ n # NULL
      BY <1>2 DEF del_element_exp
    <3>2. popped' = {} /\ UNCHANGED <<clock, timeout_queues, queue, len, element_nodes, next_expiration, nodeVars, owner>>
      BY <2>1, <3>1 DEF lawnVars
    <3>3. Queued' = Queued /\ QueuesSelfSorted' /\ UNCHANGED <<ttl_queue, expiration>>
      BY <1>i, <1>t, <3>2, IdleKeepsMemoryInv DEF nodeVars
    <3> QED BY <1>t, <1>2, <3>2, <3>3, IdleKeepsOrderInv
  <2>2. CASE n # NULL
    <3>1. removeNode(n, next_expiration) /\ Freed(n) /\ popped' = {} /\ clock' = clock
      BY <1>2, <2>2 DEF del_element_exp
    <3>2. n \in Node /\ n \in Queued
      BY <1>i, <1>t, <2>2 DEF ElementMapLeadsToOwnedNodes, Queued
    <3> HIDE DEF n
    <3>3. /\ owner' \in [Node -> {"none", "lawn", "client", "leaked"}] /\ owner'[n] # "lawn"
          /\ element' \in [Node -> Element \cup {NULL}]
          /\ ttl_queue' \in [Node -> Nat]
          /\ expiration' \in [Node -> Nat]
          /\ \A m \in Node : m # n => /\ owner'[m] = owner[m] /\ element'[m] = element[m]
                                      /\ ttl_queue'[m] = ttl_queue[m] /\ expiration'[m] = expiration[m]
      BY <1>i, <3>1, <3>2, FreedFacts
    <3>4. OrderInv' /\ Queued' = Queued \ {n}
      BY <1>t, <3>1, <3>2, <3>3, RemoveKeepsOrderInv
    <3>5. {<<m, expiration'[m]>> : m \in Queued'} = {p \in {<<m, expiration[m]>> : m \in Queued} : p[1] # n}
      BY <1>t, <3>3, <3>4
    <3>6. {<<m, expiration'[m]>> : m \in popped'} = {} BY <3>1
    <3>7. PICK x \in Node : x = n BY <3>2
    <3>8. TS!Stop(x) BY <3>1, <3>5, <3>6, <3>7 DEF TS!Stop
    <3>9. TS!Next BY <3>8 DEF TS!Next
    <3> QED BY <3>4, <3>9
  <2> QED BY <2>1, <2>2
<1>3. ASSUME next_at, MemoryInv' PROVE OrderInv' /\ TS!Next
  <2>1. popped' = {} /\ UNCHANGED <<clock, timeout_queues, queue, len, element_nodes, nodeVars, owner>>
    BY <1>3 DEF next_at
  <2>2. next_expiration' \in Nat BY <1>3 DEF MemoryInv, Typed
  <2>3. Queued' = Queued /\ QueuesSelfSorted' /\ UNCHANGED <<ttl_queue, expiration>>
    BY <1>i, <1>t, <2>1, <2>2, IdleKeepsMemoryInv DEF nodeVars
  <2>4. CASE next_expiration' = next_expiration
    BY <1>t, <1>3, <2>1, <2>3, <2>4, IdleKeepsOrderInv
  <2>5. ASSUME NEW n \in Node, IsNextNode(n), next_expiration' = expiration[n]
        PROVE  OrderInv' /\ TS!Next
    <3>1. n \in Queued /\ \A m \in Queued : expiration[n] <= expiration[m]
      BY <1>i, <2>5, NextNodeIsClosest
    <3> QED BY <1>t, <1>3, <2>1, <2>3, <2>5, <3>1, IdleKeepsOrderInv
  <2> QED BY <1>3, <2>4, <2>5 DEF next_at
<1>4. ASSUME pop_next, MemoryInv' PROVE OrderInv' /\ TS!Next
  <2>1. CASE popped' = {} /\ UNCHANGED <<clock, lawnVars, nodeVars, owner>>
    <3>1. UNCHANGED <<clock, timeout_queues, queue, len, element_nodes, next_expiration, nodeVars, owner>>
      BY <2>1 DEF lawnVars
    <3>2. Queued' = Queued /\ QueuesSelfSorted' /\ UNCHANGED <<ttl_queue, expiration>>
      BY <1>i, <1>t, <2>1, <3>1, IdleKeepsMemoryInv DEF nodeVars
    <3> QED BY <1>t, <1>4, <2>1, <3>1, <3>2, IdleKeepsOrderInv
  <2>2. ASSUME NEW n \in Node, IsNextNode(n), removeNode(n, Known(expiration[n])),
               owner' = [owner EXCEPT ![n] = "client"], popped' = {n}, UNCHANGED <<clock, nodeVars>>
        PROVE  OrderInv' /\ TS!Next
    <3>1. n \in Queued /\ \A m \in Queued : expiration[n] <= expiration[m]
      BY <1>i, <2>2, NextNodeIsClosest
    <3>2. Known(expiration[n]) \in Nat BY <1>t DEF Known
    <3>3. owner' \in [Node -> {"none", "lawn", "client", "leaked"}] /\ owner'[n] # "lawn"
      BY <1>t, <2>2
    <3>4. UNCHANGED <<element, ttl_queue, expiration>> /\ \A m \in Node : m # n => owner'[m] = owner[m]
      BY <1>t, <2>2 DEF nodeVars
    <3>5. OrderInv' /\ Queued' = Queued \ {n}
      BY <1>t, <2>2, <3>1, <3>2, <3>3, <3>4, RemoveKeepsOrderInv
    <3> DEFINE pend == {<<m, expiration[m]>> : m \in Queued}
               p == <<n, expiration[n]>>
    <3>6. {<<m, expiration'[m]>> : m \in Queued'} = pend \ {p} BY <3>4, <3>5
    <3>7. {<<m, expiration'[m]>> : m \in popped'} = {p} BY <2>2, <3>4
    <3>8. p \in pend /\ \A x \in pend : p[2] <= x[2] BY <3>1
    <3>9. clock' = clock BY <2>2
    <3> HIDE DEF p
    <3>10. TS!PopNext BY <3>6, <3>7, <3>8, <3>9 DEF TS!PopNext
    <3> QED BY <3>5, <3>10 DEF TS!Next
  <2> QED BY <1>4, <2>1, <2>2 DEF pop_next
<1>5. ASSUME pop_expired PROVE OrderInv' /\ TS!Next
  <2>1. /\ OrderInv'
        /\ Queued' = Queued \ popped'
        /\ popped' = {n \in Queued : expiration[n] <= clock}
        /\ UNCHANGED <<clock, expiration>>
    BY <1>5, PopKeepsOrderInv
  <2> DEFINE pend == {<<n, expiration[n]>> : n \in Queued}
             due == {p \in pend : p[2] <= clock}
  <2>2. {<<n, expiration'[n]>> : n \in popped'} = due BY <2>1
  <2>3. {<<n, expiration'[n]>> : n \in Queued'} = pend \ due BY <2>1
  <2>4. clock' = clock /\ clock >= clock BY <1>t, <2>1
  <2>5. TS!Poll(clock, TRUE) BY <2>2, <2>3, <2>4 DEF TS!Poll, TS!Due
  <2> QED BY <1>t, <2>1, <2>5 DEF TS!Next
<1>6. ASSUME NEW n \in Node, freeNode(n), MemoryInv' PROVE OrderInv' /\ TS!Next
  <2>1. owner[n] # "lawn" /\ Freed(n) /\ popped' = {} /\ UNCHANGED <<lawnVars, clock>>
    BY <1>6 DEF freeNode
  <2>2. /\ owner' \in [Node -> {"none", "lawn", "client", "leaked"}] /\ owner'[n] # "lawn"
        /\ element' \in [Node -> Element \cup {NULL}]
        /\ ttl_queue' \in [Node -> Nat]
        /\ expiration' \in [Node -> Nat]
        /\ \A m \in Node : m # n => /\ owner'[m] = owner[m] /\ element'[m] = element[m]
                                    /\ ttl_queue'[m] = ttl_queue[m] /\ expiration'[m] = expiration[m]
    BY <1>i, <2>1, FreedFacts
  <2>3. Queued' = Queued /\ n \notin Queued /\ QueuesSelfSorted'
    BY <1>i, <2>1, <2>2, OutsideKeepsMemoryInv
  <2>4. \A m \in Queued : expiration'[m] = expiration[m] /\ ttl_queue'[m] = ttl_queue[m]
    BY <1>t, <2>2, <2>3
  <2>5. next_expiration' = next_expiration /\ clock' = clock BY <2>1 DEF lawnVars
  <2> QED BY <1>t, <1>6, <2>1, <2>3, <2>4, <2>5, IdleKeepsOrderInv
<1>7. ASSUME TimePasses, MemoryInv' PROVE OrderInv' /\ TS!Next
  <2>1. clock' = clock + 1 /\ clock < MaxClock /\ popped' = {} /\ UNCHANGED <<lawnVars, nodeVars, owner>>
    BY <1>7 DEF TimePasses, current_time_ms
  <2>2. UNCHANGED <<timeout_queues, queue, len, element_nodes, next_expiration, nodeVars, owner>>
    BY <2>1 DEF lawnVars
  <2>3. clock' \in 1 .. MaxClock /\ clock' >= clock BY <1>t, <2>1
  <2>4. Queued' = Queued /\ QueuesSelfSorted' /\ UNCHANGED <<ttl_queue, expiration>>
    BY <1>i, <1>t, <2>1, <2>2, <2>3, IdleKeepsMemoryInv DEF nodeVars
  <2> QED BY <1>7, <2>1, <2>2, <2>3, <2>4, IdleKeepsOrderInv
<1>8. CASE UNCHANGED vars
  <2>1. /\ UNCHANGED <<clock, timeout_queues, queue, len, element_nodes, next_expiration, nodeVars, owner>>
        /\ UNCHANGED <<ttl_queue, expiration, popped>>
    BY <1>8 DEF vars, lawnVars, nodeVars
  <2>2. popped' \subseteq Node BY <1>i, <2>1 DEF Typed
  <2>3. MemoryInv' /\ Queued' = Queued /\ QueuesSelfSorted'
    BY <1>i, <1>t, <2>1, <2>2, IdleKeepsMemoryInv
  <2>4. DeadlineWithinTTL' /\ KnownIsClosest'
    BY <1>i, <2>1, <2>3 DEF DeadlineWithinTTL, KnownIsClosest
  <2>5. UNCHANGED TS!vars BY <2>1, <2>3 DEF TS!vars
  <2> QED BY <2>3, <2>4, <2>5 DEF OrderInv
<1>9. CASE Next
  <2>1. MemoryInv' BY <1>m, <1>9
  <2>2. CASE Set BY <1>1, <2>2 DEF Set, Benign
  <2>3. CASE OtherCalls BY <1>2, <1>3, <1>4, <1>5, <1>6, <2>1, <2>3 DEF OtherCalls
  <2>4. CASE TimePasses BY <1>7, <2>1, <2>4
  <2>5. CASE TimeIsSetBack BY <2>5 DEF TimeIsSetBack, Benign
  <2> QED BY <1>9, <2>2, <2>3, <2>4, <2>5 DEF Next
<1> QED BY <1>8, <1>9

\* In benign surroundings the queues sort themselves and next_expiration,
\* while it is known, is the closest deadline.
THEOREM LawnOrder == ASSUME Benign PROVE Spec => []OrderInv
<1>1. Init => OrderInv BY InitOrderInv
<1>2. OrderInv /\ [Next]_vars => OrderInv' BY NextKeepsOrderInv
<1> QED BY <1>1, <1>2, PTL DEF Spec

\* next_at is exact, so the early return of pop_expired hides nothing due.
THEOREM LawnNextAt == ASSUME Benign PROVE Spec => []NextAtIsClosest
<1>1. OrderInv => NextAtIsClosest
  <2> SUFFICES ASSUME OrderInv PROVE NextAtIsClosest OBVIOUS
  <2>i. MemoryInv /\ Typed /\ QueuesHoldOwnedNodes /\ QueuesSelfSorted /\ KnownIsClosest
    BY DEF OrderInv, MemoryInv
  <2>1. Scanned = {} <=> Queued = {} BY <2>i, ScannedIsNonEmpty
  <2>2. CASE Queued = {}
    <3>1. next_expiration = 0 BY <2>i, <2>2 DEF KnownIsClosest
    <3> QED BY <2>1, <2>2, <3>1 DEF NextAtIsClosest, NextAt
  <2>3. CASE Queued # {}
    <3> DEFINE S == {expiration[n] : n \in Queued}
    <3>1. (\E n \in Queued : expiration[n] = NextAt) /\ (\A n \in Queued : NextAt <= expiration[n])
      <4>1. CASE next_expiration # 0
        <5>1. NextAt = next_expiration BY <4>1 DEF NextAt
        <5> QED BY <2>i, <4>1, <5>1 DEF KnownIsClosest
      <4>2. CASE next_expiration = 0
        <5>1. NextAt = Minimum({expiration[queue[k][1]] : k \in Scanned})
          BY <2>1, <2>3, <4>2 DEF NextAt
        <5>2. Scanned = {j \in TTL : queue[j] # <<>>} BY <2>i, ScannedIsNonEmpty
        <5>3. NextAt = Minimum(HeadDeadlines(queue, expiration)) BY <5>1, <5>2 DEF HeadDeadlines
        <5>4. queue \in [TTL -> Seq(Node)] /\ expiration \in [Node -> Nat] BY <2>i DEF Typed
        <5>5. /\ Queued \subseteq Node
              /\ \A n \in Queued : \E k \in TTL : \E i \in 1 .. Len(queue[k]) : queue[k][i] = n
              /\ \A k \in TTL : \A i \in 1 .. Len(queue[k]) :
                   queue[k][i] \in Queued /\ expiration[queue[k][1]] <= expiration[queue[k][i]]
          BY <2>i, OrderFacts
        <5>6. LET l == Minimum(HeadDeadlines(queue, expiration))
              IN  (\E n \in Queued : expiration[n] = l) /\ (\A n \in Queued : l <= expiration[n]) /\ l \in Nat
          BY <2>3, <5>4, <5>5, LeastHead
        <5> QED BY <5>3, <5>6
      <4> QED BY <4>1, <4>2
    <3>2. S \subseteq Nat /\ S # {} BY <2>i, <2>3 DEF Typed, Queued
    <3>3. NextAt \in S /\ \A x \in S : NextAt <= x BY <3>1
    <3> HIDE DEF S
    <3>4. Minimum(S) \in S /\ \A x \in S : Minimum(S) <= x BY <3>2, MinimumIsLeast
    <3>5. NextAt = Minimum(S)
      <4>1. NextAt \in Nat /\ Minimum(S) \in Nat BY <3>2, <3>3, <3>4
      <4>2. NextAt <= Minimum(S) /\ Minimum(S) <= NextAt BY <3>3, <3>4
      <4> QED BY <4>1, <4>2
    <3> QED BY <2>3, <3>5 DEF NextAtIsClosest, S
  <2> QED BY <2>2, <2>3
<1> QED BY <1>1, LawnOrder, PTL

\* lawn.c implements the abstract timer store, each node being a timer.
THEOREM LawnImplementsTimerStore == ASSUME Benign PROVE Spec => ImplementsTimerStore
<1>1. Init => TS!Init
  <2> SUFFICES ASSUME Init PROVE TS!Init OBVIOUS
  <2>1. Queued = {} /\ popped = {} /\ clock \in 1 .. MaxClock
    BY ConstantsAssumption DEF Init, Queued
  <2> QED BY <2>1 DEF TS!Init
<1>2. OrderInv /\ [Next]_vars => [TS!Next]_(TS!vars) BY NextKeepsOrderInv
<1> QED BY <1>1, <1>2, LawnOrder, PTL DEF Spec, ImplementsTimerStore, TS!Spec
===============================================================================
