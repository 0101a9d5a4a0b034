----------------------------- MODULE Lawn2Proofs -----------------------------
(***************************************************************************)
(* Proofs about Lawn2 for every set of nodes and TTLs and every bound: the  *)
(* inductive invariant Inv, the properties it implies, and that Lawn2       *)
(* implements TimerStore.                                                   *)
(***************************************************************************)
EXTENDS Lawn2, SeqLemmas, FiniteSetTheorems

(***************************************************************************)
(* Lemmas about the operators the actions are built from.                   *)
(***************************************************************************)
\* The recomputed next_expiration is the least of the candidates.
LEMMA MinimumIsLeast ==
  ASSUME NEW S, S \subseteq Nat, S # {}
  PROVE  Minimum(S) \in S /\ \A x \in S : Minimum(S) <= x
BY NatLeast DEF Minimum

\* The inner loop of collect_expired takes the longest expired prefix.
LEMMA ExpiredHeadsIsPrefix ==
  ASSUME NEW q \in Seq(Node), NEW t
  PROVE  /\ ExpiredHeads(q, t) \in 0 .. Len(q)
         /\ \A i \in 1 .. ExpiredHeads(q, t) : Expired(q[i], t)
         /\ ExpiredHeads(q, t) < Len(q) => ~Expired(q[ExpiredHeads(q, t) + 1], t)
<1> DEFINE P(d) == /\ \A i \in 1 .. d : Expired(q[i], t)
                   /\ d < Len(q) => ~Expired(q[d + 1], t)
           good == {i \in 1 .. Len(q) : Expired(q[i], t)}
<1>1. Len(q) \in Nat BY LenProperties
<1>2. PICK d \in 0 .. Len(q) : (\A i \in 1 .. d : i \in good) /\ (d < Len(q) => d + 1 \notin good)
  <2> HIDE DEF good
  <2> QED BY <1>1, LongestPrefix
<1>3. P(d) BY <1>1, <1>2
<1>4. ExpiredHeads(q, t) = CHOOSE c \in 0 .. Len(q) : P(c)
  BY DEF ExpiredHeads
<1> HIDE DEF P
<1>5. ExpiredHeads(q, t) \in 0 .. Len(q) /\ P(ExpiredHeads(q, t))
  BY <1>3, <1>4
<1> QED BY <1>5 DEF P

\* What is left of a queue after that loop.
LEMMA DrainedIsSuffix ==
  ASSUME NEW q \in Seq(Node), NEW t
  PROVE  /\ Drained(q, t) \in Seq(Node)
         /\ Len(Drained(q, t)) = Len(q) - ExpiredHeads(q, t)
         /\ \A i \in 1 .. Len(Drained(q, t)) :
              /\ i + ExpiredHeads(q, t) \in 1 .. Len(q)
              /\ Drained(q, t)[i] = q[i + ExpiredHeads(q, t)]
<1>1. ExpiredHeads(q, t) \in 0 .. Len(q)
  BY ExpiredHeadsIsPrefix
<1> QED BY <1>1, SeqDrop DEF Drained

\* Taking a node out by its links keeps the others in their order.
LEMMA UnlinkKeepsOrder ==
  ASSUME NEW q \in Seq(Node), NEW n, NEW a \in 1 .. Len(q), q[a] = n,
         \A i \in 1 .. Len(q) : q[i] = n => i = a
  PROVE  /\ Unlink(q, n) \in Seq(Node)
         /\ Len(Unlink(q, n)) = Len(q) - 1
         /\ \A i \in 1 .. (Len(q) - 1) : Unlink(q, n)[i] = IF i < a THEN q[i] ELSE q[i + 1]
<1>1. Len(q) \in Nat /\ DOMAIN q = 1 .. Len(q)
  BY LenProperties
<1>2. (CHOOSE i \in DOMAIN q : q[i] = n) = a
  BY <1>1
<1>3. Unlink(q, n) = [i \in 1 .. (Len(q) - 1) |-> IF i < a THEN q[i] ELSE q[i + 1]]
  BY <1>2 DEF Unlink
<1>4. \A i \in 1 .. (Len(q) - 1) : (IF i < a THEN q[i] ELSE q[i + 1]) \in Node
  BY <1>1, ElementOfSeq
<1>5. Len(q) - 1 \in Nat BY <1>1
<1> QED BY <1>3, <1>4, <1>5

\* Over the parts of Inv that concern the blades, a poll at t takes out
\* exactly the nodes in the store that are due.
LEMMA FiredIsDue ==
  ASSUME TypeOK, BladesHoldTheStore, BladesSelfSorted, LiveListIsExact, NEW t \in Nat
  PROVE  Fired(t) = {n \in InStore : expiration[n] <= t}
<1> USE DEF TypeOK
<1>1. ASSUME NEW n \in Fired(t)
      PROVE  n \in InStore /\ expiration[n] <= t
  <2>0. PICK k \in live_blades : \E i \in 1 .. ExpiredHeads(queue[k], t) : queue[k][i] = n
    BY <1>1 DEF Fired
  <2>1. PICK i \in 1 .. ExpiredHeads(queue[k], t) : queue[k][i] = n
    BY <2>0
  <2>2. k \in TTL /\ queue[k] \in Seq(Node) OBVIOUS
  <2>3. i \in 1 .. Len(queue[k]) /\ Expired(n, t)
    BY <2>1, <2>2, ExpiredHeadsIsPrefix
  <2>4. in_store[n]
    BY <2>1, <2>2, <2>3, LenProperties DEF BladesHoldTheStore
  <2> QED BY <1>1, <2>3, <2>4 DEF Expired, InStore, Fired
<1>2. ASSUME NEW n \in InStore, expiration[n] <= t
      PROVE  n \in Fired(t)
  <2> DEFINE k == ttl[n]
             q == queue[k]
             d == ExpiredHeads(q, t)
  <2>1. k \in TTL /\ \E i \in 1 .. Len(q) : q[i] = n
    BY DEF BladesHoldTheStore
  <2>2. PICK i \in 1 .. Len(q) : q[i] = n BY <2>1
  <2>3. q \in Seq(Node) /\ Len(q) \in Nat
    BY <2>1, LenProperties
  <2>4. k \in live_blades
    BY <2>1, <2>2, <2>3 DEF LiveListIsExact
  <2> HIDE DEF q, d
  <2>5. /\ d \in 0 .. Len(q)
        /\ d < Len(q) => ~Expired(q[d + 1], t)
    BY <2>3, ExpiredHeadsIsPrefix DEF d
  <2>6. i \in 1 .. d
    <3> SUFFICES ASSUME d < i PROVE FALSE BY <2>3, <2>5
    <3>1. d < Len(q) /\ d + 1 \in 1 .. Len(q) /\ d + 1 <= i
      BY <2>3, <2>5
    <3>2. expiration[q[d + 1]] <= expiration[q[i]]
      BY <2>1, <3>1 DEF BladesSelfSorted, q
    <3>3. q[d + 1] \in Node BY <2>3, <3>1
    <3>4. ~(expiration[q[d + 1]] <= t)
      BY <2>5, <3>1 DEF Expired
    <3> QED BY <1>2, <2>2, <3>2, <3>3, <3>4 DEF InStore
  <2>7. n \in Node BY DEF InStore
  <2> QED BY <2>2, <2>4, <2>6, <2>7 DEF Fired, q, d
<1>3. Fired(t) \subseteq {n \in InStore : expiration[n] <= t}
  BY <1>1
<1>4. {n \in InStore : expiration[n] <= t} \subseteq Fired(t)
  BY <1>2
<1> QED BY <1>3, <1>4

\* Counting the nodes in the store when some of them leave.
LEMMA CountAfterRemoval ==
  ASSUME NEW gone \in SUBSET InStore, LiveCountsTheStore, in_store' = Cleared(gone)
  PROVE  /\ InStore' = InStore \ gone
         /\ Cardinality(InStore') = Uncounted(gone)
         /\ Uncounted(gone) \in Nat
<1>1. InStore' = InStore \ gone
  BY DEF InStore, Cleared
<1>2. IsFiniteSet(InStore)
  BY ConstantsAssumption, FS_Subset DEF InStore
<1>3. InStore \cap gone = gone OBVIOUS
<1>4. /\ IsFiniteSet(InStore \ gone)
      /\ Cardinality(InStore \ gone) = Cardinality(InStore) - Cardinality(gone)
  BY <1>2, <1>3, FS_Difference
<1>5. Cardinality(InStore \ gone) \in Nat
  BY <1>4, FS_CardinalityType
<1> QED BY <1>1, <1>4, <1>5 DEF Uncounted, LiveCountsTheStore

(***************************************************************************)
(* Every action keeps Inv.                                                  *)
(***************************************************************************)
\* The empty store satisfies the invariant.
LEMMA InitInv == Init => Inv
<1> SUFFICES ASSUME Init PROVE Inv OBVIOUS
<1> USE DEF Init
<1>1. InStore = {} BY DEF InStore
<1>2. TypeOK BY ConstantsAssumption DEF TypeOK
<1>3. BladesHoldTheStore BY <1>1 DEF BladesHoldTheStore
<1>4. BladesSelfSorted BY DEF BladesSelfSorted
<1>5. DeadlineWithinTTL /\ NextExpirationIsLowerBound
  BY <1>1 DEF DeadlineWithinTTL, NextExpirationIsLowerBound
<1>6. LiveListIsExact BY DEF LiveListIsExact
<1>7. LiveCountsTheStore BY <1>1, FS_EmptySet DEF LiveCountsTheStore
<1> QED BY <1>2, <1>3, <1>4, <1>5, <1>6, <1>7 DEF Inv

\* lawn2_add, under the caller's contract, keeps the invariant.
LEMMA AddKeepsInv ==
  ASSUME Inv, NEW n \in Node, NEW k \in TTL, ClientAdd(n, k)
  PROVE  Inv'
<1> DEFINE q == queue[k]
           r == Append(q, n)
           exp == now + k
<1>i. /\ TypeOK /\ BladesHoldTheStore /\ BladesSelfSorted /\ DeadlineWithinTTL
      /\ NextExpirationIsLowerBound /\ LiveListIsExact /\ LiveCountsTheStore
  BY DEF Inv
<1>t. /\ now \in Nat /\ k \in Nat /\ k \in 0 .. UINT64_MAX /\ UINT64_MAX \in Nat
      /\ next_expiration \in Nat /\ queue \in [TTL -> Seq(Node)]
      /\ ttl \in [Node -> 0 .. UINT64_MAX] /\ expiration \in [Node -> 0 .. UINT64_MAX]
      /\ expiration \in [Node -> Nat] /\ in_store \in [Node -> BOOLEAN] /\ live \in Nat
  BY <1>i, ConstantsAssumption DEF TypeOK
<1>1. exp \in 0 .. UINT64_MAX /\ exp \in Nat /\ Add64(now, k) = exp /\ ~in_store[n]
  BY <1>t DEF ClientAdd, Add64
<1>2. /\ ttl' = [ttl EXCEPT ![n] = k]
      /\ expiration' = [expiration EXCEPT ![n] = exp]
      /\ in_store' = [in_store EXCEPT ![n] = TRUE]
      /\ queue' = [queue EXCEPT ![k] = r]
      /\ live' = live + 1
      /\ next_expiration' = Lowered(next_expiration, exp)
      /\ live_blades' = IF q = <<>> THEN live_blades \cup {k} ELSE live_blades
      /\ out_head' = {}
      /\ now' = now
  BY <1>1 DEF ClientAdd, lawn2_add, Expiration, Enqueue, live_link
<1>3. /\ q \in Seq(Node) /\ Len(q) \in Nat
      /\ r \in Seq(Node) /\ Len(r) = Len(q) + 1
      /\ \A i \in 1 .. Len(q) : r[i] = q[i]
      /\ r[Len(q) + 1] = n
      /\ \A i \in 1 .. Len(r) : i \in 1 .. Len(q) \/ i = Len(q) + 1
  <2>1. q \in Seq(Node) /\ Len(q) \in Nat BY <1>t, LenProperties
  <2> HIDE DEF q
  <2> QED BY <2>1
<1> HIDE DEF q, r, exp
<1>4. InStore' = InStore \cup {n} /\ n \notin InStore
  BY <1>t, <1>1, <1>2 DEF InStore
<1>5. next_expiration' \in 0 .. UINT64_MAX /\ next_expiration' <= next_expiration /\ next_expiration' <= exp
  BY <1>i, <1>t, <1>1, <1>2 DEF Lowered, TypeOK
<1>6. \A j \in TTL : /\ queue[j] \in Seq(Node)
                     /\ Len(queue[j]) \in Nat
                     /\ queue'[j] = IF j = k THEN r ELSE queue[j]
  BY <1>t, <1>2, LenProperties
<1>7. \A j \in TTL : \A i \in 1 .. Len(queue[j]) :
        /\ queue[j][i] \in Node \ {n}
        /\ in_store[queue[j][i]]
        /\ ttl[queue[j][i]] = j
        /\ \A l \in 1 .. Len(queue[j]) : queue[j][i] = queue[j][l] => i = l
  <2> SUFFICES ASSUME NEW j \in TTL, NEW i \in 1 .. Len(queue[j])
               PROVE  /\ queue[j][i] \in Node \ {n}
                      /\ in_store[queue[j][i]]
                      /\ ttl[queue[j][i]] = j
                      /\ \A l \in 1 .. Len(queue[j]) : queue[j][i] = queue[j][l] => i = l
    OBVIOUS
  <2>1. queue[j][i] \in Node BY <1>6, ElementOfSeq
  <2>2. /\ in_store[queue[j][i]]
        /\ ttl[queue[j][i]] = j
        /\ \A l \in 1 .. Len(queue[j]) : queue[j][i] = queue[j][l] => i = l
    BY <1>i DEF BladesHoldTheStore
  <2> QED BY <1>1, <2>1, <2>2
<1>8. \A m \in Node \ {n} : ttl'[m] = ttl[m] /\ expiration'[m] = expiration[m] /\ in_store'[m] = in_store[m]
  BY <1>t, <1>2
<1>9. ttl'[n] = k /\ expiration'[n] = exp /\ in_store'[n]
  BY <1>t, <1>2
<1>10. TypeOK'
  <2>1. queue' \in [TTL -> Seq(Node)] BY <1>t, <1>2, <1>3
  <2>2. ttl' \in [Node -> 0 .. UINT64_MAX] /\ expiration' \in [Node -> 0 .. UINT64_MAX]
    BY <1>t, <1>1, <1>2
  <2>3. in_store' \in [Node -> BOOLEAN] BY <1>t, <1>2
  <2>4. live_blades' \subseteq TTL BY <1>i, <1>2 DEF TypeOK
  <2>5. now' \in 0 .. MaxNow /\ live' \in Nat /\ out_head' \subseteq Node
    BY <1>i, <1>t, <1>2 DEF TypeOK
  <2> QED BY <1>5, <2>1, <2>2, <2>3, <2>4, <2>5 DEF TypeOK
<1>11. BladesHoldTheStore'
  <2>1. ASSUME NEW m \in InStore'
        PROVE  ttl'[m] \in TTL /\ \E i \in 1 .. Len(queue'[ttl'[m]]) : queue'[ttl'[m]][i] = m
    <3>1. CASE m = n
      <4>1. Len(q) + 1 \in 1 .. Len(r) BY <1>3
      <4>2. queue'[ttl'[m]] = r BY <1>6, <1>9, <3>1
      <4> QED BY <1>3, <1>9, <3>1, <4>1, <4>2
    <3>2. CASE m # n
      <4>1. m \in InStore /\ m \in Node /\ ttl'[m] = ttl[m]
        BY <1>4, <1>8, <3>2 DEF InStore
      <4>2. ttl[m] \in TTL /\ \E i \in 1 .. Len(queue[ttl[m]]) : queue[ttl[m]][i] = m
        BY <1>i, <4>1 DEF BladesHoldTheStore
      <4>3. PICK i \in 1 .. Len(queue[ttl[m]]) : queue[ttl[m]][i] = m
        BY <4>2
      <4>4. CASE ttl[m] = k
        <5>1. i \in 1 .. Len(r) /\ r[i] = m BY <1>3, <4>3, <4>4 DEF q
        <5> QED BY <1>6, <4>1, <4>2, <4>4, <5>1
      <4>5. CASE ttl[m] # k BY <1>6, <4>1, <4>2, <4>5
      <4> QED BY <4>4, <4>5
    <3> QED BY <3>1, <3>2
  <2>2. ASSUME NEW j \in TTL, NEW i \in 1 .. Len(queue'[j])
        PROVE  /\ in_store'[queue'[j][i]]
               /\ ttl'[queue'[j][i]] = j
               /\ \A l \in 1 .. Len(queue'[j]) : queue'[j][i] = queue'[j][l] => i = l
    <3>1. CASE j = k
      <4>1. \A l \in 1 .. Len(r) : \/ l \in 1 .. Len(q) /\ r[l] = q[l]
                                   \/ l = Len(q) + 1 /\ r[l] = n
        BY <1>3
      <4>2. \A l \in 1 .. Len(q) : /\ q[l] \in Node \ {n} /\ in_store[q[l]] /\ ttl[q[l]] = k
                                   /\ \A m \in 1 .. Len(q) : q[l] = q[m] => l = m
        BY <1>7 DEF q
      <4>3. i \in 1 .. Len(r) /\ queue'[j] = r BY <1>6, <3>1
      <4>4. in_store'[r[i]] /\ ttl'[r[i]] = k
        BY <1>8, <1>9, <4>1, <4>2, <4>3
      <4>5. \A l \in 1 .. Len(r) : r[i] = r[l] => i = l
        BY <4>1, <4>2, <4>3
      <4> QED BY <3>1, <4>3, <4>4, <4>5
    <3>2. CASE j # k BY <1>6, <1>7, <1>8, <3>2
    <3> QED BY <3>1, <3>2
  <2> QED BY <2>1, <2>2 DEF BladesHoldTheStore
<1>12. BladesSelfSorted'
  <2> SUFFICES ASSUME NEW j \in TTL, NEW a \in 1 .. Len(queue'[j]), NEW b \in 1 .. Len(queue'[j]), a <= b
               PROVE  expiration'[queue'[j][a]] <= expiration'[queue'[j][b]]
    BY DEF BladesSelfSorted
  <2>1. CASE j # k BY <1>i, <1>6, <1>7, <1>8, <2>1 DEF BladesSelfSorted
  <2>2. CASE j = k
    <3>1. queue'[j] = r BY <1>6, <2>2
    <3>2. \A l \in 1 .. Len(q) : /\ q[l] \in Node \ {n} /\ in_store[q[l]] /\ ttl[q[l]] = k
      BY <1>7 DEF q
    <3>3. CASE b \in 1 .. Len(q)
      <4>1. a \in 1 .. Len(q) BY <1>3, <3>1, <3>3
      <4>2. expiration[q[a]] <= expiration[q[b]]
        BY <1>i, <3>3, <4>1 DEF BladesSelfSorted, q
      <4> QED BY <1>3, <1>8, <3>1, <3>2, <3>3, <4>1, <4>2
    <3>4. CASE b = Len(q) + 1 /\ a = b BY <1>1, <1>3, <1>9, <3>1, <3>4
    <3>5. CASE b = Len(q) + 1 /\ a # b
      <4>1. a \in 1 .. Len(q) /\ r[a] = q[a] BY <1>3, <3>1, <3>5
      <4>2. q[a] \in InStore BY <3>2, <4>1 DEF InStore
      <4>3. expiration[q[a]] <= exp BY <1>i, <3>2, <4>1, <4>2 DEF DeadlineWithinTTL, exp
      <4> QED BY <1>3, <1>8, <1>9, <3>1, <3>2, <3>5, <4>1, <4>3
    <3> QED BY <1>3, <3>1, <3>3, <3>4, <3>5
  <2> QED BY <2>1, <2>2
<1>13. DeadlineWithinTTL'
  <2> SUFFICES ASSUME NEW m \in InStore' PROVE expiration'[m] <= now' + ttl'[m]
    BY DEF DeadlineWithinTTL
  <2>1. CASE m = n BY <1>t, <1>1, <1>2, <1>9, <2>1 DEF exp
  <2>2. CASE m # n
    <3>1. m \in InStore /\ m \in Node \ {n} BY <1>4, <2>2 DEF InStore
    <3> QED BY <1>i, <1>2, <1>8, <3>1 DEF DeadlineWithinTTL
  <2> QED BY <2>1, <2>2
<1>14. NextExpirationIsLowerBound'
  <2> SUFFICES ASSUME NEW m \in InStore' PROVE next_expiration' <= expiration'[m]
    BY DEF NextExpirationIsLowerBound
  <2>1. CASE m = n BY <1>5, <1>9, <2>1
  <2>2. CASE m # n
    <3>1. m \in InStore /\ m \in Node \ {n} BY <1>4, <2>2 DEF InStore
    <3>2. next_expiration <= expiration[m] /\ expiration[m] \in Nat
      BY <1>i, <1>t, <3>1 DEF NextExpirationIsLowerBound
    <3> QED BY <1>t, <1>5, <1>8, <3>1, <3>2
  <2> QED BY <2>1, <2>2
<1>15. LiveListIsExact'
  <2>1. r # <<>> BY <1>3
  <2>2. live_blades = {j \in TTL : queue[j] # <<>>} BY <1>i DEF LiveListIsExact
  <2>3. live_blades' = live_blades \cup {k} BY <1>2, <2>2 DEF q
  <2> QED BY <1>6, <2>1, <2>2, <2>3 DEF LiveListIsExact
<1>16. LiveCountsTheStore'
  <2>1. IsFiniteSet(InStore) BY ConstantsAssumption, FS_Subset DEF InStore
  <2>2. Cardinality(InStore \cup {n}) = Cardinality(InStore) + 1
    BY <1>4, <2>1, FS_AddElement
  <2> QED BY <1>i, <1>2, <1>4, <2>2 DEF LiveCountsTheStore
<1> QED BY <1>10, <1>11, <1>12, <1>13, <1>14, <1>15, <1>16 DEF Inv

\* lawn2_del keeps the invariant, whether or not the node is in the store.
LEMMA DelKeepsInv ==
  ASSUME Inv, NEW n \in Node, lawn2_del(n)
  PROVE  Inv'
<1>i. /\ TypeOK /\ BladesHoldTheStore /\ BladesSelfSorted /\ DeadlineWithinTTL
      /\ NextExpirationIsLowerBound /\ LiveListIsExact /\ LiveCountsTheStore
  BY DEF Inv
<1>1. CASE ~in_store[n]
  <2>1. UNCHANGED <<now, queue, live_blades, live, next_expiration, ttl, expiration, in_store>> /\ out_head' = {}
    BY <1>1 DEF lawn2_del, bladeVars, nodeVars
  <2>2. InStore' = InStore BY <2>1 DEF InStore
  <2> QED BY <1>i, <2>1, <2>2 DEF Inv, TypeOK, BladesHoldTheStore, BladesSelfSorted,
            DeadlineWithinTTL, NextExpirationIsLowerBound, LiveListIsExact, LiveCountsTheStore
<1>2. CASE in_store[n]
  <2> DEFINE k == ttl[n]
             q == queue[k]
             r == Unlink(q, n)
  <2>1. n \in InStore /\ k \in TTL /\ \E i \in 1 .. Len(q) : q[i] = n
    BY <1>i, <1>2 DEF BladesHoldTheStore, InStore
  <2>2. PICK a \in 1 .. Len(q) : q[a] = n BY <2>1
  <2>3. /\ queue' = [queue EXCEPT ![k] = r]
        /\ live_blades' = IF r = <<>> THEN live_blades \ {k} ELSE live_blades
        /\ in_store' = Cleared({n}) /\ live' = Uncounted({n}) /\ out_head' = {}
        /\ UNCHANGED <<now, next_expiration, ttl, expiration>>
    BY <1>2 DEF lawn2_del, live_unlink
  <2>4. /\ InStore' = InStore \ {n}
        /\ Cardinality(InStore') = Uncounted({n})
        /\ Uncounted({n}) \in Nat
    BY <1>i, <2>1, <2>3, CountAfterRemoval
  <2>5. queue \in [TTL -> Seq(Node)] /\ q \in Seq(Node) /\ Len(q) \in Nat
    BY <1>i, <2>1, LenProperties DEF TypeOK
  <2>6. \A j \in TTL : \A i \in 1 .. Len(queue[j]) :
          /\ queue[j][i] \in Node
          /\ in_store[queue[j][i]]
          /\ ttl[queue[j][i]] = j
          /\ \A l \in 1 .. Len(queue[j]) : queue[j][i] = queue[j][l] => i = l
    BY <1>i, <2>5, ElementOfSeq DEF BladesHoldTheStore
  <2>7. /\ r \in Seq(Node) /\ Len(r) = Len(q) - 1
        /\ \A i \in 1 .. (Len(q) - 1) : r[i] = IF i < a THEN q[i] ELSE q[i + 1]
    <3>1. \A i \in 1 .. Len(q) : q[i] = n => i = a BY <2>1, <2>2, <2>6
    <3> HIDE DEF q
    <3>2. /\ Unlink(q, n) \in Seq(Node)
          /\ Len(Unlink(q, n)) = Len(q) - 1
          /\ \A i \in 1 .. (Len(q) - 1) : Unlink(q, n)[i] = IF i < a THEN q[i] ELSE q[i + 1]
      BY <2>2, <2>5, <3>1, UnlinkKeepsOrder
    <3> QED BY <3>2
  <2> HIDE DEF q, r
  <2>8. \A j \in TTL : queue'[j] = IF j = k THEN r ELSE queue[j]
    BY <2>3, <2>5
  <2> DEFINE old(i) == IF i < a THEN i ELSE i + 1
  <2>9. \A i \in 1 .. Len(r) : old(i) \in 1 .. Len(q) /\ old(i) # a /\ r[i] = q[old(i)]
    BY <2>5, <2>7
  <2>10. \A i, j \in 1 .. Len(r) : (i <= j => old(i) <= old(j)) /\ (old(i) = old(j) => i = j)
    BY <2>5, <2>7
  <2>11. \A i \in 1 .. Len(q) : i # a => \E j \in 1 .. Len(r) : old(j) = i
    <3> SUFFICES ASSUME NEW i \in 1 .. Len(q), i # a PROVE \E j \in 1 .. Len(r) : old(j) = i
      OBVIOUS
    <3>1. CASE i < a BY <2>5, <2>7, <3>1
    <3>2. CASE i > a
      <4>1. i - 1 \in 1 .. Len(r) /\ old(i - 1) = i BY <2>5, <2>7, <3>2
      <4> QED BY <4>1
    <3> QED BY <2>5, <3>1, <3>2
  <2> HIDE DEF old
  <2>12. \A j \in TTL : \A i \in 1 .. Len(queue[j]) : queue[j][i] = n => j = k /\ i = a
    BY <2>1, <2>2, <2>6 DEF q
  <2>13. \A m \in Node : in_store[m] /\ m # n => in_store'[m]
    BY <2>4 DEF InStore
  <2>20. TypeOK'
    <3>1. queue' \in [TTL -> Seq(Node)] BY <2>3, <2>5, <2>7
    <3>2. in_store' \in [Node -> BOOLEAN] BY <1>i, <2>3 DEF TypeOK, Cleared
    <3>3. live' \in Nat BY <2>3, <2>4
    <3> QED BY <1>i, <2>3, <3>1, <3>2, <3>3 DEF TypeOK
  <2>21. BladesHoldTheStore'
    <3>1. ASSUME NEW m \in InStore'
          PROVE  ttl'[m] \in TTL /\ \E i \in 1 .. Len(queue'[ttl'[m]]) : queue'[ttl'[m]][i] = m
      <4>1. m \in InStore /\ m # n /\ ttl'[m] = ttl[m] BY <2>3, <2>4
      <4>2. ttl[m] \in TTL /\ \E i \in 1 .. Len(queue[ttl[m]]) : queue[ttl[m]][i] = m
        BY <1>i, <4>1 DEF BladesHoldTheStore
      <4>3. CASE ttl[m] # k BY <2>8, <4>1, <4>2, <4>3
      <4>4. CASE ttl[m] = k
        <5>1. PICK i \in 1 .. Len(q) : q[i] = m BY <4>2, <4>4 DEF q
        <5>2. i # a BY <2>2, <4>1, <5>1
        <5>3. PICK j \in 1 .. Len(r) : old(j) = i BY <2>11, <5>2
        <5>4. r[j] = m BY <2>9, <5>1, <5>3
        <5> QED BY <2>8, <4>1, <4>2, <4>4, <5>4
      <4> QED BY <4>3, <4>4
    <3>2. ASSUME NEW j \in TTL, NEW i \in 1 .. Len(queue'[j])
          PROVE  /\ in_store'[queue'[j][i]]
                 /\ ttl'[queue'[j][i]] = j
                 /\ \A l \in 1 .. Len(queue'[j]) : queue'[j][i] = queue'[j][l] => i = l
      <4>1. CASE j # k
        <5>1. queue'[j] = queue[j] BY <2>8, <4>1
        <5>2. queue[j][i] # n BY <2>12, <4>1, <5>1
        <5>3. in_store'[queue[j][i]] BY <2>6, <2>13, <5>1, <5>2
        <5> QED BY <2>3, <2>6, <5>1, <5>3
      <4>2. CASE j = k
        <5>1. queue'[j] = r /\ i \in 1 .. Len(r) BY <2>8, <4>2
        <5>2. \A l \in 1 .. Len(q) : /\ q[l] \in Node /\ in_store[q[l]] /\ ttl[q[l]] = k
                                     /\ (q[l] = n => l = a)
                                     /\ \A m \in 1 .. Len(q) : q[l] = q[m] => l = m
          BY <2>1, <2>6, <2>12 DEF q
        <5>3. in_store'[r[i]] /\ ttl'[r[i]] = k
          <6>1. r[i] \in Node /\ in_store[r[i]] /\ ttl[r[i]] = k /\ r[i] # n
            BY <2>9, <5>1, <5>2
          <6>2. in_store'[r[i]] BY <2>13, <6>1
          <6> QED BY <2>3, <6>1, <6>2
        <5>4. \A l \in 1 .. Len(r) : r[i] = r[l] => i = l BY <2>9, <2>10, <5>1, <5>2
        <5> QED BY <4>2, <5>1, <5>3, <5>4
      <4> QED BY <4>1, <4>2
    <3> QED BY <3>1, <3>2 DEF BladesHoldTheStore
  <2>22. BladesSelfSorted'
    <3> SUFFICES ASSUME NEW j \in TTL, NEW b \in 1 .. Len(queue'[j]), NEW c \in 1 .. Len(queue'[j]), b <= c
                 PROVE  expiration'[queue'[j][b]] <= expiration'[queue'[j][c]]
      BY DEF BladesSelfSorted
    <3>1. CASE j # k BY <1>i, <2>3, <2>8, <3>1 DEF BladesSelfSorted
    <3>2. CASE j = k
      <4>1. queue'[j] = r /\ b \in 1 .. Len(r) /\ c \in 1 .. Len(r) BY <2>8, <3>2
      <4>2. old(b) \in 1 .. Len(q) /\ old(c) \in 1 .. Len(q) /\ old(b) <= old(c)
        BY <2>9, <2>10, <4>1
      <4>3. expiration[q[old(b)]] <= expiration[q[old(c)]]
        BY <1>i, <2>1, <4>2 DEF BladesSelfSorted, q
      <4> QED BY <2>3, <2>9, <4>1, <4>3
    <3> QED BY <3>1, <3>2
  <2>23. DeadlineWithinTTL' BY <1>i, <2>3, <2>4 DEF DeadlineWithinTTL
  <2>24. NextExpirationIsLowerBound' BY <1>i, <2>3, <2>4 DEF NextExpirationIsLowerBound
  <2>25. LiveListIsExact'
    <3>1. live_blades = {j \in TTL : queue[j] # <<>>} BY <1>i DEF LiveListIsExact
    <3>2. k \in live_blades BY <2>1, <2>2, <2>5, <3>1 DEF q
    <3> QED BY <2>1, <2>3, <2>8, <3>1, <3>2 DEF LiveListIsExact
  <2>26. LiveCountsTheStore' BY <2>3, <2>4 DEF LiveCountsTheStore
  <2> QED BY <2>20, <2>21, <2>22, <2>23, <2>24, <2>25, <2>26 DEF Inv
<1> QED BY <1>1, <1>2

\* A poll at a time t that is not before the clock keeps the invariant, and
\* what it hands over is what was due.
LEMMA CollectKeepsInv ==
  ASSUME Inv, NEW t \in 0 .. MaxNow, t >= now, now' = t, NEW collect \in BOOLEAN,
         collect_expired(t, collect)
  PROVE  /\ Inv'
         /\ InStore' = {n \in InStore : expiration[n] > t}
         /\ out_head' = IF collect THEN {n \in InStore : expiration[n] <= t} ELSE {}
         /\ UNCHANGED <<ttl, expiration>>
<1>i. /\ TypeOK /\ BladesHoldTheStore /\ BladesSelfSorted /\ DeadlineWithinTTL
      /\ NextExpirationIsLowerBound /\ LiveListIsExact /\ LiveCountsTheStore
  BY DEF Inv
<1>t. /\ t \in Nat /\ now \in Nat /\ UINT64_MAX \in Nat /\ MaxNow \in Nat
      /\ next_expiration \in Nat /\ queue \in [TTL -> Seq(Node)]
      /\ expiration \in [Node -> 0 .. UINT64_MAX] /\ expiration \in [Node -> Nat]
      /\ ttl \in [Node -> Nat]
      /\ \A n \in InStore : n \in Node
  BY <1>i, ConstantsAssumption DEF TypeOK, InStore
<1>1. CASE t < next_expiration
  <2>1. /\ UNCHANGED <<queue, live_blades, live, next_expiration, ttl, expiration, in_store>>
        /\ out_head' = {}
    BY <1>t, <1>1 DEF collect_expired, bladeVars, nodeVars
  <2>2. InStore' = InStore BY <2>1 DEF InStore
  <2>3. \A n \in InStore : expiration[n] > t
    BY <1>i, <1>t, <1>1 DEF NextExpirationIsLowerBound
  <2>4. DeadlineWithinTTL' BY <1>i, <1>t, <2>1, <2>2 DEF DeadlineWithinTTL
  <2>5. TypeOK' BY <1>i, <2>1 DEF TypeOK
  <2>6. BladesHoldTheStore' BY <1>i, <2>1, <2>2 DEF BladesHoldTheStore
  <2>7. BladesSelfSorted' /\ NextExpirationIsLowerBound' /\ LiveListIsExact' /\ LiveCountsTheStore'
    BY <1>i, <2>1, <2>2 DEF BladesSelfSorted, NextExpirationIsLowerBound, LiveListIsExact, LiveCountsTheStore
  <2>8. {n \in InStore : expiration[n] <= t} = {} /\ {n \in InStore : expiration[n] > t} = InStore
    BY <1>t, <2>3
  <2> QED BY <2>1, <2>2, <2>4, <2>5, <2>6, <2>7, <2>8 DEF Inv
<1>2. CASE t >= next_expiration
  <2> DEFINE fired == Fired(t)
             d(k) == ExpiredHeads(queue[k], t)
             left == [k \in TTL |-> IF k \in live_blades THEN Drained(queue[k], t) ELSE queue[k]]
             nonempty == {k \in live_blades : left[k] # <<>>}
             heads == {UINT64_MAX} \cup {expiration[left[k][1]] : k \in nonempty}
  <2>1. /\ queue' = left
        /\ live_blades' = nonempty
        /\ in_store' = Cleared(fired)
        /\ live' = Uncounted(fired)
        /\ next_expiration' = Minimum(heads)
        /\ out_head' = IF collect THEN fired ELSE {}
        /\ UNCHANGED <<ttl, expiration>>
    BY <1>t, <1>2 DEF collect_expired
  <2>2. fired = {n \in InStore : expiration[n] <= t}
    BY <1>i, <1>t, FiredIsDue
  <2> HIDE DEF fired
  <2>3. /\ InStore' = InStore \ fired
        /\ Cardinality(InStore') = Uncounted(fired)
        /\ Uncounted(fired) \in Nat
    BY <1>i, <2>1, <2>2, CountAfterRemoval
  <2>4. InStore' = {n \in InStore : expiration[n] > t}
    BY <1>t, <2>2, <2>3
  <2>5. \A k \in TTL : queue[k] \in Seq(Node) /\ Len(queue[k]) \in Nat
    BY <1>t, LenProperties
  <2>6. \A k \in TTL : \A i \in 1 .. Len(queue[k]) :
          /\ queue[k][i] \in Node
          /\ in_store[queue[k][i]]
          /\ ttl[queue[k][i]] = k
          /\ \A l \in 1 .. Len(queue[k]) : queue[k][i] = queue[k][l] => i = l
    BY <1>i, <2>5, ElementOfSeq DEF BladesHoldTheStore
  <2>7. \A k \in TTL : /\ d(k) \in 0 .. Len(queue[k])
                       /\ \A i \in 1 .. d(k) : expiration[queue[k][i]] <= t
                       /\ d(k) < Len(queue[k]) => ~(expiration[queue[k][d(k) + 1]] <= t)
    BY <2>5, ExpiredHeadsIsPrefix DEF Expired
  <2>8. \A k \in TTL : /\ left[k] \in Seq(Node)
                       /\ Len(left[k]) = Len(queue[k]) - d(k)
                       /\ \A i \in 1 .. Len(left[k]) :
                            /\ i + d(k) \in 1 .. Len(queue[k])
                            /\ left[k][i] = queue[k][i + d(k)]
    <3> SUFFICES ASSUME NEW k \in TTL
                 PROVE  /\ left[k] \in Seq(Node)
                        /\ Len(left[k]) = Len(queue[k]) - d(k)
                        /\ \A i \in 1 .. Len(left[k]) :
                             /\ i + d(k) \in 1 .. Len(queue[k])
                             /\ left[k][i] = queue[k][i + d(k)]
      OBVIOUS
    <3>1. CASE k \in live_blades
      <4>1. left[k] = Drained(queue[k], t) BY <3>1
      <4> QED BY <2>5, <4>1, DrainedIsSuffix
    <3>2. CASE k \notin live_blades
      <4>1. left[k] = queue[k] /\ queue[k] = <<>> BY <1>i, <3>2 DEF LiveListIsExact
      <4>2. Len(queue[k]) = 0 /\ d(k) = 0 BY <2>5, <2>7, <4>1
      <4> QED BY <2>5, <4>1, <4>2
    <3> QED BY <3>1, <3>2
  <2>9. left \in [TTL -> Seq(Node)] /\ heads = {UINT64_MAX} \cup {expiration[left[k][1]] : k \in nonempty}
    BY <2>8
  <2>10. nonempty = {k \in TTL : left[k] # <<>>}
    BY <1>i DEF LiveListIsExact
  <2> HIDE DEF left, nonempty, heads, d
  <2>11. \A k \in TTL : \A i \in 1 .. Len(left[k]) :
           /\ left[k][i] \in InStore'
           /\ ttl[left[k][i]] = k
           /\ \A l \in 1 .. Len(left[k]) : left[k][i] = left[k][l] => i = l
    <3> SUFFICES ASSUME NEW k \in TTL, NEW i \in 1 .. Len(left[k])
                 PROVE  /\ left[k][i] \in InStore'
                        /\ ttl[left[k][i]] = k
                        /\ \A l \in 1 .. Len(left[k]) : left[k][i] = left[k][l] => i = l
      OBVIOUS
    <3>1. /\ i + d(k) \in 1 .. Len(queue[k]) /\ left[k][i] = queue[k][i + d(k)]
          /\ d(k) \in Nat /\ Len(left[k]) \in Nat
      BY <2>5, <2>7, <2>8
    <3>2. left[k][i] \in InStore /\ left[k][i] \in Node /\ ttl[left[k][i]] = k
      BY <2>6, <3>1 DEF InStore
    <3>3. d(k) < Len(queue[k]) /\ d(k) + 1 \in 1 .. Len(queue[k]) /\ d(k) + 1 <= i + d(k)
      BY <2>5, <3>1
    <3>4. expiration[queue[k][d(k) + 1]] > t /\ queue[k][d(k) + 1] \in Node
      BY <1>t, <2>6, <2>7, <3>3
    <3>5. expiration[queue[k][d(k) + 1]] <= expiration[queue[k][i + d(k)]]
      BY <1>i, <3>1, <3>3 DEF BladesSelfSorted
    <3>6. expiration[left[k][i]] > t
      <4>1. expiration[queue[k][d(k) + 1]] \in Nat /\ expiration[left[k][i]] \in Nat
        BY <1>t, <3>2, <3>4
      <4> HIDE DEF d
      <4>2. expiration[queue[k][d(k) + 1]] <= expiration[left[k][i]] BY <3>1, <3>5
      <4> QED BY <1>t, <3>4, <4>1, <4>2
    <3>7. \A l \in 1 .. Len(left[k]) : left[k][i] = left[k][l] => i = l
      <4> SUFFICES ASSUME NEW l \in 1 .. Len(left[k]), left[k][i] = left[k][l] PROVE i = l
        OBVIOUS
      <4>1. l + d(k) \in 1 .. Len(queue[k]) /\ left[k][l] = queue[k][l + d(k)]
        BY <2>8
      <4>2. queue[k][i + d(k)] = queue[k][l + d(k)] BY <3>1, <4>1
      <4>3. i + d(k) = l + d(k)
        <5> DEFINE x == i + d(k)
                   y == l + d(k)
        <5>1. x \in 1 .. Len(queue[k]) /\ y \in 1 .. Len(queue[k]) /\ queue[k][x] = queue[k][y]
          BY <3>1, <4>1, <4>2
        <5> HIDE DEF x, y
        <5>2. x = y BY <2>6, <5>1
        <5> QED BY <5>2 DEF x, y
      <4> QED BY <3>1, <4>3
    <3> QED BY <2>4, <3>2, <3>6, <3>7
  <2>20. TypeOK'
    <3>1. heads \subseteq 0 .. UINT64_MAX
      <4>1. \A k \in nonempty : expiration[left[k][1]] \in 0 .. UINT64_MAX
        <5> SUFFICES ASSUME NEW k \in nonempty PROVE expiration[left[k][1]] \in 0 .. UINT64_MAX
          OBVIOUS
        <5>1. k \in TTL /\ left[k] # <<>> /\ left[k] \in Seq(Node) BY <2>8, <2>10
        <5>2. left[k][1] \in Node BY <5>1
        <5> QED BY <1>t, <5>2
      <4> QED BY <1>t, <2>9, <4>1
    <3>2. heads # {} /\ heads \subseteq Nat BY <1>t, <2>9, <3>1
    <3>3. next_expiration' \in 0 .. UINT64_MAX BY <2>1, <3>1, <3>2, MinimumIsLeast
    <3>4. in_store' \in [Node -> BOOLEAN] BY <1>i, <2>1 DEF TypeOK, Cleared
    <3>5. live_blades' \subseteq TTL BY <2>1, <2>10
    <3>6. out_head' \subseteq Node BY <1>t, <2>1, <2>2
    <3>7. queue' \in [TTL -> Seq(Node)] BY <2>1, <2>9
    <3>8. live' \in Nat BY <2>1, <2>3
    <3> QED BY <1>i, <2>1, <3>3, <3>4, <3>5, <3>6, <3>7, <3>8 DEF TypeOK
  <2>21. BladesHoldTheStore'
    <3>1. ASSUME NEW n \in InStore'
          PROVE  ttl'[n] \in TTL /\ \E i \in 1 .. Len(queue'[ttl'[n]]) : queue'[ttl'[n]][i] = n
      <4> DEFINE k == ttl[n]
      <4>1. n \in InStore /\ expiration[n] > t BY <2>4
      <4>2. k \in TTL /\ \E i \in 1 .. Len(queue[k]) : queue[k][i] = n
        BY <1>i, <4>1 DEF BladesHoldTheStore
      <4>3. PICK i \in 1 .. Len(queue[k]) : queue[k][i] = n BY <4>2
      <4>4. d(k) \in 0 .. Len(queue[k]) /\ Len(queue[k]) \in Nat /\ Len(left[k]) = Len(queue[k]) - d(k)
        BY <2>5, <2>7, <2>8, <4>2
      <4>5. ~(i \in 1 .. d(k)) BY <1>t, <2>7, <4>1, <4>2, <4>3, SMTT(30)
      <4>6. i - d(k) \in 1 .. Len(left[k]) BY <4>4, <4>5
      <4>7. left[k][i - d(k)] = queue[k][(i - d(k)) + d(k)] BY <2>8, <4>2, <4>6
      <4>8. (i - d(k)) + d(k) = i BY <4>4
      <4>9. left[k][i - d(k)] = n BY <4>3, <4>7, <4>8
      <4> QED BY <2>1, <4>2, <4>6, <4>9
    <3>2. \A k \in TTL : \A i \in 1 .. Len(queue'[k]) :
             /\ in_store'[queue'[k][i]]
             /\ ttl'[queue'[k][i]] = k
             /\ \A l \in 1 .. Len(queue'[k]) : queue'[k][i] = queue'[k][l] => i = l
      BY <2>1, <2>11 DEF InStore
    <3> QED BY <3>1, <3>2 DEF BladesHoldTheStore
  <2>22. BladesSelfSorted'
    <3> SUFFICES ASSUME NEW k \in TTL, NEW b \in 1 .. Len(left[k]), NEW c \in 1 .. Len(left[k]), b <= c
                 PROVE  expiration[left[k][b]] <= expiration[left[k][c]]
      BY <2>1 DEF BladesSelfSorted
    <3>1. d(k) \in Nat BY <2>5, <2>7
    <3>2. /\ b + d(k) \in 1 .. Len(queue[k]) /\ left[k][b] = queue[k][b + d(k)]
          /\ c + d(k) \in 1 .. Len(queue[k]) /\ left[k][c] = queue[k][c + d(k)]
      BY <2>8
    <3>3. b + d(k) <= c + d(k) BY <3>1
    <3> QED BY <1>i, <3>2, <3>3 DEF BladesSelfSorted
  <2>23. DeadlineWithinTTL'
    BY <1>i, <1>t, <2>1, <2>4 DEF DeadlineWithinTTL
  <2>24. NextExpirationIsLowerBound'
    <3> SUFFICES ASSUME NEW n \in InStore' PROVE next_expiration' <= expiration[n]
      BY <2>1 DEF NextExpirationIsLowerBound
    <3> DEFINE k == ttl[n]
    <3>1. k \in TTL /\ \E i \in 1 .. Len(left[k]) : left[k][i] = n
      BY <2>1, <2>21 DEF BladesHoldTheStore
    <3>2. PICK i \in 1 .. Len(left[k]) : left[k][i] = n BY <3>1
    <3>3. left[k] \in Seq(Node) /\ Len(left[k]) \in Nat /\ left[k] # <<>> /\ 1 \in 1 .. Len(left[k])
      BY <2>8, <3>1, <3>2, LenProperties
    <3>4. expiration[left[k][1]] \in heads BY <2>9, <2>10, <3>1, <3>3
    <3>5. expiration[left[k][1]] <= expiration[n]
      BY <2>1, <2>22, <3>1, <3>2, <3>3 DEF BladesSelfSorted
    <3>6. heads \subseteq Nat
      <4>1. \A j \in nonempty : expiration[left[j][1]] \in Nat
        <5> SUFFICES ASSUME NEW j \in nonempty PROVE expiration[left[j][1]] \in Nat OBVIOUS
        <5>1. j \in TTL /\ left[j] # <<>> /\ left[j] \in Seq(Node) BY <2>8, <2>10
        <5>2. left[j][1] \in Node BY <5>1
        <5> QED BY <1>t, <5>2
      <4> QED BY <1>t, <2>9, <4>1
    <3>7. Minimum(heads) \in Nat /\ Minimum(heads) <= expiration[left[k][1]]
      BY <3>4, <3>6, MinimumIsLeast
    <3>8. expiration[n] \in Nat /\ expiration[left[k][1]] \in Nat BY <1>t, <2>4, <3>4, <3>6
    <3> QED BY <2>1, <3>5, <3>7, <3>8
  <2>25. LiveListIsExact' BY <2>1, <2>10 DEF LiveListIsExact
  <2>26. LiveCountsTheStore' BY <2>1, <2>3 DEF LiveCountsTheStore
  <2> QED BY <2>1, <2>2, <2>4, <2>20, <2>21, <2>22, <2>23, <2>24, <2>25, <2>26 DEF Inv
<1> QED BY <1>t, <1>1, <1>2

\* Every step keeps the invariant: a tick and an advance that moves the clock
\* are polls, an advance that does not and lawn2_set_now leave the blades
\* alone.
LEMMA NextKeepsInv == Inv /\ [Next]_vars => Inv'
<1> SUFFICES ASSUME Inv, [Next]_vars PROVE Inv' OBVIOUS
<1>t. now \in 0 .. MaxNow /\ MaxNow \in Nat /\ UINT64_MAX \in Nat /\ MaxNow <= UINT64_MAX
  BY ConstantsAssumption DEF Inv, TypeOK
<1>1. ASSUME NEW n \in Node, NEW k \in TTL, ClientAdd(n, k) PROVE Inv'
  BY <1>1, AddKeepsInv
<1>2. ASSUME NEW n \in Node, lawn2_del(n) PROVE Inv'
  BY <1>2, DelKeepsInv
<1>3. ASSUME NEW collect \in BOOLEAN, ClientTick(collect) PROVE Inv'
  <2>1. now + 1 \in 0 .. MaxNow /\ now + 1 >= now /\ now' = now + 1
    BY <1>t, <1>3 DEF ClientTick, lawn2_tick, Add64
  <2>2. collect_expired(now + 1, collect)
    BY <1>3, <2>1 DEF ClientTick, lawn2_tick
  <2> QED BY <2>1, <2>2, CollectKeepsInv
<1>4. ASSUME NEW target \in 0 .. MaxNow, NEW collect \in BOOLEAN, lawn2_advance(target, collect)
      PROVE  Inv'
  <2>1. CASE target > now
    <3>1. now' = target /\ target >= now /\ collect_expired(target, collect)
      BY <1>t, <1>4, <2>1 DEF lawn2_advance
    <3> QED BY <3>1, CollectKeepsInv
  <2>2. CASE target <= now
    <3>1. UNCHANGED <<now, queue, live_blades, live, next_expiration, ttl, expiration, in_store>> /\ out_head' = {}
      BY <1>t, <1>4, <2>2 DEF lawn2_advance, bladeVars, nodeVars
    <3>2. InStore' = InStore BY <3>1 DEF InStore
    <3> QED BY <3>1, <3>2 DEF Inv, TypeOK, BladesHoldTheStore, BladesSelfSorted,
              DeadlineWithinTTL, NextExpirationIsLowerBound, LiveListIsExact, LiveCountsTheStore
  <2> QED BY <1>t, <2>1, <2>2
<1>5. ASSUME NEW target \in 0 .. MaxNow, ClientSetNow(target) PROVE Inv'
  <2>1. /\ UNCHANGED <<queue, live_blades, live, next_expiration, ttl, expiration, in_store>>
        /\ out_head' = {} /\ now' = target /\ target >= now
    BY <1>5 DEF ClientSetNow, lawn2_set_now, bladeVars, nodeVars
  <2>2. InStore' = InStore /\ \A n \in InStore : n \in Node BY <2>1 DEF InStore
  <2>3. TypeOK' BY <2>1 DEF Inv, TypeOK
  <2>4. DeadlineWithinTTL'
    <3>1. \A n \in InStore : ttl[n] \in Nat /\ expiration[n] \in Nat /\ expiration[n] <= now + ttl[n]
      BY <1>t, <2>2 DEF Inv, TypeOK, DeadlineWithinTTL
    <3> QED BY <1>t, <2>1, <2>2, <3>1 DEF DeadlineWithinTTL
  <2> QED BY <2>1, <2>2, <2>3, <2>4 DEF Inv, BladesHoldTheStore, BladesSelfSorted,
            NextExpirationIsLowerBound, LiveListIsExact, LiveCountsTheStore
<1>6. CASE UNCHANGED vars
  <2>1. UNCHANGED <<now, queue, live_blades, live, next_expiration, ttl, expiration, in_store, out_head>>
    BY <1>6 DEF vars, bladeVars, nodeVars
  <2>2. InStore' = InStore BY <2>1 DEF InStore
  <2> QED BY <2>1, <2>2 DEF Inv, TypeOK, BladesHoldTheStore, BladesSelfSorted,
            DeadlineWithinTTL, NextExpirationIsLowerBound, LiveListIsExact, LiveCountsTheStore
<1> QED BY <1>1, <1>2, <1>3, <1>4, <1>5, <1>6 DEF Next

(***************************************************************************)
(* The theorems.                                                            *)
(***************************************************************************)
\* The invariant of the store, for any number of nodes, TTLs and ticks.
THEOREM Lawn2Invariant == Spec => []Inv
<1>1. Init => Inv BY InitInv
<1>2. Inv /\ [Next]_vars => Inv' BY NextKeepsInv
<1> QED BY <1>1, <1>2, PTL DEF Spec

\* The fields keep their types; live never wraps below zero.
THEOREM Lawn2TypeCorrect == Spec => []TypeOK
<1>1. Inv => TypeOK BY DEF Inv
<1> QED BY <1>1, Lawn2Invariant, PTL

\* Every blade is in expiry order as long as the clock is not set back.
THEOREM Lawn2SelfSorted == Spec => []BladesSelfSorted
<1>1. Inv => BladesSelfSorted BY DEF Inv
<1> QED BY <1>1, Lawn2Invariant, PTL

\* The early return of collect_expired never hides a node that is due.
THEOREM Lawn2LowerBound == Spec => []NextExpirationIsLowerBound
<1>1. Inv => NextExpirationIsLowerBound BY DEF Inv
<1> QED BY <1>1, Lawn2Invariant, PTL

\* in_store, the node's ttl, the blades, the live list and the live counter
\* always agree.
THEOREM Lawn2Consistent == Spec => []StoreIsConsistent
<1>1. Inv => StoreIsConsistent BY DEF Inv, StoreIsConsistent
<1> QED BY <1>1, Lawn2Invariant, PTL

(***************************************************************************)
(* Refinement.                                                              *)
(***************************************************************************)
\* A poll of lawn2 is a poll of the abstract store.
LEMMA CollectIsPoll ==
  ASSUME Inv, NEW t \in 0 .. MaxNow, t >= now, now' = t, NEW collect \in BOOLEAN,
         collect_expired(t, collect)
  PROVE  TS!Poll(t, collect)
<1>1. /\ InStore' = {n \in InStore : expiration[n] > t}
      /\ out_head' = IF collect THEN {n \in InStore : expiration[n] <= t} ELSE {}
      /\ expiration' = expiration
  BY CollectKeepsInv
<1>2. \A n \in InStore : expiration[n] \in Nat
  BY ConstantsAssumption DEF Inv, TypeOK, InStore
<1>3. t \in Nat BY ConstantsAssumption
<1> DEFINE pend == {<<n, expiration[n]>> : n \in InStore}
           due == {p \in pend : p[2] <= t}
<1>4. due = {<<n, expiration[n]>> : n \in {m \in InStore : expiration[m] <= t}}
  OBVIOUS
<1>5. {<<n, expiration[n]>> : n \in {m \in InStore : expiration[m] > t}} = pend \ due
  BY <1>2, <1>3
<1>6. {<<n, expiration'[n]>> : n \in InStore'} = pend \ due
  BY <1>1, <1>5
<1>7. {<<n, expiration'[n]>> : n \in out_head'} = IF collect THEN due ELSE {}
  BY <1>1, <1>4
<1> QED BY <1>6, <1>7 DEF TS!Poll, TS!Due

\* A call that leaves the nodes alone and does not move the clock back is a
\* Skip of the abstract store.
LEMMA IdleIsSkip ==
  ASSUME NEW t, t >= now, now' = t, UNCHANGED <<expiration, in_store>>, out_head' = {}
  PROVE  TS!Skip(t)
<1>1. InStore' = InStore BY DEF InStore
<1> QED BY <1>1 DEF TS!Skip

\* Every step of lawn2 is a step of the abstract store or leaves it alone.
LEMMA NextIsTimerStoreStep == Inv /\ [Next]_vars => [TS!Next]_(TS!vars)
<1> SUFFICES ASSUME Inv, [Next]_vars PROVE [TS!Next]_(TS!vars) OBVIOUS
<1>t. /\ now \in 0 .. MaxNow /\ now \in Nat /\ MaxNow \in Nat /\ UINT64_MAX \in Nat
      /\ MaxNow <= UINT64_MAX /\ \A k \in TTL : k \in Nat
      /\ expiration \in [Node -> 0 .. UINT64_MAX] /\ in_store \in [Node -> BOOLEAN]
  BY ConstantsAssumption DEF Inv, TypeOK
<1>1. ASSUME NEW n \in Node, NEW k \in TTL, ClientAdd(n, k) PROVE TS!Next
  <2>1. /\ ~in_store[n] /\ now' = now /\ out_head' = {}
        /\ expiration' = [expiration EXCEPT ![n] = now + k]
        /\ in_store' = [in_store EXCEPT ![n] = TRUE]
    BY <1>t, <1>1 DEF ClientAdd, lawn2_add, Expiration, Add64
  <2>2. InStore' = InStore \cup {n} /\ n \notin InStore /\ InStore \subseteq Node
    BY <1>t, <2>1 DEF InStore
  <2>3. expiration'[n] = now + k /\ \A m \in InStore : expiration'[m] = expiration[m]
    BY <1>t, <2>1, <2>2
  <2>4. {<<m, expiration'[m]>> : m \in InStore'} = {<<m, expiration[m]>> : m \in InStore} \cup {<<n, now + k>>}
    BY <2>2, <2>3
  <2>5. \A p \in {<<m, expiration[m]>> : m \in InStore} : p[1] # n
    BY <2>2
  <2>6. TS!Start(n, k) BY <2>1, <2>4, <2>5 DEF TS!Start
  <2> QED BY <2>6 DEF TS!Next
<1>2. ASSUME NEW n \in Node, lawn2_del(n) PROVE TS!Next
  <2>1. now' = now /\ out_head' = {} /\ expiration' = expiration
    BY <1>2 DEF lawn2_del, nodeVars
  <2>2. InStore' = InStore \ {n}
    <3>1. CASE in_store[n] BY <1>2, <3>1 DEF lawn2_del, Cleared, InStore
    <3>2. CASE ~in_store[n] BY <1>2, <3>2 DEF lawn2_del, nodeVars, InStore
    <3> QED BY <3>1, <3>2
  <2>3. {<<m, expiration'[m]>> : m \in InStore'} = {p \in {<<m, expiration[m]>> : m \in InStore} : p[1] # n}
    BY <2>1, <2>2
  <2>4. TS!Stop(n) BY <2>1, <2>3 DEF TS!Stop
  <2> QED BY <2>4 DEF TS!Next
<1>3. ASSUME NEW collect \in BOOLEAN, ClientTick(collect) PROVE TS!Next
  <2>1. now + 1 \in 0 .. MaxNow /\ now + 1 >= now /\ now' = now + 1
    BY <1>t, <1>3 DEF ClientTick, lawn2_tick, Add64
  <2>2. collect_expired(now + 1, collect)
    BY <1>3, <2>1 DEF ClientTick, lawn2_tick
  <2>3. TS!Poll(now + 1, collect) BY <2>1, <2>2, CollectIsPoll
  <2> QED BY <2>1, <2>3 DEF TS!Next
<1>4. ASSUME NEW target \in 0 .. MaxNow, NEW collect \in BOOLEAN, lawn2_advance(target, collect)
      PROVE  TS!Next
  <2>1. CASE target > now
    <3>1. now' = target /\ target >= now /\ collect_expired(target, collect)
      BY <1>t, <1>4, <2>1 DEF lawn2_advance
    <3>2. TS!Poll(target, collect) BY <3>1, CollectIsPoll
    <3> QED BY <3>2 DEF TS!Next
  <2>2. CASE target <= now
    <3>1. UNCHANGED <<now, expiration, in_store>> /\ out_head' = {}
      BY <1>t, <1>4, <2>2 DEF lawn2_advance, nodeVars
    <3>2. PICK t \in 0 .. MaxNow : t = now BY <1>t
    <3>3. t >= now /\ now' = t BY <1>t, <3>1, <3>2
    <3>4. TS!Skip(t) BY <3>1, <3>3, IdleIsSkip
    <3> QED BY <3>4 DEF TS!Next
  <2> QED BY <1>t, <2>1, <2>2
<1>5. ASSUME NEW target \in 0 .. MaxNow, ClientSetNow(target) PROVE TS!Next
  <2>1. UNCHANGED <<expiration, in_store>> /\ out_head' = {} /\ now' = target /\ target >= now
    BY <1>5 DEF ClientSetNow, lawn2_set_now, nodeVars
  <2>2. TS!Skip(target) BY <2>1, IdleIsSkip
  <2> QED BY <2>2 DEF TS!Next
<1>6. CASE UNCHANGED vars
  <2>1. UNCHANGED <<now, expiration, in_store, out_head>> BY <1>6 DEF vars, nodeVars
  <2>2. InStore' = InStore BY <2>1 DEF InStore
  <2> QED BY <2>1, <2>2 DEF TS!vars
<1> QED BY <1>1, <1>2, <1>3, <1>4, <1>5, <1>6 DEF Next

\* lawn2 implements the abstract timer store: every poll hands over exactly
\* the timers that are due, whatever was added, deleted and skipped before.
THEOREM Lawn2ImplementsTimerStore == Spec => ImplementsTimerStore
<1>1. Init => TS!Init
  <2> SUFFICES ASSUME Init PROVE TS!Init OBVIOUS
  <2>1. InStore = {} /\ out_head = {} /\ now \in 0 .. MaxNow
    BY ConstantsAssumption DEF Init, InStore
  <2> QED BY <2>1 DEF TS!Init
<1>2. Inv /\ [Next]_vars => [TS!Next]_(TS!vars) BY NextIsTimerStoreStep
<1> QED BY <1>1, <1>2, Lawn2Invariant, PTL DEF Spec, ImplementsTimerStore, TS!Spec

\* No poll that moves the clock passes over a timer that is due.
THEOREM Lawn2PollsFireAllDue == Spec => PollLeavesNothingDue
<1> DEFINE NoneDue == \A n \in InStore' : expiration'[n] > now'
           Poll(target, collect) == ClientTick(collect) \/ (target > now /\ lawn2_advance(target, collect))
           Step == \A target \in 0 .. MaxNow, collect \in BOOLEAN : Poll(target, collect) => NoneDue
<1>1. ASSUME Inv PROVE Step
  <2>t. now \in Nat /\ MaxNow \in Nat /\ UINT64_MAX \in Nat /\ MaxNow <= UINT64_MAX
    BY <1>1, ConstantsAssumption DEF Inv, TypeOK
  <2> SUFFICES ASSUME NEW target \in 0 .. MaxNow, NEW collect \in BOOLEAN, Poll(target, collect)
               PROVE  NoneDue
    OBVIOUS
  <2>1. \E t \in 0 .. MaxNow : t >= now /\ now' = t /\ collect_expired(t, collect)
    <3>1. CASE ClientTick(collect)
      <4>1. now + 1 \in 0 .. MaxNow /\ now + 1 >= now /\ now' = now + 1
        BY <2>t, <3>1 DEF ClientTick, lawn2_tick, Add64
      <4>2. collect_expired(now + 1, collect)
        BY <3>1, <4>1 DEF ClientTick, lawn2_tick
      <4> QED BY <4>1, <4>2
    <3>2. CASE target > now /\ lawn2_advance(target, collect)
      <4>1. now' = target /\ target >= now /\ collect_expired(target, collect)
        BY <2>t, <3>2 DEF lawn2_advance
      <4> QED BY <4>1
    <3> QED BY <3>1, <3>2
  <2>2. PICK t \in 0 .. MaxNow : t >= now /\ now' = t /\ collect_expired(t, collect)
    BY <2>1
  <2>3. InStore' = {n \in InStore : expiration[n] > t} /\ expiration' = expiration
    BY <1>1, <2>2, CollectKeepsInv
  <2> QED BY <2>2, <2>3
<1>2. Inv /\ [Next]_vars => [Step]_vars BY <1>1
<1> QED BY <1>2, Lawn2Invariant, PTL DEF Spec, PollLeavesNothingDue
===============================================================================
