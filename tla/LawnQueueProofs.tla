--------------------------- MODULE LawnQueueProofs ----------------------------
(***************************************************************************)
(* Proofs about LawnQueue: the links that queuePush, _queuePull, _queuePop  *)
(* and pop_expired leave are those of the sequence of nodes the queue       *)
(* should hold, for any number of nodes.                                    *)
(***************************************************************************)
EXTENDS LawnQueue, SeqLemmas, FiniteSetTheorems

(***************************************************************************)
(* A queue that holds a stretch of a sequence.                              *)
(***************************************************************************)
\* Queue c, with links nx and pv, holds s[a] .. s[b].
Spans(c, nx, pv, s, a, b) ==
  /\ c.head = IF a > b THEN NULL ELSE s[a]
  /\ c.tail = IF a > b THEN NULL ELSE s[b]
  /\ \A i \in a .. b :
       /\ nx[s[i]] = IF i = b THEN NULL ELSE s[i + 1]
       /\ pv[s[i]] = IF i = a THEN NULL ELSE s[i - 1]

\* s[a] .. s[b] are different nodes.
Apart(s, a, b) ==
  /\ \A i \in a .. b : s[i] \in Node
  /\ \A i, j \in a .. b : s[i] = s[j] => i = j

\* t[1] .. t[n] are the nodes of s after the first d.
Copied(t, s, d, n) == \A i \in 1 .. n : t[i] = s[i + d]

Lacks(s, a, b, n) == \A i \in a .. b : s[i] # n

\* Links of other nodes than n are the same.
ButFor(nx, pv, nx1, pv1, n) == \A m \in Node : m # n => nx1[m] = nx[m] /\ pv1[m] = pv[m]

\* Links of other nodes than s[a] .. s[b] are the same.
SameElsewhere(nx, pv, nx1, pv1, s, a, b) ==
  \A m \in Node : (\A i \in a .. b : s[i] # m) => nx1[m] = nx[m] /\ pv1[m] = pv[m]

\* What a queue holds depends on its ends and the links of its nodes.
LEMMA SpansKept ==
  ASSUME NEW c, NEW d, NEW nx, NEW pv, NEW nx1, NEW pv1, NEW s, NEW a \in Int, NEW b \in Int,
         Spans(c, nx, pv, s, a, b), d.head = c.head, d.tail = c.tail,
         \A i \in a .. b : nx1[s[i]] = nx[s[i]] /\ pv1[s[i]] = pv[s[i]]
  PROVE  Spans(d, nx1, pv1, s, a, b)
BY DEF Spans

LEMMA SpansCopied ==
  ASSUME NEW c, NEW nx, NEW pv, NEW nx1, NEW pv1, NEW s, NEW t, NEW b \in Nat,
         Spans(c, nx, pv, s, 1, b), Apart(s, 1, b), Copied(t, s, 0, b), NEW n, Lacks(s, 1, b, n),
         ButFor(nx, pv, nx1, pv1, n)
  PROVE  Spans(c, nx1, pv1, t, 1, b)
<1>0. \A i \in 1 .. b : t[i] = s[i] /\ nx1[s[i]] = nx[s[i]] /\ pv1[s[i]] = pv[s[i]]
  BY DEF Apart, Copied, Lacks, ButFor
<1>1. b >= 1 => 1 \in 1 .. b /\ b \in 1 .. b OBVIOUS
<1>2. \A i \in 1 .. b : (i # b => i + 1 \in 1 .. b) /\ (i # 1 => i - 1 \in 1 .. b) OBVIOUS
<1> QED BY <1>0, <1>1, <1>2 DEF Spans

\* The same nodes, numbered from another position.
LEMMA SpansShift ==
  ASSUME NEW c, NEW nx, NEW pv, NEW s, NEW t, NEW d \in Nat, NEW n \in Nat,
         Spans(c, nx, pv, s, d + 1, d + n), Copied(t, s, d, n)
  PROVE  Spans(c, nx, pv, t, 1, n)
<1> USE DEF Copied
<1>1. \A i \in 1 .. n : i + d \in (d + 1) .. (d + n) OBVIOUS
<1>2. c.head = (IF 1 > n THEN NULL ELSE t[1]) /\ c.tail = (IF 1 > n THEN NULL ELSE t[n])
  <2>1. n >= 1 => t[1] = s[d + 1] /\ t[n] = s[d + n] OBVIOUS
  <2>2. (d + 1 > d + n) = (1 > n) OBVIOUS
  <2> QED BY <2>1, <2>2 DEF Spans
<1>3. ASSUME NEW i \in 1 .. n
      PROVE  nx[t[i]] = (IF i = n THEN NULL ELSE t[i + 1]) /\ pv[t[i]] = (IF i = 1 THEN NULL ELSE t[i - 1])
  <2>1. nx[s[i + d]] = (IF i + d = d + n THEN NULL ELSE s[(i + d) + 1])
    BY <1>1 DEF Spans
  <2>2. pv[s[i + d]] = (IF i + d = d + 1 THEN NULL ELSE s[(i + d) - 1])
    BY <1>1 DEF Spans
  <2>3. i # n => i + 1 \in 1 .. n /\ (i + d) + 1 = (i + 1) + d OBVIOUS
  <2>4. i # 1 => i - 1 \in 1 .. n /\ (i + d) - 1 = (i - 1) + d OBVIOUS
  <2>5. i # n => t[i + 1] = s[(i + d) + 1] BY <2>3
  <2>6. i # 1 => t[i - 1] = s[(i + d) - 1] BY <2>4
  <2> QED BY <2>1, <2>2, <2>5, <2>6
<1> QED BY <1>2, <1>3 DEF Spans

(***************************************************************************)
(* The updates that the queue functions are made of.                        *)
(***************************************************************************)
NodeOrNull == Node \cup {NULL}
FrontAt(st, x) == [st EXCEPT !.q.head = x, !.prev[x] = NULL]
BackAt(st, x) == [st EXCEPT !.q.tail = x, !.next[x] = NULL]
NextSet(st, y, z) == [st EXCEPT !.next[y] = z]
PrevSet(st, y, z) == [st EXCEPT !.prev[y] = z]
Shorter(st) == [st EXCEPT !.q.len = @ - 1]

LEMMA LinkedFields ==
  ASSUME NEW st \in Linked
  PROVE  /\ st.q.head \in Node \cup {NULL} /\ st.q.tail \in Node \cup {NULL} /\ st.q.len \in Nat
         /\ st.next \in Links /\ st.prev \in Links /\ st.q \in ElementQueue
BY DEF Linked, ElementQueue

LEMMA FrontAtFacts ==
  ASSUME NEW st \in Linked, NEW x \in Node, NEW u, u = FrontAt(st, x)
  PROVE  /\ u \in Linked /\ u.q.head = x /\ u.q.tail = st.q.tail /\ u.q.len = st.q.len
         /\ u.next = st.next /\ \A m \in Node : u.prev[m] = IF m = x THEN NULL ELSE st.prev[m]
<1>1. PICK e : e = [st EXCEPT !.q.head = x] OBVIOUS
<1>2. /\ e \in Linked /\ e.q.head = x /\ e.q.tail = st.q.tail /\ e.q.len = st.q.len
      /\ e.next = st.next /\ e.prev = st.prev
  BY <1>1 DEF Linked, ElementQueue
<1>3. u = [e EXCEPT !.prev[x] = NULL] BY <1>1, Zenon DEF FrontAt
<1>4. u.q = e.q /\ u.next = e.next /\ u.prev = [e.prev EXCEPT ![x] = NULL] /\ u \in Linked
  BY <1>2, <1>3 DEF Linked, Links
<1> QED BY <1>2, <1>4, LinkedFields DEF Links

LEMMA BackAtFacts ==
  ASSUME NEW st \in Linked, NEW x \in Node, NEW u, u = BackAt(st, x)
  PROVE  /\ u \in Linked /\ u.q.head = st.q.head /\ u.q.tail = x /\ u.q.len = st.q.len
         /\ u.prev = st.prev /\ \A m \in Node : u.next[m] = IF m = x THEN NULL ELSE st.next[m]
<1>1. PICK e : e = [st EXCEPT !.q.tail = x] OBVIOUS
<1>2. /\ e \in Linked /\ e.q.tail = x /\ e.q.head = st.q.head /\ e.q.len = st.q.len
      /\ e.next = st.next /\ e.prev = st.prev
  BY <1>1 DEF Linked, ElementQueue
<1>3. u = [e EXCEPT !.next[x] = NULL] BY <1>1, Zenon DEF BackAt
<1>4. u.q = e.q /\ u.prev = e.prev /\ u.next = [e.next EXCEPT ![x] = NULL] /\ u \in Linked
  BY <1>2, <1>3 DEF Linked, Links
<1> QED BY <1>2, <1>4, LinkedFields DEF Links

LEMMA NextSetFacts ==
  ASSUME NEW st \in Linked, NEW y \in Node, NEW z \in NodeOrNull, NEW u, u = NextSet(st, y, z)
  PROVE  /\ u \in Linked /\ u.q = st.q /\ u.prev = st.prev
         /\ \A m \in Node : u.next[m] = IF m = y THEN z ELSE st.next[m]
BY DEF NextSet, Linked, Links, NodeOrNull

LEMMA PrevSetFacts ==
  ASSUME NEW st \in Linked, NEW y \in Node, NEW z \in NodeOrNull, NEW u, u = PrevSet(st, y, z)
  PROVE  /\ u \in Linked /\ u.q = st.q /\ u.next = st.next
         /\ \A m \in Node : u.prev[m] = IF m = y THEN z ELSE st.prev[m]
BY DEF PrevSet, Linked, Links, NodeOrNull

LEMMA ShorterFacts ==
  ASSUME NEW st \in Linked, st.q.len > 0, NEW u, u = Shorter(st)
  PROVE  /\ u \in Linked /\ u.q.head = st.q.head /\ u.q.tail = st.q.tail /\ u.q.len = st.q.len - 1
         /\ u.next = st.next /\ u.prev = st.prev
<1>1. st.q.len - 1 \in Nat BY DEF Linked, ElementQueue
<1> QED BY <1>1 DEF Shorter, Linked, ElementQueue

LEMMA EmptiedFacts ==
  ASSUME NEW st \in Linked, NEW u, u = Emptied(st)
  PROVE  /\ u \in Linked /\ u.q.head = NULL /\ u.q.tail = NULL /\ u.q.len = st.q.len
         /\ u.next = st.next /\ u.prev = st.prev
<1>1. PICK e : e = [st EXCEPT !.q.head = NULL] OBVIOUS
<1>2. /\ e \in Linked /\ e.q.head = NULL /\ e.q.len = st.q.len
      /\ e.next = st.next /\ e.prev = st.prev
  BY <1>1 DEF Linked, ElementQueue
<1>3. u = [e EXCEPT !.q.tail = NULL] BY <1>1, Zenon DEF Emptied
<1> QED BY <1>2, <1>3 DEF Linked, ElementQueue

(***************************************************************************)
(* What the queue functions do to the links.                                *)
(***************************************************************************)
\* A node with clear links is hung behind the tail: the effect of queuePush
\* and of the end of the loop of pop_expired.
LEMMA HangBehind ==
  ASSUME NEW c, NEW d, NEW nx \in Links, NEW pv \in Links, NEW nx1, NEW pv1, NEW s, NEW b \in Nat,
         Apart(s, 1, b + 1), Spans(c, nx, pv, s, 1, b),
         nx[s[b + 1]] = NULL, pv[s[b + 1]] = NULL,
         d.head = IF b = 0 THEN s[b + 1] ELSE c.head, d.tail = s[b + 1],
         nx1 = IF b = 0 THEN nx ELSE [nx EXCEPT ![s[b]] = s[b + 1]],
         pv1 = IF b = 0 THEN pv ELSE [pv EXCEPT ![s[b + 1]] = s[b]]
  PROVE  /\ nx1 \in Links /\ pv1 \in Links
         /\ Spans(d, nx1, pv1, s, 1, b + 1)
         /\ SameElsewhere(nx, pv, nx1, pv1, s, 1, b + 1)
<1>1. \A i \in 1 .. (b + 1) : s[i] \in Node BY DEF Apart
<1>2. CASE b = 0
  <2>1. \A i \in 1 .. (b + 1) : i = 1 BY <1>2
  <2>2. Spans(d, nx1, pv1, s, 1, b + 1) BY <1>2, <2>1 DEF Spans
  <2> QED BY <1>2, <2>2 DEF SameElsewhere
<1>3. CASE b # 0
  <2>1. b \in 1 .. (b + 1) /\ b + 1 \in 1 .. (b + 1) /\ b # b + 1 BY <1>3
  <2>2. s[b] \in Node /\ s[b + 1] \in Node BY <1>1, <2>1
  <2>3. nx1 \in Links /\ pv1 \in Links BY <1>3, <2>2 DEF Links
  <2>4. \A m \in Node : /\ nx1[m] = IF m = s[b] THEN s[b + 1] ELSE nx[m]
                        /\ pv1[m] = IF m = s[b + 1] THEN s[b] ELSE pv[m]
    BY <1>3, <2>2 DEF Links
  <2>5. ASSUME NEW i \in 1 .. (b + 1)
        PROVE  /\ nx1[s[i]] = (IF i = b + 1 THEN NULL ELSE s[i + 1])
               /\ pv1[s[i]] = (IF i = 1 THEN NULL ELSE s[i - 1])
    <3>1. s[i] \in Node /\ (s[i] = s[b] => i = b) /\ (s[i] = s[b + 1] => i = b + 1)
      BY <1>1, <2>1 DEF Apart
    <3>2. CASE i = b + 1
      <4>1. i - 1 = b /\ i # 1 BY <1>3, <3>2
      <4> QED BY <2>1, <2>4, <3>1, <3>2, <4>1
    <3>3. CASE i # b + 1
      <4>1. i \in 1 .. b BY <3>3
      <4>2. /\ nx[s[i]] = (IF i = b THEN NULL ELSE s[i + 1])
            /\ pv[s[i]] = (IF i = 1 THEN NULL ELSE s[i - 1])
        BY <4>1 DEF Spans
      <4> QED BY <2>4, <3>1, <3>3, <4>2
    <3> QED BY <3>2, <3>3
  <2>6. d.head = (IF 1 > b + 1 THEN NULL ELSE s[1]) /\ d.tail = (IF 1 > b + 1 THEN NULL ELSE s[b + 1])
    BY <1>3 DEF Spans
  <2>7. SameElsewhere(nx, pv, nx1, pv1, s, 1, b + 1) BY <2>1, <2>4 DEF SameElsewhere
  <2> QED BY <2>3, <2>5, <2>6, <2>7 DEF Spans
<1> QED BY <1>2, <1>3

\* A node of a queue is not NULL; so the ends of a queue tell if it is empty.
LEMMA EndsAreNodes ==
  ASSUME NEW c, NEW nx, NEW pv, NEW s, NEW a \in Int, NEW b \in Int,
         Apart(s, a, b), Spans(c, nx, pv, s, a, b)
  PROVE  /\ a <= b => /\ c.head = s[a] /\ c.tail = s[b] /\ s[a] \in Node /\ s[b] \in Node
                      /\ s[a] # NULL /\ s[b] # NULL
         /\ a > b => c.head = NULL /\ c.tail = NULL
<1>1. a <= b => a \in a .. b /\ b \in a .. b /\ ~(a > b) OBVIOUS
<1> QED BY <1>1, QueueAssumption DEF Apart, Spans

LEMMA queuePushSpans ==
  ASSUME NEW st \in Linked, NEW s, NEW b \in Nat, NEW u, u = queuePush(st, s[b + 1]),
         Apart(s, 1, b + 1), Spans(st.q, st.next, st.prev, s, 1, b),
         st.next[s[b + 1]] = NULL, st.prev[s[b + 1]] = NULL
  PROVE  /\ u \in Linked /\ u.q.len = st.q.len + 1
         /\ Spans(u.q, u.next, u.prev, s, 1, b + 1)
         /\ SameElsewhere(st.next, st.prev, u.next, u.prev, s, 1, b + 1)
<1>1. st.next \in Links /\ st.prev \in Links /\ st.q.len \in Nat BY DEF Linked, ElementQueue
<1>2. Apart(s, 1, b) BY DEF Apart
<1>3. (st.q.tail = NULL <=> b = 0) /\ (b # 0 => st.q.tail = s[b])
  <2>1. (1 <= b <=> b # 0) /\ (1 > b <=> b = 0) OBVIOUS
  <2> QED BY <1>2, <2>1, EndsAreNodes
<1>4. /\ u.q.head = (IF b = 0 THEN s[b + 1] ELSE st.q.head) /\ u.q.tail = s[b + 1]
      /\ u.q.len = st.q.len + 1
      /\ u.next = IF b = 0 THEN st.next ELSE [st.next EXCEPT ![s[b]] = s[b + 1]]
      /\ u.prev = IF b = 0 THEN st.prev ELSE [st.prev EXCEPT ![s[b + 1]] = s[b]]
  BY <1>3 DEF queuePush
<1>5. /\ u.next \in Links /\ u.prev \in Links
      /\ Spans(u.q, u.next, u.prev, s, 1, b + 1)
      /\ SameElsewhere(st.next, st.prev, u.next, u.prev, s, 1, b + 1)
  BY <1>1, <1>4, HangBehind
<1>6. u \in Linked
  <2>1. b + 1 \in 1 .. (b + 1) /\ s[b + 1] \in Node BY DEF Apart
  <2>2. st.q.head \in Node \cup {NULL} BY DEF Linked, ElementQueue
  <2>3. u = [q |-> [head |-> u.q.head, tail |-> u.q.tail, len |-> u.q.len], next |-> u.next, prev |-> u.prev]
    BY DEF queuePush
  <2>4. u.q.head \in Node \cup {NULL} /\ u.q.tail \in Node \cup {NULL} /\ u.q.len \in Nat
    BY <1>1, <1>4, <2>1, <2>2
  <2> QED BY <1>5, <2>3, <2>4 DEF Linked, ElementQueue
<1> QED BY <1>4, <1>5, <1>6

\* The end of a round of pop_expired hangs the node behind the return queue.
LEMMA ReturnedSpans ==
  ASSUME NEW ret \in ElementQueue, NEW st \in Linked, NEW s, NEW b \in Nat,
         NEW u, u = Returned(ret, st, s[b + 1]),
         Apart(s, 1, b + 1), Spans(ret, st.next, st.prev, s, 1, b)
  PROVE  /\ u \in [ret : ElementQueue, st : Linked] /\ u.ret.len = ret.len + 1
         /\ u.st.q = st.q
         /\ Spans(u.ret, u.st.next, u.st.prev, s, 1, b + 1)
         /\ SameElsewhere(st.next, st.prev, u.st.next, u.st.prev, s, 1, b + 1)
<1> DEFINE n == s[b + 1]
           nx == [st.next EXCEPT ![n] = NULL]
           pv == [st.prev EXCEPT ![n] = NULL]
<1>1. /\ st.next \in Links /\ st.prev \in Links /\ ret.len \in Nat /\ ret.head \in Node \cup {NULL}
      /\ st.q \in ElementQueue
  BY DEF Linked, ElementQueue
<1>2. b + 1 \in 1 .. (b + 1) /\ n \in Node BY DEF Apart
<1>3. /\ nx \in Links /\ pv \in Links /\ nx[n] = NULL /\ pv[n] = NULL
      /\ \A m \in Node : m # n => nx[m] = st.next[m] /\ pv[m] = st.prev[m]
  BY <1>1, <1>2 DEF Links
<1>4. Apart(s, 1, b) BY DEF Apart
<1>5. (ret.head = NULL <=> b = 0) /\ (b # 0 => ret.tail = s[b] /\ s[b] \in Node /\ s[b] # n)
  <2>1. (1 <= b <=> b # 0) /\ (1 > b <=> b = 0) OBVIOUS
  <2>2. b # 0 => b \in 1 .. (b + 1) /\ b # b + 1 OBVIOUS
  <2> QED BY <1>2, <1>4, <2>1, <2>2, EndsAreNodes DEF Apart
<1>6. Spans(ret, nx, pv, s, 1, b)
  <2>1. ASSUME NEW i \in 1 .. b PROVE nx[s[i]] = st.next[s[i]] /\ pv[s[i]] = st.prev[s[i]]
    <3>1. i \in 1 .. (b + 1) /\ i # b + 1 OBVIOUS
    <3>2. s[i] \in Node /\ s[i] # n BY <1>2, <3>1 DEF Apart
    <3> QED BY <1>3, <3>2
  <2> HIDE DEF n, nx, pv
  <2> QED BY <2>1 DEF Spans
<1>7. /\ u.ret.head = (IF b = 0 THEN n ELSE ret.head) /\ u.ret.tail = n /\ u.ret.len = ret.len + 1
      /\ u.st.q = st.q
      /\ u.st.next = IF b = 0 THEN nx ELSE [nx EXCEPT ![s[b]] = n]
      /\ u.st.prev = IF b = 0 THEN pv ELSE [pv EXCEPT ![n] = s[b]]
  BY <1>5 DEF Returned, Linked
<1>8. /\ u.st.next \in Links /\ u.st.prev \in Links
      /\ Spans(u.ret, u.st.next, u.st.prev, s, 1, b + 1)
      /\ SameElsewhere(nx, pv, u.st.next, u.st.prev, s, 1, b + 1)
  <2> HIDE DEF nx, pv
  <2> QED BY <1>3, <1>6, <1>7, HangBehind
<1>9. SameElsewhere(st.next, st.prev, u.st.next, u.st.prev, s, 1, b + 1)
  <2> HIDE DEF nx, pv
  <2> QED BY <1>2, <1>3, <1>8 DEF SameElsewhere
<1>10. u \in [ret : ElementQueue, st : Linked]
  <2>1. u.ret = [head |-> u.ret.head, tail |-> u.ret.tail, len |-> u.ret.len] BY DEF Returned
  <2>2. u.ret \in ElementQueue
    <3>1. u.ret.head \in Node \cup {NULL} /\ u.ret.tail \in Node \cup {NULL} /\ u.ret.len \in Nat
      BY <1>1, <1>2, <1>7
    <3> QED BY <2>1, <3>1 DEF ElementQueue
  <2>3. u.st = [q |-> u.st.q, next |-> u.st.next, prev |-> u.st.prev] BY <1>5 DEF Returned, Linked
  <2>4. u.st \in Linked BY <1>1, <1>7, <1>8, <2>3 DEF Linked
  <2>5. u = [ret |-> u.ret, st |-> u.st] BY DEF Returned
  <2> QED BY <2>2, <2>4, <2>5
<1> QED BY <1>7, <1>8, <1>9, <1>10

\* The head leaves the queue.
LEMMA _queuePopSpans ==
  ASSUME NEW st \in Linked, NEW s, NEW a \in Nat, NEW b \in Nat, a <= b, NEW u, u = _queuePop(st),
         Apart(s, a, b), Spans(st.q, st.next, st.prev, s, a, b), st.q.len >= (b - a) + 1
  PROVE  /\ u \in Linked /\ u.q.len = st.q.len - 1
         /\ Spans(u.q, u.next, u.prev, s, a + 1, b)
         /\ SameElsewhere(st.next, st.prev, u.next, u.prev, s, a, b)
<1>1. st.q.len \in Nat /\ st.q.len > 0 BY LinkedFields
<1>2. st.q.head = s[a] /\ st.q.tail = s[b] /\ s[a] \in Node BY EndsAreNodes
<1>3. st.next[st.q.head] = IF a = b THEN NULL ELSE s[a + 1] BY <1>2 DEF Spans
<1>4. CASE a = b
  <2>1. PICK e : e = Emptied(st) OBVIOUS
  <2>2. u = Shorter(e) BY <1>3, <1>4, <2>1, Zenon DEF _queuePop, Shorter
  <2>3. /\ u \in Linked /\ u.q.head = NULL /\ u.q.tail = NULL /\ u.q.len = st.q.len - 1
        /\ u.next = st.next /\ u.prev = st.prev
    BY <1>1, <2>1, <2>2, EmptiedFacts, ShorterFacts
  <2>4. a + 1 > b /\ (a + 1) .. b = {} BY <1>4
  <2>5. Spans(u.q, u.next, u.prev, s, a + 1, b) BY <2>3, <2>4 DEF Spans
  <2> QED BY <2>3, <2>5 DEF SameElsewhere
<1>5. CASE a # b
  <2>1. a + 1 \in a .. b /\ s[a + 1] \in Node /\ s[a + 1] # NULL
    BY <1>5, QueueAssumption DEF Apart
  <2>2. st.q.len # 1 BY <1>1, <1>5
  <2>3. PICK e : e = FrontAt(st, s[a + 1]) OBVIOUS
  <2>4. u = Shorter(e)
    BY <1>3, <1>5, <2>1, <2>2, <2>3, Zenon DEF _queuePop, FrontAt, Shorter
  <2>5. /\ u \in Linked /\ u.q.head = s[a + 1] /\ u.q.tail = s[b] /\ u.q.len = st.q.len - 1
        /\ u.next = st.next /\ \A m \in Node : u.prev[m] = IF m = s[a + 1] THEN NULL ELSE st.prev[m]
    <3>1. /\ e \in Linked /\ e.q.head = s[a + 1] /\ e.q.tail = st.q.tail /\ e.q.len = st.q.len
          /\ e.next = st.next /\ \A m \in Node : e.prev[m] = IF m = s[a + 1] THEN NULL ELSE st.prev[m]
      BY <2>1, <2>3, FrontAtFacts
    <3>2. /\ u \in Linked /\ u.q.head = e.q.head /\ u.q.tail = e.q.tail /\ u.q.len = e.q.len - 1
          /\ u.next = e.next /\ u.prev = e.prev
      BY <1>1, <2>4, <3>1, ShorterFacts
    <3> QED BY <1>2, <3>1, <3>2
  <2>6. ASSUME NEW i \in (a + 1) .. b
        PROVE  /\ u.next[s[i]] = (IF i = b THEN NULL ELSE s[i + 1])
               /\ u.prev[s[i]] = (IF i = a + 1 THEN NULL ELSE s[i - 1])
    <3>1. i \in a .. b /\ i # a /\ s[i] \in Node /\ (s[i] = s[a + 1] => i = a + 1)
      BY <2>1 DEF Apart
    <3> QED BY <2>5, <3>1 DEF Spans
  <2>7. Spans(u.q, u.next, u.prev, s, a + 1, b)
    <3>1. ~(a + 1 > b) BY <1>5
    <3> QED BY <2>5, <2>6, <3>1 DEF Spans
  <2>8. SameElsewhere(st.next, st.prev, u.next, u.prev, s, a, b)
    BY <2>1, <2>5 DEF SameElsewhere
  <2> QED BY <2>5, <2>7, <2>8
<1> QED BY <1>4, <1>5

\* _queuePull closes the links around position a.
LEMMA _queuePullLinks ==
  ASSUME NEW st \in Linked, NEW s, NEW b \in Nat, b > 1, NEW a \in 1 .. b, NEW u, u = _queuePull(st, s[a]),
         Apart(s, 1, b), Spans(st.q, st.next, st.prev, s, 1, b), st.q.len >= b
  PROVE  /\ u \in Linked /\ u.q.len = st.q.len - 1
         /\ u.q.head = IF a = 1 THEN s[2] ELSE s[1]
         /\ u.q.tail = IF a = b THEN s[b - 1] ELSE s[b]
         /\ \A m \in Node :
              /\ u.next[m] = IF a # 1 /\ m = s[a - 1] THEN (IF a = b THEN NULL ELSE s[a + 1]) ELSE st.next[m]
              /\ u.prev[m] = IF a # b /\ m = s[a + 1] THEN (IF a = 1 THEN NULL ELSE s[a - 1]) ELSE st.prev[m]
<1>0. st.next \in Links /\ st.q.len \in Nat BY LinkedFields
<1>1. /\ 1 \in 1 .. b /\ 2 \in 1 .. b /\ b - 1 \in 1 .. b /\ b # 1 /\ a \in 1 .. b
      /\ a # 1 => a - 1 \in 1 .. b /\ a - 1 # a
      /\ a # b => a + 1 \in 1 .. b /\ a + 1 # a
      /\ a = 1 => a + 1 = 2
  OBVIOUS
<1>2. PICK n : n = s[a] OBVIOUS
<1>3. n \in Node /\ \A i \in 1 .. b : s[i] \in Node /\ s[i] # NULL /\ (s[i] = n => i = a)
  BY <1>2, QueueAssumption DEF Apart
<1>4. st.q.head = s[1] /\ st.q.tail = s[b] BY <1>1, EndsAreNodes
<1>5. /\ st.next[n] = (IF a = b THEN NULL ELSE s[a + 1])
      /\ st.prev[n] = (IF a = 1 THEN NULL ELSE s[a - 1])
      /\ st.next[s[1]] = s[2]
  BY <1>1, <1>2 DEF Spans
<1>6. (n = st.q.head \/ st.prev[n] = NULL) <=> a = 1 BY <1>1, <1>2, <1>3, <1>4, <1>5
<1>7. PICK f : f = PullFront(st, n) OBVIOUS
<1>8. PICK g : g = PullBack(f, n) OBVIOUS
<1>9. u = Shorter(g)
  <2>1. st.q.len # 1 BY <1>0
  <2>2. st.q.head # NULL /\ st.next[st.q.head] # NULL BY <1>1, <1>3, <1>4, <1>5
  <2> QED BY <1>2, <1>7, <1>8, <2>1, <2>2, Zenon DEF _queuePull, Shorter
<1>10. /\ f \in Linked /\ f.q.head = (IF a = 1 THEN s[2] ELSE s[1]) /\ f.q.tail = s[b] /\ f.q.len = st.q.len
       /\ \A m \in Node : f.next[m] = IF a # 1 /\ m = s[a - 1] THEN (IF a = b THEN NULL ELSE s[a + 1]) ELSE st.next[m]
       /\ \A m \in Node : f.prev[m] = IF a = 1 /\ m = s[2] THEN NULL ELSE st.prev[m]
  <2>1. CASE a = 1
    <3>1. f = FrontAt(st, s[2]) BY <1>4, <1>5, <1>6, <1>7, <2>1, Zenon DEF PullFront, FrontAt
    <3>2. s[2] \in Node BY <1>1, <1>3
    <3>3. /\ f \in Linked /\ f.q.head = s[2] /\ f.q.tail = st.q.tail /\ f.q.len = st.q.len
          /\ f.next = st.next /\ \A m \in Node : f.prev[m] = IF m = s[2] THEN NULL ELSE st.prev[m]
      BY <3>1, <3>2, FrontAtFacts
    <3> QED BY <1>4, <2>1, <3>3
  <2>2. CASE a # 1
    <3>1. f = NextSet(st, s[a - 1], st.next[n]) BY <1>5, <1>6, <1>7, <2>2, Zenon DEF PullFront, NextSet
    <3>2. st.next[n] \in Node \cup {NULL} BY <1>0, <1>3 DEF Links
    <3>3. s[a - 1] \in Node BY <1>1, <1>3, <2>2
    <3>4. /\ f \in Linked /\ f.q = st.q /\ f.prev = st.prev
          /\ \A m \in Node : f.next[m] = IF m = s[a - 1] THEN st.next[n] ELSE st.next[m]
      <4>1. PICK y, z : y = s[a - 1] /\ z = st.next[n] OBVIOUS
      <4>2. y \in Node /\ z \in NodeOrNull /\ f = NextSet(st, y, z)
        BY <3>1, <3>2, <3>3, <4>1 DEF NodeOrNull
      <4>3. /\ f \in Linked /\ f.q = st.q /\ f.prev = st.prev
            /\ \A m \in Node : f.next[m] = IF m = y THEN z ELSE st.next[m]
        BY <4>2, NextSetFacts
      <4> QED BY <4>1, <4>3
    <3> QED BY <1>4, <1>5, <2>2, <3>4
  <2> QED BY <2>1, <2>2
<1>11. f.next[n] = st.next[n] /\ f.prev[n] = st.prev[n]
  <2>1. a # 1 => n # s[a - 1] BY <1>1, <1>3
  <2>2. a = 1 => n # s[2] BY <1>1, <1>3
  <2> QED BY <1>3, <1>10, <2>1, <2>2
<1>12. (n = f.q.tail \/ f.next[n] = NULL) <=> a = b
  <2>1. a # b => s[a + 1] # NULL /\ n # s[b] BY <1>1, <1>3
  <2> QED BY <1>5, <1>10, <1>11, <2>1
<1>13. /\ g \in Linked /\ g.q.head = f.q.head /\ g.q.len = st.q.len
       /\ g.q.tail = (IF a = b THEN s[b - 1] ELSE s[b])
       /\ \A m \in Node : g.next[m] = IF a # 1 /\ m = s[a - 1] THEN (IF a = b THEN NULL ELSE s[a + 1]) ELSE st.next[m]
       /\ \A m \in Node : g.prev[m] = IF a # b /\ m = s[a + 1] THEN (IF a = 1 THEN NULL ELSE s[a - 1]) ELSE st.prev[m]
  <2>1. CASE a = b
    <3>1. f.prev[n] = s[b - 1] /\ s[b - 1] # NULL /\ s[b - 1] \in Node BY <1>1, <1>3, <1>5, <1>11, <2>1
    <3>2. g = BackAt(f, s[b - 1])
      BY <1>8, <1>12, <2>1, <3>1, Zenon DEF PullBack, BackAt
    <3> QED BY <1>1, <1>10, <2>1, <3>1, <3>2, BackAtFacts
  <2>2. CASE a # b
    <3>1. f.next[n] = s[a + 1] /\ s[a + 1] \in Node BY <1>1, <1>3, <1>5, <1>11, <2>2
    <3>2. g = PrevSet(f, s[a + 1], f.prev[n]) BY <1>8, <1>12, <2>2, <3>1, Zenon DEF PullBack, PrevSet
    <3>3. f.prev[n] = (IF a = 1 THEN NULL ELSE s[a - 1]) /\ f.prev[n] \in Node \cup {NULL}
      BY <1>1, <1>3, <1>5, <1>11
    <3>4. /\ g \in Linked /\ g.q = f.q /\ g.next = f.next
          /\ \A m \in Node : g.prev[m] = IF m = s[a + 1] THEN f.prev[n] ELSE f.prev[m]
      <4>1. PICK y, z : y = s[a + 1] /\ z = f.prev[n] OBVIOUS
      <4>2. y \in Node /\ z \in NodeOrNull /\ g = PrevSet(f, y, z) /\ f \in Linked
        BY <1>10, <3>1, <3>2, <3>3, <4>1 DEF NodeOrNull
      <4>3. /\ g \in Linked /\ g.q = f.q /\ g.next = f.next
            /\ \A m \in Node : g.prev[m] = IF m = y THEN z ELSE f.prev[m]
        BY <4>2, PrevSetFacts
      <4> QED BY <4>1, <4>3
    <3>5. /\ g.q.head = f.q.head /\ g.q.len = st.q.len /\ g.q.tail = s[b] BY <1>10, <3>4
    <3>6. \A m \in Node : g.next[m] = IF a # 1 /\ m = s[a - 1] THEN (IF a = b THEN NULL ELSE s[a + 1]) ELSE st.next[m]
      BY <1>10, <3>4
    <3>7. \A m \in Node : g.prev[m] = IF m = s[a + 1] THEN (IF a = 1 THEN NULL ELSE s[a - 1]) ELSE st.prev[m]
      BY <1>1, <1>10, <3>3, <3>4
    <3> QED BY <2>2, <3>4, <3>5, <3>6, <3>7
  <2> QED BY <2>1, <2>2
<1>14. g.q.len > 0 BY <1>0, <1>13
<1> QED BY <1>9, <1>10, <1>13, <1>14, ShorterFacts

ClosedUp(t, s, a, b) == \A i \in 1 .. (b - 1) : t[i] = s[Past(a, i)]

\* _queuePull takes the node out of the queue and no other.
LEMMA _queuePullSpans ==
  ASSUME NEW st \in Linked, NEW s, NEW b \in Nat, NEW a \in 1 .. b, NEW u, u = _queuePull(st, s[a]),
         Apart(s, 1, b), Spans(st.q, st.next, st.prev, s, 1, b), st.q.len >= b,
         NEW t, ClosedUp(t, s, a, b)
  PROVE  /\ u \in Linked /\ u.q.len >= b - 1
         /\ Spans(u.q, u.next, u.prev, t, 1, b - 1)
         /\ SameElsewhere(st.next, st.prev, u.next, u.prev, s, 1, b)
<1> USE DEF ClosedUp
<1>0. st.q.len \in Nat BY LinkedFields
<1>1. CASE b = 1
  <2>1. a = 1 /\ st.q.head = s[1] /\ st.next[s[1]] = NULL BY <1>1 DEF Spans
  <2>2. u = Emptied(st) BY <2>1, Zenon DEF _queuePull
  <2>3. 1 > b - 1 /\ 1 .. (b - 1) = {} BY <1>1
  <2>4. Spans(u.q, u.next, u.prev, t, 1, b - 1) BY <2>2, <2>3, EmptiedFacts DEF Spans
  <2> QED BY <1>0, <2>2, <2>4, EmptiedFacts DEF SameElsewhere
<1>2. CASE b > 1
  <2>1. /\ u \in Linked /\ u.q.len = st.q.len - 1
        /\ u.q.head = IF a = 1 THEN s[2] ELSE s[1]
        /\ u.q.tail = IF a = b THEN s[b - 1] ELSE s[b]
        /\ \A m \in Node :
             /\ u.next[m] = IF a # 1 /\ m = s[a - 1] THEN (IF a = b THEN NULL ELSE s[a + 1]) ELSE st.next[m]
             /\ u.prev[m] = IF a # b /\ m = s[a + 1] THEN (IF a = 1 THEN NULL ELSE s[a - 1]) ELSE st.prev[m]
    BY <1>2, _queuePullLinks
  <2>2. u.q.len >= b - 1 BY <1>0, <2>1
  <2>3. SameElsewhere(st.next, st.prev, u.next, u.prev, s, 1, b)
    <3>1. a # 1 => a - 1 \in 1 .. b OBVIOUS
    <3>2. a # b => a + 1 \in 1 .. b OBVIOUS
    <3> QED BY <2>1, <3>1, <3>2 DEF SameElsewhere
  <2>4. /\ Past(a, 1) = IF a = 1 THEN 2 ELSE 1
        /\ Past(a, b - 1) = IF a = b THEN b - 1 ELSE b
        /\ 1 \in 1 .. (b - 1) /\ b - 1 \in 1 .. (b - 1) /\ ~(1 > b - 1)
    BY <1>2 DEF Past
  <2>5. /\ u.q.head = (IF 1 > b - 1 THEN NULL ELSE t[1])
        /\ u.q.tail = (IF 1 > b - 1 THEN NULL ELSE t[b - 1])
    BY <2>1, <2>4
  <2>6. ASSUME NEW i \in 1 .. (b - 1)
        PROVE  /\ u.next[t[i]] = IF i = b - 1 THEN NULL ELSE t[i + 1]
               /\ u.prev[t[i]] = IF i = 1 THEN NULL ELSE t[i - 1]
    <3>1. PICK j : j = Past(a, i) OBVIOUS
    <3>2. /\ j \in 1 .. b /\ j # a /\ t[i] = s[j] /\ s[j] \in Node
      BY <3>1 DEF Past, Apart
    <3>3. /\ st.next[s[j]] = (IF j = b THEN NULL ELSE s[j + 1])
          /\ st.prev[s[j]] = (IF j = 1 THEN NULL ELSE s[j - 1])
      BY <3>2 DEF Spans
    <3>4. /\ a # 1 => (s[j] = s[a - 1] <=> j = a - 1)
          /\ a # b => (s[j] = s[a + 1] <=> j = a + 1)
      BY <3>2 DEF Apart
    <3>5. /\ u.next[s[j]] = (IF a # 1 /\ j = a - 1 THEN (IF a = b THEN NULL ELSE s[a + 1])
                             ELSE IF j = b THEN NULL ELSE s[j + 1])
          /\ u.prev[s[j]] = (IF a # b /\ j = a + 1 THEN (IF a = 1 THEN NULL ELSE s[a - 1])
                             ELSE IF j = 1 THEN NULL ELSE s[j - 1])
      BY <2>1, <3>2, <3>3, <3>4
    <3>6. /\ i # b - 1 => t[i + 1] = s[IF a # 1 /\ j = a - 1 THEN a + 1 ELSE j + 1]
          /\ i = b - 1 <=> (IF a # 1 /\ j = a - 1 THEN a = b ELSE j = b)
      <4>1. i # b - 1 => i + 1 \in 1 .. (b - 1) OBVIOUS
      <4>2. i # b - 1 => Past(a, i + 1) = IF a # 1 /\ j = a - 1 THEN a + 1 ELSE j + 1
        BY <3>1 DEF Past
      <4>3. i = b - 1 <=> (IF a # 1 /\ j = a - 1 THEN a = b ELSE j = b) BY <1>2, <3>1 DEF Past
      <4> QED BY <4>1, <4>2, <4>3
    <3>7. /\ i # 1 => t[i - 1] = s[IF a # b /\ j = a + 1 THEN a - 1 ELSE j - 1]
          /\ i = 1 <=> (IF a # b /\ j = a + 1 THEN a = 1 ELSE j = 1)
      <4>1. i # 1 => i - 1 \in 1 .. (b - 1) OBVIOUS
      <4>2. i # 1 => Past(a, i - 1) = IF a # b /\ j = a + 1 THEN a - 1 ELSE j - 1
        BY <3>1 DEF Past
      <4>3. i = 1 <=> (IF a # b /\ j = a + 1 THEN a = 1 ELSE j = 1) BY <1>2, <3>1 DEF Past
      <4> QED BY <4>1, <4>2, <4>3
    <3>8. u.next[t[i]] = IF i = b - 1 THEN NULL ELSE t[i + 1] BY <3>2, <3>5, <3>6
    <3>9. u.prev[t[i]] = IF i = 1 THEN NULL ELSE t[i - 1] BY <3>2, <3>5, <3>7
    <3> QED BY <3>8, <3>9
  <2> QED BY <2>1, <2>2, <2>3, <2>5, <2>6 DEF Spans
<1> QED BY <1>1, <1>2

(***************************************************************************)
(* The loop of pop_expired.                                                 *)
(***************************************************************************)
\* The links of one stretch of nodes do not matter to a queue of others.
LEMMA OtherKept ==
  ASSUME NEW c, NEW nx, NEW pv, NEW nx1, NEW pv1, NEW t, NEW a \in Int, NEW b \in Int,
         NEW s, NEW e \in Int, NEW f \in Int,
         Spans(c, nx, pv, t, a, b), Apart(t, a, b), SameElsewhere(nx, pv, nx1, pv1, s, e, f),
         \A i \in a .. b, j \in e .. f : t[i] # s[j]
  PROVE  Spans(c, nx1, pv1, t, a, b)
<1>1. \A i \in a .. b : nx1[t[i]] = nx[t[i]] /\ pv1[t[i]] = pv[t[i]] BY DEF SameElsewhere, Apart
<1> QED BY <1>1 DEF Spans

\* After k rounds the first k nodes of s are in the return queue, the others
\* still in the queue.
AtRound(st, s, b, k, p) ==
  /\ p \in [ret : ElementQueue, st : Linked]
  /\ Spans(p.st.q, p.st.next, p.st.prev, s, k + 1, b) /\ p.st.q.len >= b - k
  /\ Spans(p.ret, p.st.next, p.st.prev, s, 1, k) /\ p.ret.len = k
  /\ SameElsewhere(st.next, st.prev, p.st.next, p.st.prev, s, 1, b)

LEMMA PoppingRound ==
  ASSUME NEW st \in Linked, NEW s, NEW b \in Nat, Apart(s, 1, b),
         NEW k \in 0 .. (b - 1), NEW p, AtRound(st, s, b, k, p)
  PROVE  AtRound(st, s, b, k + 1, Popping[p])
<1>0. /\ p \in [ret : ElementQueue, st : Linked] /\ p.st \in Linked /\ p.ret \in ElementQueue
      /\ Spans(p.st.q, p.st.next, p.st.prev, s, k + 1, b) /\ p.st.q.len >= b - k
      /\ Spans(p.ret, p.st.next, p.st.prev, s, 1, k) /\ p.ret.len = k
      /\ SameElsewhere(st.next, st.prev, p.st.next, p.st.prev, s, 1, b)
      /\ p.st.q.len \in Nat
  BY DEF AtRound, Linked, ElementQueue
<1>1. k \in Nat /\ k + 1 <= b /\ k + 1 \in Nat /\ (k + 1) + 1 \in Nat OBVIOUS
<1>2. Apart(s, k + 1, b) /\ Apart(s, 1, k + 1) /\ Apart(s, 1, k) /\ Apart(s, (k + 1) + 1, b)
  BY <1>1 DEF Apart
<1>3. PICK e : e = _queuePop(p.st) OBVIOUS
<1>4. /\ e \in Linked /\ e.q.len = p.st.q.len - 1
      /\ Spans(e.q, e.next, e.prev, s, (k + 1) + 1, b)
      /\ SameElsewhere(p.st.next, p.st.prev, e.next, e.prev, s, k + 1, b)
  <2>1. p.st.q.len >= (b - (k + 1)) + 1 BY <1>0, <1>1
  <2> QED BY <1>0, <1>1, <1>2, <1>3, <2>1, _queuePopSpans
<1>5. p.st.q.head = s[k + 1] BY <1>0, <1>1, <1>2, EndsAreNodes
<1>6. Spans(p.ret, e.next, e.prev, s, 1, k)
  <2>1. \A i \in 1 .. k, j \in (k + 1) .. b : s[i] # s[j]
    <3> SUFFICES ASSUME NEW i \in 1 .. k, NEW j \in (k + 1) .. b PROVE s[i] # s[j] OBVIOUS
    <3>1. i \in 1 .. b /\ j \in 1 .. b /\ i # j BY <1>1
    <3> QED BY <3>1 DEF Apart
  <2> QED BY <1>0, <1>1, <1>2, <1>4, <2>1, OtherKept
<1>7. PICK v : v = Returned(p.ret, e, s[k + 1]) OBVIOUS
<1>8. /\ v \in [ret : ElementQueue, st : Linked] /\ v.ret.len = p.ret.len + 1 /\ v.st.q = e.q
      /\ Spans(v.ret, v.st.next, v.st.prev, s, 1, k + 1)
      /\ SameElsewhere(e.next, e.prev, v.st.next, v.st.prev, s, 1, k + 1)
  BY <1>0, <1>1, <1>2, <1>4, <1>6, <1>7, ReturnedSpans
<1>9. Spans(v.st.q, v.st.next, v.st.prev, s, (k + 1) + 1, b)
  <2>1. \A i \in ((k + 1) + 1) .. b, j \in 1 .. (k + 1) : s[i] # s[j]
    <3> SUFFICES ASSUME NEW i \in ((k + 1) + 1) .. b, NEW j \in 1 .. (k + 1) PROVE s[i] # s[j] OBVIOUS
    <3>1. i \in 1 .. b /\ j \in 1 .. b /\ i # j BY <1>1
    <3> QED BY <3>1 DEF Apart
  <2>2. Spans(e.q, v.st.next, v.st.prev, s, (k + 1) + 1, b)
    BY <1>1, <1>2, <1>4, <1>8, <2>1, OtherKept
  <2> QED BY <1>8, <2>2
<1>10. SameElsewhere(st.next, st.prev, v.st.next, v.st.prev, s, 1, b)
  <2> SUFFICES ASSUME NEW m \in Node, \A i \in 1 .. b : s[i] # m
               PROVE  v.st.next[m] = st.next[m] /\ v.st.prev[m] = st.prev[m]
    BY DEF SameElsewhere
  <2>1. (\A i \in (k + 1) .. b : s[i] # m) /\ (\A i \in 1 .. (k + 1) : s[i] # m) BY <1>1
  <2> QED BY <1>0, <1>4, <1>8, <2>1 DEF SameElsewhere
<1>11. Popping[p] = v BY <1>0, <1>3, <1>5, <1>7, Zenon DEF Popping
<1>12. v.ret.len = k + 1 /\ v.st.q.len >= b - (k + 1) BY <1>0, <1>1, <1>4, <1>8
<1> QED BY <1>8, <1>9, <1>10, <1>11, <1>12 DEF AtRound

LEMMA PoppingRounds ==
  ASSUME NEW st \in Linked, NEW s, NEW b \in Nat, Apart(s, 1, b),
         Spans(st.q, st.next, st.prev, s, 1, b), st.q.len >= b, NEW d \in 0 .. b
  PROVE  AtRound(st, s, b, d, Iterate(Popping, [ret |-> newQueue, st |-> st], d))
<1> DEFINE x == [ret |-> newQueue, st |-> st]
           P == [k \in Nat |-> {p \in [ret : ElementQueue, st : Linked] : AtRound(st, s, b, k, p)}]
<1>1. AtRound(st, s, b, 0, x)
  <2>1. x \in [ret : ElementQueue, st : Linked] BY DEF newQueue, ElementQueue
  <2>2. Spans(x.ret, x.st.next, x.st.prev, s, 1, 0) /\ x.ret.len = 0
    <3>1. 1 > 0 /\ 1 .. 0 = {} OBVIOUS
    <3> QED BY <3>1 DEF Spans, newQueue
  <2>3. st.q.len >= b - 0 /\ 0 + 1 = 1 OBVIOUS
  <2> QED BY <2>1, <2>2, <2>3 DEF AtRound, SameElsewhere
<1>2. x \in P[0] BY <1>1 DEF AtRound
<1>3. \A k \in 0 .. (d - 1) : \A y \in P[k] : Popping[y] \in P[k + 1]
  <2> SUFFICES ASSUME NEW k \in 0 .. (d - 1), NEW y \in P[k] PROVE Popping[y] \in P[k + 1] OBVIOUS
  <2>1. k \in Nat /\ k \in 0 .. (b - 1) /\ k + 1 \in Nat OBVIOUS
  <2>2. AtRound(st, s, b, k, y) BY <2>1
  <2>3. AtRound(st, s, b, k + 1, Popping[y]) BY <2>1, <2>2, PoppingRound
  <2> QED BY <2>1, <2>3 DEF AtRound
<1>4. d \in Nat OBVIOUS
<1> HIDE DEF P, x
<1>5. Iterate(Popping, x, d) \in P[d] BY <1>2, <1>3, <1>4, IteratesThrough
<1> QED BY <1>4, <1>5 DEF P, x

(***************************************************************************)
(* The inductive invariant: both queues hold their sequences, which have no  *)
(* node in common, twice, or with the client's nodes or the free ones.      *)
(***************************************************************************)
Disjoint(s, t) == \A i \in 1 .. Len(s), j \in 1 .. Len(t) : s[i] # t[j]

Fit(c, d, nx, pv, s, t) ==
  /\ c \in ElementQueue /\ d \in ElementQueue /\ nx \in Links /\ pv \in Links
  /\ s \in Seq(Node) /\ t \in Seq(Node)
  /\ Apart(s, 1, Len(s)) /\ Apart(t, 1, Len(t))
  /\ Disjoint(s, t)
  /\ Spans(c, nx, pv, s, 1, Len(s)) /\ c.len >= Len(s)
  /\ Spans(d, nx, pv, t, 1, Len(t)) /\ d.len = Len(t)

LinksInv ==
  /\ Fit(q, r, next, prev, qseq, rseq)
  /\ client \subseteq Node /\ free \subseteq Node
  /\ client \cap free = {}
  /\ (client \cup free) \cap (NodesOf(qseq) \cup NodesOf(rseq)) = {}

\* What is done to the lawn's queue and its nodes does not touch the client's.
LEMMA QSide ==
  ASSUME NEW d, NEW c, NEW nx, NEW pv, NEW s, NEW t, Fit(c, d, nx, pv, s, t),
         NEW u \in Linked, NEW s1 \in Seq(Node), Apart(s1, 1, Len(s1)),
         Spans(u.q, u.next, u.prev, s1, 1, Len(s1)), u.q.len >= Len(s1),
         NEW z \in Seq(Node), SameElsewhere(nx, pv, u.next, u.prev, z, 1, Len(z)),
         Disjoint(z, t), Disjoint(s1, t)
  PROVE  Fit(u.q, d, u.next, u.prev, s1, t)
<1>1. /\ t \in Seq(Node) /\ Len(t) \in Int /\ Apart(t, 1, Len(t)) /\ Spans(d, nx, pv, t, 1, Len(t))
      /\ d \in ElementQueue /\ d.len = Len(t)
  BY DEF Fit
<1>2. Spans(d, u.next, u.prev, t, 1, Len(t))
  <2>1. Len(z) \in Int /\ 1 \in Int BY LenProperties
  <2>2. \A i \in 1 .. Len(t), j \in 1 .. Len(z) : t[i] # z[j] BY DEF Disjoint
  <2> QED BY <1>1, <2>1, <2>2, OtherKept
<1> QED BY <1>1, <1>2, LinkedFields DEF Fit

LEMMA RSide ==
  ASSUME NEW d, NEW c, NEW nx, NEW pv, NEW s, NEW t, Fit(c, d, nx, pv, s, t),
         NEW u \in Linked, NEW t1 \in Seq(Node), Apart(t1, 1, Len(t1)),
         Spans(u.q, u.next, u.prev, t1, 1, Len(t1)), u.q.len = Len(t1),
         NEW z \in Seq(Node), SameElsewhere(nx, pv, u.next, u.prev, z, 1, Len(z)),
         Disjoint(s, z), Disjoint(s, t1)
  PROVE  Fit(c, u.q, u.next, u.prev, s, t1)
<1>1. /\ s \in Seq(Node) /\ Len(s) \in Int /\ Apart(s, 1, Len(s)) /\ Spans(c, nx, pv, s, 1, Len(s))
      /\ c \in ElementQueue /\ c.len >= Len(s)
  BY DEF Fit
<1>2. Spans(c, u.next, u.prev, s, 1, Len(s))
  <2>1. Len(z) \in Int /\ 1 \in Int BY LenProperties
  <2>2. \A i \in 1 .. Len(s), j \in 1 .. Len(z) : s[i] # z[j] BY DEF Disjoint
  <2> QED BY <1>1, <2>1, <2>2, OtherKept
<1> QED BY <1>1, <1>2, LinkedFields DEF Fit

LEMMA InvFacts ==
  ASSUME LinksInv
  PROVE  /\ Fit(q, r, next, prev, qseq, rseq)
         /\ Q \in Linked /\ R \in Linked
         /\ Q.q = q /\ Q.next = next /\ Q.prev = prev
         /\ R.q = r /\ R.next = next /\ R.prev = prev
         /\ q.len \in Nat /\ r.len \in Nat
         /\ qseq \in Seq(Node) /\ rseq \in Seq(Node) /\ Len(qseq) \in Nat /\ Len(rseq) \in Nat
         /\ DOMAIN qseq = 1 .. Len(qseq) /\ DOMAIN rseq = 1 .. Len(rseq)
         /\ \A i \in 1 .. Len(qseq) : qseq[i] \in Node /\ qseq[i] \notin client /\ qseq[i] \notin free
         /\ \A i \in 1 .. Len(rseq) : rseq[i] \in Node /\ rseq[i] \notin client /\ rseq[i] \notin free
         /\ NULL \notin Node
<1>1. /\ Fit(q, r, next, prev, qseq, rseq) /\ qseq \in Seq(Node) /\ rseq \in Seq(Node)
      /\ q \in ElementQueue /\ r \in ElementQueue /\ next \in Links /\ prev \in Links
  BY DEF LinksInv, Fit
<1>2. /\ Len(qseq) \in Nat /\ Len(rseq) \in Nat
      /\ DOMAIN qseq = 1 .. Len(qseq) /\ DOMAIN rseq = 1 .. Len(rseq)
  BY <1>1, LenProperties
<1>3. Q \in Linked /\ R \in Linked /\ q.len \in Nat /\ r.len \in Nat BY <1>1 DEF Linked, Q, R, ElementQueue
<1>4. \A i \in 1 .. Len(qseq) : qseq[i] \in Node /\ qseq[i] \notin client /\ qseq[i] \notin free
  BY <1>1, <1>2 DEF LinksInv, NodesOf, Fit, Apart
<1>5. \A i \in 1 .. Len(rseq) : rseq[i] \in Node /\ rseq[i] \notin client /\ rseq[i] \notin free
  BY <1>1, <1>2 DEF LinksInv, NodesOf, Fit, Apart
<1> QED BY <1>1, <1>2, <1>3, <1>4, <1>5, QueueAssumption DEF Q, R

\* The rest of the invariant after a step.
LEMMA InvFrom ==
  ASSUME Fit(q, r, next, prev, qseq, rseq)', client' \subseteq Node, free' \subseteq Node,
         client' \cap free' = {},
         \A i \in 1 .. Len(qseq') : qseq'[i] \notin client' /\ qseq'[i] \notin free',
         \A i \in 1 .. Len(rseq') : rseq'[i] \notin client' /\ rseq'[i] \notin free'
  PROVE  LinksInv'
<1>1. qseq' \in Seq(Node) /\ rseq' \in Seq(Node) BY DEF Fit
<1>2. DOMAIN qseq' = 1 .. Len(qseq') /\ DOMAIN rseq' = 1 .. Len(rseq') BY <1>1, LenProperties
<1>3. (client' \cup free') \cap (NodesOf(qseq') \cup NodesOf(rseq')) = {} BY <1>2 DEF NodesOf
<1> QED BY <1>3 DEF LinksInv

LEMMA InitIsInv == ASSUME Init PROVE LinksInv
<1>1. q \in ElementQueue /\ r \in ElementQueue /\ next \in Links /\ prev \in Links
  BY DEF Init, newQueue, ElementQueue, Links
<1>2. qseq = <<>> /\ rseq = <<>> /\ Len(<<>>) = 0 /\ <<>> \in Seq(Node) /\ 1 .. 0 = {} /\ 1 > 0
  BY DEF Init
<1>3. Apart(<<>>, 1, 0) BY DEF Apart
<1>4. Spans(q, next, prev, <<>>, 1, 0) /\ q.len = 0 /\ Spans(r, next, prev, <<>>, 1, 0) /\ r.len = 0
  BY <1>2 DEF Init, newQueue, Spans
<1>5. Fit(q, r, next, prev, qseq, rseq) BY <1>1, <1>2, <1>3, <1>4 DEF Fit, Disjoint
<1>6. NodesOf(qseq) = {} /\ NodesOf(rseq) = {} BY <1>2 DEF NodesOf
<1> QED BY <1>5, <1>6 DEF LinksInv, Init

(***************************************************************************)
(* One lemma per action.                                                    *)
(***************************************************************************)
Pushed(s1, s, n) == s1 = Append(s, n)
OneLess(t, s, n) == \A i \in 1 .. Len(t) : t[i] # n /\ \E j \in 1 .. Len(s) : t[i] = s[j]
OneMore(s1, s, n) == \A i \in 1 .. Len(s1) : s1[i] = n \/ \E j \in 1 .. Len(s) : s1[i] = s[j]

\* Pushing node n: it is hung behind the sequence and joins it.
LEMMA PushHalf ==
  ASSUME NEW c, NEW nx, NEW pv, NEW s \in Seq(Node), Apart(s, 1, Len(s)), Spans(c, nx, pv, s, 1, Len(s)),
         NEW n \in Node, Lacks(s, 1, Len(s), n), NEW s1, Pushed(s1, s, n),
         NEW st \in Linked, st.q = c, st.next[n] = NULL, st.prev[n] = NULL,
         ButFor(nx, pv, st.next, st.prev, n), NEW u, u = queuePush(st, n)
  PROVE  /\ u \in Linked /\ u.q.len = c.len + 1
         /\ Spans(u.q, u.next, u.prev, s1, 1, Len(s1))
         /\ SameElsewhere(nx, pv, u.next, u.prev, s1, 1, Len(s1))
         /\ s1 \in Seq(Node) /\ Apart(s1, 1, Len(s1)) /\ Len(s1) = Len(s) + 1 /\ Len(s) \in Nat
         /\ OneMore(s1, s, n)
<1>1. /\ s1 \in Seq(Node) /\ Len(s) \in Nat /\ Len(s1) = Len(s) + 1 /\ s1[Len(s) + 1] = n
      /\ \A i \in 1 .. Len(s) : s1[i] = s[i]
      /\ OneMore(s1, s, n)
      /\ Apart(s1, 1, Len(s) + 1)
  <2>1. /\ s1 \in Seq(Node) /\ Len(s1) = Len(s) + 1 /\ s1[Len(s) + 1] = n
        /\ \A i \in 1 .. Len(s) : s1[i] = s[i]
    BY AppendProperties DEF Pushed
  <2>2. Len(s) \in Nat BY LenProperties
  <2>3. \A i \in 1 .. (Len(s) + 1) : i = Len(s) + 1 \/ i \in 1 .. Len(s) BY <2>2
  <2>4. Apart(s1, 1, Len(s) + 1) BY <2>1, <2>2, <2>3 DEF Apart, Lacks
  <2> QED BY <2>1, <2>2, <2>3, <2>4 DEF OneMore
<1>2. PICK b \in Nat : b = Len(s) BY <1>1
<1>3. Apart(s1, 1, b + 1) /\ s1[b + 1] = n BY <1>1, <1>2
<1>4. Spans(st.q, st.next, st.prev, s1, 1, b)
  <2>1. Spans(c, nx, pv, s, 1, b) BY <1>2
  <2>2. Apart(s, 1, b) /\ Lacks(s, 1, b, n) BY <1>2
  <2>3. Copied(s1, s, 0, b) BY <1>1, <1>2 DEF Copied
  <2>4. Spans(c, st.next, st.prev, s1, 1, b) BY <2>1, <2>2, <2>3, SpansCopied
  <2> QED BY <2>4
<1>5. /\ u \in Linked /\ u.q.len = c.len + 1
      /\ Spans(u.q, u.next, u.prev, s1, 1, b + 1)
      /\ SameElsewhere(st.next, st.prev, u.next, u.prev, s1, 1, b + 1)
  BY <1>3, <1>4, queuePushSpans
<1>6. SameElsewhere(nx, pv, u.next, u.prev, s1, 1, b + 1)
  <2>1. b + 1 \in 1 .. (b + 1) OBVIOUS
  <2> QED BY <1>3, <1>5, <2>1 DEF SameElsewhere, ButFor
<1> QED BY <1>1, <1>2, <1>5, <1>6

\* Pulling the node at position a: the others close up.
LEMMA PullHalf ==
  ASSUME NEW st \in Linked, NEW s \in Seq(Node), Apart(s, 1, Len(s)),
         Spans(st.q, st.next, st.prev, s, 1, Len(s)), st.q.len >= Len(s),
         NEW a \in 1 .. Len(s), NEW u, u = _queuePull(st, s[a]), NEW t, t = TakenOut(s, a)
  PROVE  /\ u \in Linked /\ u.q.len >= Len(t)
         /\ Spans(u.q, u.next, u.prev, t, 1, Len(t))
         /\ SameElsewhere(st.next, st.prev, u.next, u.prev, s, 1, Len(s))
         /\ t \in Seq(Node) /\ Apart(t, 1, Len(t))
         /\ \A i \in 1 .. Len(t) : t[i] # s[a] /\ \E j \in 1 .. Len(s) : t[i] = s[j]
<1>1. PICK b \in Nat : b = Len(s) BY LenProperties
<1>2. /\ t \in Seq(Node) /\ Len(t) = b - 1
      /\ \A i \in 1 .. (b - 1) : Past(a, i) \in 1 .. b /\ Past(a, i) # a /\ t[i] = s[Past(a, i)]
  BY <1>1, SeqTakeOut
<1>3. /\ u \in Linked /\ u.q.len >= b - 1
      /\ Spans(u.q, u.next, u.prev, t, 1, b - 1)
      /\ SameElsewhere(st.next, st.prev, u.next, u.prev, s, 1, b)
  <2>1. /\ a \in 1 .. b /\ Apart(s, 1, b) /\ Spans(st.q, st.next, st.prev, s, 1, b) /\ st.q.len >= b
        /\ ClosedUp(t, s, a, b)
    BY <1>1, <1>2 DEF ClosedUp
  <2> QED BY <2>1, _queuePullSpans
<1>4. \A i \in 1 .. (b - 1) : t[i] \in Node /\ t[i] # s[a] /\ \E j \in 1 .. b : t[i] = s[j]
  BY <1>1, <1>2 DEF Apart
<1>5. Apart(t, 1, b - 1)
  <2>1. \A i, j \in 1 .. (b - 1) : Past(a, i) = Past(a, j) => i = j BY <1>1, PastIsMonotone
  <2>2. \A i, j \in 1 .. (b - 1) : t[i] = t[j] => i = j BY <1>1, <1>2, <2>1 DEF Apart
  <2> QED BY <1>4, <2>2 DEF Apart
<1> QED BY <1>1, <1>2, <1>3, <1>4, <1>5

\* Popping the head.
LEMMA PopHalf ==
  ASSUME NEW st \in Linked, NEW s \in Seq(Node), s # <<>>, Apart(s, 1, Len(s)),
         Spans(st.q, st.next, st.prev, s, 1, Len(s)), st.q.len >= Len(s),
         NEW u, u = _queuePop(st), NEW t, t = Tail(s)
  PROVE  /\ u \in Linked /\ u.q.len = st.q.len - 1
         /\ Spans(u.q, u.next, u.prev, t, 1, Len(t))
         /\ SameElsewhere(st.next, st.prev, u.next, u.prev, s, 1, Len(s))
         /\ t \in Seq(Node) /\ Apart(t, 1, Len(t)) /\ Len(t) = Len(s) - 1 /\ Len(s) \in Nat
         /\ OneLess(t, s, s[1])
         /\ st.q.head = s[1] /\ 1 \in 1 .. Len(s)
<1>1. PICK b \in Nat : b = Len(s) BY LenProperties
<1>2. PICK k \in Nat : b = 1 + k
  <2>1. b # 0 BY <1>1, EmptySeq
  <2>2. b - 1 \in Nat /\ b = 1 + (b - 1) BY <2>1
  <2> QED BY <2>2
<1>3. t \in Seq(Node) /\ Len(t) = k /\ \A i \in 1 .. k : t[i] = s[i + 1]
  <2>1. t \in Seq(Node) /\ Len(t) = Len(s) - 1 /\ \A i \in 1 .. Len(t) : t[i] = s[i + 1]
    BY HeadTailProperties, Zenon
  <2>2. b - 1 = k BY <1>2
  <2> QED BY <1>1, <2>1, <2>2
<1>4. 1 \in Nat /\ 1 <= b /\ Apart(s, 1, b) /\ Spans(st.q, st.next, st.prev, s, 1, b) /\ st.q.len >= (b - 1) + 1
  BY <1>1, <1>2
<1>5. /\ u \in Linked /\ u.q.len = st.q.len - 1
      /\ Spans(u.q, u.next, u.prev, s, 1 + 1, b)
      /\ SameElsewhere(st.next, st.prev, u.next, u.prev, s, 1, b)
  BY <1>4, _queuePopSpans
<1>6. Spans(u.q, u.next, u.prev, t, 1, k)
  <2>1. Spans(u.q, u.next, u.prev, s, 1 + 1, 1 + k) /\ Copied(t, s, 1, k) BY <1>2, <1>3, <1>5 DEF Copied
  <2> QED BY <2>1, SpansShift
<1>7. \A i \in 1 .. k : i + 1 \in 1 .. b /\ i + 1 # 1 BY <1>2
<1>8. 1 \in 1 .. b BY <1>4
<1>9. \A i \in 1 .. k : t[i] \in Node /\ t[i] # s[1] /\ \E j \in 1 .. b : t[i] = s[j]
  BY <1>3, <1>4, <1>7, <1>8 DEF Apart
<1>10. Apart(t, 1, k)
  <2>1. \A i, j \in 1 .. k : i + 1 = j + 1 => i = j OBVIOUS
  <2>2. \A i, j \in 1 .. k : t[i] = t[j] => i = j BY <1>3, <1>4, <1>7, <2>1 DEF Apart
  <2> QED BY <1>9, <2>2 DEF Apart
<1>11. st.q.head = s[1] BY <1>4, EndsAreNodes
<1>12. OneLess(t, s, s[1]) BY <1>1, <1>3, <1>9 DEF OneLess
<1> QED BY <1>1, <1>2, <1>3, <1>5, <1>6, <1>8, <1>10, <1>11, <1>12

LEMMA PushStep == ASSUME LinksInv, NEW n \in Node, Push(n) PROVE LinksInv'
<1>1. n \in free /\ qseq' = Append(qseq, n) /\ free' = free \ {n} /\ UNCHANGED <<r, rseq, client>>
  BY DEF Push
<1>2. PICK st : st = [q |-> q, next |-> [next EXCEPT ![n] = NULL], prev |-> [prev EXCEPT ![n] = NULL]]
  OBVIOUS
<1>3. PICK u : u = queuePush(st, n) OBVIOUS
<1>4. q' = u.q /\ next' = u.next /\ prev' = u.prev BY <1>2, <1>3, Zenon DEF Push
<1>5. PICK s : s = qseq' OBVIOUS
<1>6. /\ Fit(q, r, next, prev, qseq, rseq)
      /\ q \in ElementQueue /\ next \in Links /\ prev \in Links
      /\ qseq \in Seq(Node) /\ Apart(qseq, 1, Len(qseq)) /\ Spans(q, next, prev, qseq, 1, Len(qseq))
      /\ q.len >= Len(qseq) /\ Disjoint(qseq, rseq)
  BY DEF LinksInv, Fit
<1>7. /\ st \in Linked /\ st.q = q /\ st.next[n] = NULL /\ st.prev[n] = NULL
      /\ ButFor(next, prev, st.next, st.prev, n)
  BY <1>2, <1>6 DEF Linked, Links, ButFor
<1>8. Lacks(qseq, 1, Len(qseq), n) BY <1>1, InvFacts DEF Lacks
<1>9. /\ u \in Linked /\ u.q.len = q.len + 1
      /\ Spans(u.q, u.next, u.prev, s, 1, Len(s))
      /\ SameElsewhere(next, prev, u.next, u.prev, s, 1, Len(s))
      /\ s \in Seq(Node) /\ Apart(s, 1, Len(s)) /\ Len(s) = Len(qseq) + 1 /\ Len(qseq) \in Nat
      /\ OneMore(s, qseq, n)
  <2>1. Pushed(s, qseq, n) BY <1>1, <1>5 DEF Pushed
  <2> QED BY <1>3, <1>6, <1>7, <1>8, <2>1, PushHalf
<1>10. u.q.len >= Len(s) BY <1>6, <1>9, InvFacts
<1>11. Disjoint(s, rseq) BY <1>1, <1>6, <1>9, InvFacts DEF Disjoint, OneMore
<1>12. Fit(u.q, r, u.next, u.prev, s, rseq) BY <1>6, <1>9, <1>10, <1>11, QSide
<1>13. Fit(q, r, next, prev, qseq, rseq)' BY <1>1, <1>4, <1>5, <1>12
<1>14. \A i \in 1 .. Len(s) : s[i] \notin client' /\ s[i] \notin free'
  BY <1>1, <1>9, InvFacts DEF LinksInv, OneMore
<1>15. \A i \in 1 .. Len(rseq') : rseq'[i] \notin client' /\ rseq'[i] \notin free' BY <1>1, InvFacts
<1>16. client' \subseteq Node /\ free' \subseteq Node /\ client' \cap free' = {} BY <1>1 DEF LinksInv
<1> QED BY <1>5, <1>13, <1>14, <1>15, <1>16, InvFrom

\* _queuePull of the node at position a, seen from the whole state.
LEMMA PullFit ==
  ASSUME LinksInv, NEW a \in 1 .. Len(qseq), NEW u, u = _queuePull(Q, qseq[a]),
         NEW t, t = TakenOut(qseq, a)
  PROVE  /\ Fit(u.q, r, u.next, u.prev, t, rseq)
         /\ \A i \in 1 .. Len(t) : t[i] # qseq[a] /\ \E j \in 1 .. Len(qseq) : t[i] = qseq[j]
<1>1. /\ Fit(q, r, next, prev, qseq, rseq) /\ Q \in Linked
      /\ qseq \in Seq(Node) /\ Apart(qseq, 1, Len(qseq)) /\ Spans(Q.q, Q.next, Q.prev, qseq, 1, Len(qseq))
      /\ Q.q.len >= Len(qseq) /\ Disjoint(qseq, rseq)
  BY InvFacts DEF Fit
<1>2. /\ u \in Linked /\ u.q.len >= Len(t)
      /\ Spans(u.q, u.next, u.prev, t, 1, Len(t))
      /\ SameElsewhere(Q.next, Q.prev, u.next, u.prev, qseq, 1, Len(qseq))
      /\ t \in Seq(Node) /\ Apart(t, 1, Len(t))
      /\ \A i \in 1 .. Len(t) : t[i] # qseq[a] /\ \E j \in 1 .. Len(qseq) : t[i] = qseq[j]
  BY <1>1, PullHalf
<1>3. SameElsewhere(next, prev, u.next, u.prev, qseq, 1, Len(qseq)) BY <1>2, InvFacts
<1>4. Disjoint(t, rseq) BY <1>1, <1>2 DEF Disjoint
<1>5. Fit(u.q, r, u.next, u.prev, t, rseq) BY <1>1, <1>2, <1>3, <1>4, QSide
<1> QED BY <1>2, <1>5

LEMMA DeleteStep == ASSUME LinksInv, NEW n \in Node, Delete(n) PROVE LinksInv'
<1>1. qseq' = Without(qseq, n) /\ free' = free \cup {n} /\ UNCHANGED <<r, rseq, client>> BY DEF Delete
<1>2. PICK a \in 1 .. Len(qseq) : qseq[a] = n
  <2>1. n \in NodesOf(qseq) BY DEF Delete
  <2> QED BY <2>1, InvFacts DEF NodesOf
<1>3. PICK u : u = _queuePull(Q, n) OBVIOUS
<1>4. q' = u.q /\ next' = u.next /\ prev' = u.prev BY <1>3, Zenon DEF Delete
<1>5. PICK t : t = TakenOut(qseq, a) OBVIOUS
<1>6. qseq' = t
  <2>1. \A i \in 1 .. Len(qseq) : qseq[i] = n => i = a BY <1>2 DEF LinksInv, Fit, Apart
  <2>2. DOMAIN qseq = 1 .. Len(qseq) BY InvFacts
  <2>3. (CHOOSE i \in DOMAIN qseq : qseq[i] = n) = a BY <1>2, <2>1, <2>2
  <2> QED BY <1>1, <1>5, <2>3, Zenon DEF Without, TakenOut
<1>7. /\ Fit(u.q, r, u.next, u.prev, t, rseq)
      /\ \A i \in 1 .. Len(t) : t[i] # n /\ \E j \in 1 .. Len(qseq) : t[i] = qseq[j]
  BY <1>2, <1>3, <1>5, PullFit
<1>8. Fit(q, r, next, prev, qseq, rseq)' BY <1>1, <1>4, <1>6, <1>7
<1>9. \A i \in 1 .. Len(t) : t[i] \notin client' /\ t[i] \notin free' BY <1>1, <1>7, InvFacts
<1>10. \A i \in 1 .. Len(rseq') : rseq'[i] \notin client' /\ rseq'[i] \notin free'
  <2>1. \A i \in 1 .. Len(rseq) : rseq[i] # n BY <1>2 DEF LinksInv, Fit, Disjoint
  <2> QED BY <1>1, <2>1, InvFacts
<1>11. client' \subseteq Node /\ free' \subseteq Node /\ client' \cap free' = {}
  <2>1. n \notin client BY <1>2, InvFacts
  <2> QED BY <1>1, <2>1 DEF LinksInv
<1> QED BY <1>6, <1>8, <1>9, <1>10, <1>11, InvFrom

LEMMA pop_nextStep == ASSUME LinksInv, pop_next PROVE LinksInv'
<1>1. qseq # <<>> /\ qseq' = Tail(qseq) /\ client' = client \cup {q.head} /\ UNCHANGED <<r, rseq, free>>
  BY DEF pop_next
<1>2. 1 \in 1 .. Len(qseq)
  <2>1. qseq \in Seq(Node) /\ Len(qseq) \in Nat BY InvFacts
  <2>2. Len(qseq) # 0 BY <1>1, <2>1, EmptySeq
  <2> QED BY <2>1, <2>2
<1>3. q.head = qseq[1]
  <2>1. Spans(q, next, prev, qseq, 1, Len(qseq)) BY DEF LinksInv, Fit
  <2>2. ~(1 > Len(qseq)) BY <1>2
  <2> QED BY <2>1, <2>2 DEF Spans
<1>4. PICK u : u = _queuePull(Q, q.head) OBVIOUS
<1>5. q' = u.q /\ next' = u.next /\ prev' = u.prev BY <1>4, Zenon DEF pop_next
<1>6. PICK t : t = TakenOut(qseq, 1) OBVIOUS
<1>7. qseq' = t
  <2>1. qseq \in Seq(Node) BY InvFacts
  <2>2. /\ t \in Seq(Node) /\ Len(t) = Len(qseq) - 1
        /\ \A i \in 1 .. (Len(qseq) - 1) : t[i] = qseq[Past(1, i)]
    BY <1>2, <1>6, <2>1, SeqTakeOut
  <2>3. /\ Tail(qseq) \in Seq(Node) /\ Len(Tail(qseq)) = Len(qseq) - 1
        /\ \A i \in 1 .. Len(Tail(qseq)) : Tail(qseq)[i] = qseq[i + 1]
    BY <1>1, <2>1, HeadTailProperties, Zenon
  <2>4. \A i \in 1 .. (Len(qseq) - 1) : Past(1, i) = i + 1 BY DEF Past
  <2>5. \A i \in 1 .. Len(t) : t[i] = Tail(qseq)[i] BY <2>2, <2>3, <2>4
  <2>6. t = Tail(qseq) BY <2>2, <2>3, <2>5, SeqEqual
  <2> QED BY <1>1, <2>6
<1>8. /\ Fit(u.q, r, u.next, u.prev, t, rseq)
      /\ \A i \in 1 .. Len(t) : t[i] # q.head /\ \E j \in 1 .. Len(qseq) : t[i] = qseq[j]
  BY <1>2, <1>3, <1>4, <1>6, PullFit
<1>9. Fit(q, r, next, prev, qseq, rseq)' BY <1>1, <1>5, <1>7, <1>8
<1>10. \A i \in 1 .. Len(t) : t[i] \notin client' /\ t[i] \notin free' BY <1>1, <1>8, InvFacts
<1>11. \A i \in 1 .. Len(rseq') : rseq'[i] \notin client' /\ rseq'[i] \notin free'
  <2>1. \A i \in 1 .. Len(rseq) : rseq[i] # q.head BY <1>2, <1>3 DEF LinksInv, Fit, Disjoint
  <2> QED BY <1>1, <2>1, InvFacts
<1>12. client' \subseteq Node /\ free' \subseteq Node /\ client' \cap free' = {}
  <2>1. q.head \in Node /\ q.head \notin free BY <1>2, <1>3, InvFacts
  <2> QED BY <1>1, <2>1 DEF LinksInv
<1> QED BY <1>7, <1>9, <1>10, <1>11, <1>12, InvFrom

LEMMA queuePopStep == ASSUME LinksInv, queuePop PROVE LinksInv'
<1>1. r.head # NULL /\ rseq' = Tail(rseq) /\ client' = client \cup {r.head} /\ UNCHANGED <<q, qseq, free>>
  BY DEF queuePop
<1>2. PICK u : u = _queuePop(R) OBVIOUS
<1>3. r' = u.q /\ next' = u.next /\ prev' = u.prev BY <1>2, Zenon DEF queuePop
<1>4. PICK t : t = Tail(rseq) OBVIOUS
<1>5. /\ Fit(q, r, next, prev, qseq, rseq) /\ R \in Linked
      /\ rseq \in Seq(Node) /\ Apart(rseq, 1, Len(rseq)) /\ Spans(R.q, R.next, R.prev, rseq, 1, Len(rseq))
      /\ R.q.len = Len(rseq) /\ R.q.len >= Len(rseq) /\ Disjoint(qseq, rseq) /\ R.q = r
  BY InvFacts DEF Fit
<1>6. rseq # <<>>
  <2>1. rseq = <<>> => 1 > Len(rseq) OBVIOUS
  <2> QED BY <1>1, <1>5, <2>1 DEF Spans
<1>7. /\ u \in Linked /\ u.q.len = R.q.len - 1
      /\ Spans(u.q, u.next, u.prev, t, 1, Len(t))
      /\ SameElsewhere(R.next, R.prev, u.next, u.prev, rseq, 1, Len(rseq))
      /\ t \in Seq(Node) /\ Apart(t, 1, Len(t)) /\ Len(t) = Len(rseq) - 1 /\ Len(rseq) \in Nat
      /\ OneLess(t, rseq, rseq[1])
      /\ R.q.head = rseq[1] /\ 1 \in 1 .. Len(rseq)
  BY <1>2, <1>4, <1>5, <1>6, PopHalf
<1>8. SameElsewhere(next, prev, u.next, u.prev, rseq, 1, Len(rseq)) BY <1>7, InvFacts
<1>9. Disjoint(qseq, t) BY <1>5, <1>7 DEF Disjoint, OneLess
<1>10. u.q.len = Len(t) BY <1>5, <1>7
<1>11. Fit(q, u.q, u.next, u.prev, qseq, t) BY <1>5, <1>7, <1>8, <1>9, <1>10, RSide
<1>12. Fit(q, r, next, prev, qseq, rseq)' BY <1>1, <1>3, <1>4, <1>11
<1>13. r.head = rseq[1] BY <1>5, <1>7
<1>14. \A i \in 1 .. Len(t) : t[i] \notin client' /\ t[i] \notin free' 
  BY <1>1, <1>7, <1>13, InvFacts DEF OneLess
<1>15. \A i \in 1 .. Len(qseq') : qseq'[i] \notin client' /\ qseq'[i] \notin free'
  <2>1. \A i \in 1 .. Len(qseq) : qseq[i] # r.head BY <1>5, <1>7, <1>13 DEF Disjoint
  <2> QED BY <1>1, <2>1, InvFacts
<1>16. client' \subseteq Node /\ free' \subseteq Node /\ client' \cap free' = {}
  <2>1. r.head \in Node /\ r.head \notin free BY <1>7, <1>13, InvFacts
  <2> QED BY <1>1, <2>1 DEF LinksInv
<1> QED BY <1>1, <1>4, <1>12, <1>14, <1>15, <1>16, InvFrom

LEMMA ClientPushStep ==
  ASSUME LinksInv, NEW n \in Node, next[n] = NULL, prev[n] = NULL, ClientPush(n) PROVE LinksInv'
<1>1. n \in client /\ rseq' = Append(rseq, n) /\ client' = client \ {n} /\ UNCHANGED <<q, qseq, free>>
  BY DEF ClientPush
<1>2. PICK st : st = R OBVIOUS
<1>3. PICK u : u = queuePush(st, n) OBVIOUS
<1>4. r' = u.q /\ next' = u.next /\ prev' = u.prev BY <1>2, <1>3, Zenon DEF ClientPush
<1>5. PICK t : t = rseq' OBVIOUS
<1>6. /\ Fit(q, r, next, prev, qseq, rseq)
      /\ rseq \in Seq(Node) /\ Apart(rseq, 1, Len(rseq)) /\ Spans(r, next, prev, rseq, 1, Len(rseq))
      /\ r.len = Len(rseq) /\ Disjoint(qseq, rseq)
  BY DEF LinksInv, Fit
<1>7. /\ st \in Linked /\ st.q = r /\ st.next[n] = NULL /\ st.prev[n] = NULL
      /\ ButFor(next, prev, st.next, st.prev, n)
  BY <1>2, InvFacts DEF ButFor
<1>8. Lacks(rseq, 1, Len(rseq), n) BY <1>1, InvFacts DEF Lacks
<1>9. /\ u \in Linked /\ u.q.len = r.len + 1
      /\ Spans(u.q, u.next, u.prev, t, 1, Len(t))
      /\ SameElsewhere(next, prev, u.next, u.prev, t, 1, Len(t))
      /\ t \in Seq(Node) /\ Apart(t, 1, Len(t)) /\ Len(t) = Len(rseq) + 1 /\ Len(rseq) \in Nat
      /\ OneMore(t, rseq, n)
  <2>1. Pushed(t, rseq, n) BY <1>1, <1>5 DEF Pushed
  <2> QED BY <1>3, <1>6, <1>7, <1>8, <2>1, PushHalf
<1>10. u.q.len = Len(t) BY <1>6, <1>9
<1>11. Disjoint(qseq, t) BY <1>1, <1>6, <1>9, InvFacts DEF Disjoint, OneMore
<1>12. Fit(q, u.q, u.next, u.prev, qseq, t) BY <1>6, <1>9, <1>10, <1>11, RSide
<1>13. Fit(q, r, next, prev, qseq, rseq)' BY <1>1, <1>4, <1>5, <1>12
<1>14. \A i \in 1 .. Len(t) : t[i] \notin client' /\ t[i] \notin free'
  BY <1>1, <1>9, InvFacts DEF LinksInv, OneMore
<1>15. \A i \in 1 .. Len(qseq') : qseq'[i] \notin client' /\ qseq'[i] \notin free' BY <1>1, InvFacts
<1>16. client' \subseteq Node /\ free' \subseteq Node /\ client' \cap free' = {} BY <1>1 DEF LinksInv
<1> QED BY <1>5, <1>13, <1>14, <1>15, <1>16, InvFrom

LEMMA ClientNewNodeStep == ASSUME LinksInv, NEW n \in Node, ClientNewNode(n) PROVE LinksInv'
<1>1. n \in free /\ client' = client \cup {n} /\ free' = free \ {n} /\ UNCHANGED <<q, r, qseq, rseq>>
  BY DEF ClientNewNode
<1>2. PICK st : st = [q |-> q, next |-> [next EXCEPT ![n] = NULL], prev |-> [prev EXCEPT ![n] = NULL]]
  OBVIOUS
<1>3. next' = st.next /\ prev' = st.prev BY <1>2 DEF ClientNewNode
<1>4. Fit(q, r, next, prev, qseq, rseq) BY InvFacts
<1>5. st.next \in Links /\ st.prev \in Links /\ ButFor(next, prev, st.next, st.prev, n)
  BY <1>2, <1>4 DEF Links, ButFor, Fit
<1>6. Len(qseq) \in Nat /\ Lacks(qseq, 1, Len(qseq), n) /\ Copied(qseq, qseq, 0, Len(qseq))
  BY <1>1, InvFacts DEF Lacks, Copied
<1>7. Len(rseq) \in Nat /\ Lacks(rseq, 1, Len(rseq), n) /\ Copied(rseq, rseq, 0, Len(rseq))
  BY <1>1, InvFacts DEF Lacks, Copied
<1>8. Spans(q, next, prev, qseq, 1, Len(qseq)) /\ Apart(qseq, 1, Len(qseq)) BY <1>4 DEF Fit
<1>9. Spans(r, next, prev, rseq, 1, Len(rseq)) /\ Apart(rseq, 1, Len(rseq)) BY <1>4 DEF Fit
<1>10. Spans(q, st.next, st.prev, qseq, 1, Len(qseq)) BY <1>5, <1>6, <1>8, SpansCopied
<1>11. Spans(r, st.next, st.prev, rseq, 1, Len(rseq)) BY <1>5, <1>7, <1>9, SpansCopied
<1>12. Fit(q, r, st.next, st.prev, qseq, rseq) BY <1>4, <1>5, <1>10, <1>11 DEF Fit
<1>13. Fit(q, r, next, prev, qseq, rseq)' BY <1>1, <1>3, <1>12
<1>14. \A i \in 1 .. Len(qseq') : qseq'[i] \notin client' /\ qseq'[i] \notin free' BY <1>1, InvFacts
<1>15. \A i \in 1 .. Len(rseq') : rseq'[i] \notin client' /\ rseq'[i] \notin free' BY <1>1, InvFacts
<1>16. client' \subseteq Node /\ free' \subseteq Node /\ client' \cap free' = {} BY <1>1 DEF LinksInv
<1> QED BY <1>13, <1>14, <1>15, <1>16, InvFrom

LEMMA freeNodeStep == ASSUME LinksInv, NEW n \in Node, freeNode(n) PROVE LinksInv'
BY DEF LinksInv, freeNode

LEMMA pop_expiredStep ==
  ASSUME LinksInv, NEW d \in 0 .. Len(qseq), pop_expired(d) PROVE LinksInv'
<1>1. /\ rseq = <<>> /\ qseq' = SubSeq(qseq, d + 1, Len(qseq)) /\ rseq' = SubSeq(qseq, 1, d)
      /\ UNCHANGED <<client, free>>
  BY DEF pop_expired
<1>2. PICK p : p = PoppedUpTo(d) OBVIOUS
<1>3. q' = p.st.q /\ r' = p.ret /\ next' = p.st.next /\ prev' = p.st.prev
  BY <1>2, Zenon DEF pop_expired
<1>4. PICK b \in Nat : b = Len(qseq) BY InvFacts
<1>5. PICK k \in Nat : b = d + k
  <2>1. b - d \in Nat /\ b = d + (b - d) BY <1>4
  <2> QED BY <2>1
<1>6. d \in Nat /\ d \in 0 .. b BY <1>4
<1>7. /\ qseq \in Seq(Node) /\ Apart(qseq, 1, b) /\ Q \in Linked
      /\ Spans(Q.q, Q.next, Q.prev, qseq, 1, b) /\ Q.q.len >= b
  BY <1>4, InvFacts DEF Fit
<1>8. AtRound(Q, qseq, b, d, p)
  <2>1. AtRound(Q, qseq, b, d, Iterate(Popping, [ret |-> newQueue, st |-> Q], d))
    BY <1>6, <1>7, PoppingRounds
  <2> QED BY <1>2, <2>1, Zenon DEF PoppedUpTo
<1>9. /\ p.st \in Linked /\ p.ret \in ElementQueue
      /\ Spans(p.st.q, p.st.next, p.st.prev, qseq, d + 1, d + k) /\ p.st.q.len >= k
      /\ Spans(p.ret, p.st.next, p.st.prev, qseq, 0 + 1, 0 + d) /\ p.ret.len = d
  <2>1. b - d = k /\ 0 + 1 = 1 /\ 0 + d = d BY <1>5, <1>6
  <2> QED BY <1>5, <1>8, <2>1 DEF AtRound
<1>10. PICK s : s = qseq' OBVIOUS
<1>11. PICK t : t = rseq' OBVIOUS
<1>12. s \in Seq(Node) /\ Len(s) = k /\ \A i \in 1 .. k : i + d \in 1 .. b /\ s[i] = qseq[i + d]
  <2>1. b - d = k BY <1>5, <1>6
  <2>2. /\ s \in Seq(Node) /\ Len(s) = Len(qseq) - d
        /\ \A i \in 1 .. (Len(qseq) - d) : i + d \in 1 .. Len(qseq) /\ s[i] = qseq[i + d]
    BY <1>1, <1>7, <1>10, SeqDrop
  <2> QED BY <1>4, <2>1, <2>2
<1>13. t \in Seq(Node) /\ Len(t) = d /\ \A i \in 1 .. d : i \in 1 .. b /\ t[i] = qseq[i]
  <2>1. /\ 1 \in Int /\ d \in Int /\ (\A i \in 1 .. d : qseq[i] \in Node) BY <1>6, <1>7 DEF Apart
  <2>2. /\ t \in Seq(Node) /\ Len(t) = IF 1 <= d THEN d - 1 + 1 ELSE 0
        /\ \A i \in 1 .. d - 1 + 1 : t[i] = qseq[1 + i - 1]
    BY <1>1, <1>11, <2>1, SubSeqProperties
  <2>3. d - 1 + 1 = d /\ \A i \in 1 .. d : 1 + i - 1 = i BY <1>6
  <2>4. Len(t) = d BY <1>6, <2>2, <2>3
  <2> QED BY <1>6, <2>2, <2>3, <2>4
<1>14. Copied(s, qseq, d, k) /\ Copied(t, qseq, 0, d)
  <2>1. \A i \in 1 .. d : i + 0 = i BY <1>6
  <2>2. Copied(s, qseq, d, k) BY <1>12 DEF Copied
  <2>3. Copied(t, qseq, 0, d) BY <1>13, <2>1 DEF Copied
  <2> QED BY <2>2, <2>3
<1>15. Spans(p.st.q, p.st.next, p.st.prev, s, 1, k) BY <1>6, <1>9, <1>14, SpansShift
<1>16. Spans(p.ret, p.st.next, p.st.prev, t, 1, d) BY <1>6, <1>9, <1>14, SpansShift
<1>17. Apart(s, 1, k)
  <2>1. \A i, j \in 1 .. k : i + d = j + d => i = j BY <1>6
  <2> QED BY <1>7, <1>12, <2>1 DEF Apart
<1>18. Apart(t, 1, d) BY <1>7, <1>13 DEF Apart
<1>19. Disjoint(s, t)
  <2>1. \A i \in 1 .. k, j \in 1 .. d : i + d # j BY <1>6
  <2> QED BY <1>7, <1>12, <1>13, <2>1 DEF Disjoint, Apart
<1>20. Fit(p.st.q, p.ret, p.st.next, p.st.prev, s, t)
  BY <1>9, <1>12, <1>13, <1>15, <1>16, <1>17, <1>18, <1>19, LinkedFields DEF Fit
<1>21. Fit(q, r, next, prev, qseq, rseq)' BY <1>3, <1>10, <1>11, <1>20
<1>22. \A i \in 1 .. b : qseq[i] \notin client' /\ qseq[i] \notin free' BY <1>1, <1>4, InvFacts
<1>23. \A i \in 1 .. Len(s) : s[i] \notin client' /\ s[i] \notin free' BY <1>12, <1>22
<1>24. \A i \in 1 .. Len(t) : t[i] \notin client' /\ t[i] \notin free' BY <1>13, <1>22
<1>25. client' \subseteq Node /\ free' \subseteq Node /\ client' \cap free' = {} BY <1>1 DEF LinksInv
<1> QED BY <1>10, <1>11, <1>21, <1>23, <1>24, <1>25, InvFrom

\* freeQueue meets only nodes of the client's queue.
LEMMA ReachedAreListed == ASSUME LinksInv PROVE Reached \subseteq NodesOf(rseq)
<1> DEFINE f == [S \in SUBSET Node |-> S \cup ({next[n] : n \in S} \ {NULL})]
           P == SUBSET NodesOf(rseq)
<1>1. PICK b \in Nat : b = Len(rseq) BY InvFacts
<1>2. /\ Apart(rseq, 1, b) /\ Spans(r, next, prev, rseq, 1, b) BY <1>1, InvFacts DEF Fit
<1>3. NodesOf(rseq) \subseteq Node /\ \A i \in 1 .. b : rseq[i] \in NodesOf(rseq)
  BY <1>1, InvFacts DEF NodesOf
<1>4. ASSUME NEW n \in NodesOf(rseq) PROVE next[n] = NULL \/ next[n] \in NodesOf(rseq)
  <2>1. PICK i \in 1 .. b : n = rseq[i] BY <1>1, InvFacts DEF NodesOf
  <2>2. next[n] = IF i = b THEN NULL ELSE rseq[i + 1] BY <1>2, <2>1 DEF Spans
  <2>3. i # b => i + 1 \in 1 .. b BY <2>1
  <2> QED BY <1>3, <2>2, <2>3
<1>5. {r.head} \ {NULL} \in P
  <2>1. r.head = IF 1 > b THEN NULL ELSE rseq[1] BY <1>2 DEF Spans
  <2>2. ~(1 > b) => 1 \in 1 .. b BY <1>1
  <2> QED BY <1>3, <2>1, <2>2
<1>6. ASSUME NEW y \in P PROVE f[y] \in P
  <2>1. y \in SUBSET Node BY <1>3
  <2>2. f[y] = y \cup ({next[n] : n \in y} \ {NULL}) BY <2>1
  <2> QED BY <1>4, <2>2
<1>7. Cardinality(Node) \in Nat BY QueueAssumption, FS_CardinalityType
<1> HIDE DEF f, P
<1>8. Iterate(f, {r.head} \ {NULL}, Cardinality(Node)) \in P BY <1>5, <1>6, <1>7, Iterates
<1>9. Reached = Iterate(f, {r.head} \ {NULL}, Cardinality(Node)) BY Zenon DEF Reached, f
<1> QED BY <1>8, <1>9 DEF P

LEMMA freeQueueStep == ASSUME LinksInv, freeQueue PROVE LinksInv'
<1>1. free' = free \cup Reached /\ r' = newQueue /\ rseq' = <<>> /\ UNCHANGED <<q, next, prev, qseq, client>>
  BY DEF freeQueue
<1>2. PICK F : F = Reached OBVIOUS
<1>3. F \subseteq NodesOf(rseq) BY <1>2, ReachedAreListed
<1>4. NodesOf(rseq) \subseteq Node /\ NodesOf(rseq) \cap client = {} BY InvFacts DEF NodesOf
<1>5. \A i \in 1 .. Len(qseq) : qseq[i] \notin NodesOf(rseq)
  BY InvFacts DEF Fit, Disjoint, NodesOf
<1>6. Fit(q, newQueue, next, prev, qseq, <<>>)
  <2>1. newQueue \in ElementQueue /\ newQueue.len = 0 /\ newQueue.head = NULL /\ newQueue.tail = NULL
    BY DEF newQueue, ElementQueue
  <2>2. <<>> \in Seq(Node) /\ Len(<<>>) = 0 /\ 1 .. 0 = {} /\ 1 > 0 OBVIOUS
  <2>3. Apart(<<>>, 1, 0) /\ Spans(newQueue, next, prev, <<>>, 1, 0) BY <2>1, <2>2 DEF Apart, Spans
  <2>4. Disjoint(qseq, <<>>) BY <2>2 DEF Disjoint
  <2>5. Fit(q, r, next, prev, qseq, rseq) BY InvFacts
  <2> QED BY <2>1, <2>2, <2>3, <2>4, <2>5 DEF Fit
<1>7. Fit(q, r, next, prev, qseq, rseq)' BY <1>1, <1>6
<1>8. \A i \in 1 .. Len(qseq') : qseq'[i] \notin client' /\ qseq'[i] \notin free'
  BY <1>1, <1>2, <1>3, <1>5, InvFacts
<1>9. \A i \in 1 .. Len(rseq') : rseq'[i] \notin client' /\ rseq'[i] \notin free'
  <2>1. 1 .. Len(<<>>) = {} OBVIOUS
  <2> QED BY <1>1, <2>1
<1>10. client' \subseteq Node /\ free' \subseteq Node /\ client' \cap free' = {}
  BY <1>1, <1>2, <1>3, <1>4 DEF LinksInv
<1> QED BY <1>7, <1>8, <1>9, <1>10, InvFrom

LEMMA NextKeepsInv == ASSUME LinksInv, [Next]_vars PROVE LinksInv'
<1>1. CASE Next
  BY <1>1, PushStep, DeleteStep, pop_nextStep, pop_expiredStep, queuePopStep, ClientNewNodeStep,
     ClientPushStep, freeQueueStep, freeNodeStep DEF Next
<1>2. CASE UNCHANGED vars BY <1>2 DEF vars, LinksInv, Fit
<1> QED BY <1>1, <1>2

(***************************************************************************)
(* Theorems.                                                                *)
(***************************************************************************)
\* In every reachable state the links of both queues are those of their
\* sequences, whatever mix of pushes, pulls at any place and pops came before.
THEOREM LawnQueueInvariant == Spec => []LinksInv
<1>1. Init => LinksInv BY InitIsInv
<1>2. LinksInv /\ [Next]_vars => LinksInv' BY NextKeepsInv
<1> QED BY <1>1, <1>2, PTL DEF Spec

\* queuePush, _queuePull, _queuePop and pop_expired keep head, tail, next and
\* prev those of the nodes the queues should hold; the len that the early
\* returns of _queuePull leave too high never falls below their number, and
\* that of a returned queue is exact.
THEOREM LawnQueueLinks == Spec => []QueueLinksHold
<1>1. LinksInv => QueueLinksHold
  <2> SUFFICES ASSUME LinksInv PROVE QueueLinksHold OBVIOUS
  <2>1. ASSUME NEW c, NEW s \in Seq(Node), Spans(c, next, prev, s, 1, Len(s)) PROVE Holds(c, s)
    <3>1. Len(s) \in Nat /\ DOMAIN s = 1 .. Len(s) BY LenProperties
    <3>2. (1 > Len(s)) = (s = <<>>) BY <3>1, EmptySeq
    <3> QED BY <2>1, <3>1, <3>2 DEF Spans, Holds
  <2>2. Holds(q, qseq) /\ Holds(r, rseq) BY <2>1 DEF LinksInv, Fit
  <2> QED BY <2>2 DEF LinksInv, Fit, QueueLinksHold
<1> QED BY <1>1, LawnQueueInvariant, PTL

\* No node is freed while it is in a queue of the lawn, in the queue that
\* pop_expired returned, or with the client.
THEOREM LawnQueueFreed == Spec => []FreedNodesAreUnused
<1>1. LinksInv => FreedNodesAreUnused BY DEF LinksInv, FreedNodesAreUnused
<1> QED BY <1>1, LawnQueueInvariant, PTL
===============================================================================
