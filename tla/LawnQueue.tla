------------------------------ MODULE LawnQueue ------------------------------
(***************************************************************************)
(* The linked queues of src/lawn.c, with their head, tail, len and the next  *)
(* and prev of each node.  q is one TTL queue of a lawn, r the queue that    *)
(* pop_expired returned to the client.  qseq and rseq are what the two       *)
(* queues should hold: q what was pushed and neither pulled nor popped, in   *)
(* order.  Module Lawn has these sequences in place of the links.            *)
(***************************************************************************)
EXTENDS Iteration, Sequences, FiniteSets

CONSTANTS
  Node, NULL,
  MaxLen  \* bound on q.len

ASSUME QueueAssumption ==
  /\ IsFiniteSet(Node) /\ NULL \notin Node
  /\ MaxLen \in Nat

VARIABLES
  q, r,        \* ElementQueue structs
  next, prev,  \* links of each node
  qseq, rseq,  \* what q and r should hold
  client,      \* nodes the client holds outside any queue
  free         \* addresses not allocated

vars == <<q, r, next, prev, qseq, rseq, client, free>>

\* A queue, its nodes' links, and the two of them as the functions get them.
ElementQueue == [head : Node \cup {NULL}, tail : Node \cup {NULL}, len : Nat]
Links == [Node -> Node \cup {NULL}]
Linked == [q : ElementQueue, next : Links, prev : Links]

newQueue == [head |-> NULL, tail |-> NULL, len |-> 0]

NodesOf(s) == {s[i] : i \in DOMAIN s}

Without(s, n) ==
  LET at == CHOOSE i \in DOMAIN s : s[i] = n
  IN  [i \in 1 .. (Len(s) - 1) |-> IF i < at THEN s[i] ELSE s[i + 1]]

(***************************************************************************)
(* The queue functions.  st is a record of a queue and the links.           *)
(***************************************************************************)
queuePush(st, n) ==
  LET t == st.q.tail
  IN  [q |-> [head |-> IF t = NULL THEN n ELSE st.q.head, tail |-> n, len |-> st.q.len + 1],
       next |-> IF t = NULL THEN st.next ELSE [st.next EXCEPT ![t] = n],
       prev |-> IF t = NULL THEN st.prev ELSE [st.prev EXCEPT ![n] = t]]

Emptied(st) == [st EXCEPT !.q.head = NULL, !.q.tail = NULL]

\* The two halves of the short circuit in _queuePull.  In the second the
\* links are those the first has left.
PullFront(st, n) ==
  IF n = st.q.head \/ st.prev[n] = NULL
  THEN LET h == st.next[st.q.head] IN [st EXCEPT !.q.head = h, !.prev[h] = NULL]
  ELSE [st EXCEPT !.next[st.prev[n]] = st.next[n]]

PullBack_mutant(st, n) ==
  IF n = st.q.tail \/ st.next[n] = NULL THEN st
  ELSE [st EXCEPT !.prev[st.next[n]] = st.prev[n]]

PullBack(st, n) ==
  IF n = st.q.tail \/ st.next[n] = NULL
  THEN IF st.prev[n] = NULL THEN [st EXCEPT !.q.tail = NULL]
       ELSE [st EXCEPT !.q.tail = st.prev[n], !.next[st.prev[n]] = NULL]
  ELSE [st EXCEPT !.prev[st.next[n]] = st.prev[n]]

\* len is 1, or the head is the only node: the queue is emptied and len is
\* left as it is.
_queuePull(st, n) ==
  IF \/ st.q.len = 1
     \/ /\ n = st.q.head \/ st.prev[n] = NULL
        /\ st.q.head = NULL \/ st.next[st.q.head] = NULL
  THEN Emptied(st)
  ELSE [PullBack(PullFront(st, n), n) EXCEPT !.q.len = @ - 1]

\* The node _queuePop returns is st.q.head, which keeps its links.
_queuePop(st) ==
  LET h == st.next[st.q.head]
      popped == IF st.q.len = 1 \/ h = NULL THEN Emptied(st)
                ELSE [st EXCEPT !.q.head = h, !.prev[h] = NULL]
  IN  [popped EXCEPT !.q.len = @ - 1]

Returned_mutant(ret, st, n) ==
  LET t == ret.tail
  IN  [ret |-> [head |-> IF ret.head = NULL THEN n ELSE ret.head, tail |-> n, len |-> ret.len + 1],
       st |-> IF ret.head = NULL THEN st
              ELSE [st EXCEPT !.prev[n] = t, !.next[t] = n]]

\* pop_expired clears the links of node n and hangs it at the end of its
\* return queue.
Returned(ret, st, n) ==
  LET bare == [st EXCEPT !.next[n] = NULL, !.prev[n] = NULL]
      t == ret.tail
  IN  [ret |-> [head |-> IF ret.head = NULL THEN n ELSE ret.head, tail |-> n, len |-> ret.len + 1],
       st |-> IF ret.head = NULL THEN bare
              ELSE [bare EXCEPT !.prev[n] = t, !.next[t] = n]]

Q == [q |-> q, next |-> next, prev |-> prev]

\* One round of the loop of pop_expired.
Popping ==
  [s \in [ret : ElementQueue, st : Linked] |-> Returned(s.ret, _queuePop(s.st), s.st.q.head)]

\* The loop when the first d nodes of the queue have expired.
PoppedUpTo(d) == Iterate(Popping, [ret |-> newQueue, st |-> Q], d)

R == [q |-> r, next |-> next, prev |-> prev]

-------------------------------------------------------------------------------
Init ==
  /\ q = newQueue /\ r = newQueue
  /\ next = [n \in Node |-> NULL] /\ prev = [n \in Node |-> NULL]
  /\ qseq = <<>> /\ rseq = <<>>
  /\ client = {} /\ free = Node

\* set_element_ttl: a new node, its links NULL, is pushed.
Push(n) ==
  /\ n \in free /\ q.len < MaxLen
  /\ LET s == queuePush([q |-> q, next |-> [next EXCEPT ![n] = NULL],
                         prev |-> [prev EXCEPT ![n] = NULL]], n)
     IN  q' = s.q /\ next' = s.next /\ prev' = s.prev
  /\ qseq' = Append(qseq, n)
  /\ free' = free \ {n}
  /\ UNCHANGED <<r, rseq, client>>

\* _removeNode on any node of the queue: del_element_exp frees the node.
Delete(n) ==
  /\ n \in NodesOf(qseq)
  /\ LET s == _queuePull(Q, n) IN q' = s.q /\ next' = s.next /\ prev' = s.prev
  /\ qseq' = Without(qseq, n)
  /\ free' = free \cup {n}
  /\ UNCHANGED <<r, rseq, client>>

\* pop_next pulls the head and returns it.
pop_next ==
  /\ qseq # <<>>
  /\ LET s == _queuePull(Q, q.head) IN q' = s.q /\ next' = s.next /\ prev' = s.prev
  /\ qseq' = Tail(qseq)
  /\ client' = client \cup {q.head}
  /\ UNCHANGED <<r, rseq, free>>

\* pop_expired with d expired nodes, once the client is done with the last
\* queue it was given.
pop_expired(d) ==
  /\ rseq = <<>>
  /\ LET s == PoppedUpTo(d)
     IN  q' = s.st.q /\ r' = s.ret /\ next' = s.st.next /\ prev' = s.st.prev
  /\ qseq' = SubSeq(qseq, d + 1, Len(qseq))
  /\ rseq' = SubSeq(qseq, 1, d)
  /\ UNCHANGED <<client, free>>

\* The client takes the first node of its queue.
queuePop ==
  /\ r.head # NULL
  /\ LET s == _queuePop(R) IN r' = s.q /\ next' = s.next /\ prev' = s.prev
  /\ rseq' = Tail(rseq)
  /\ client' = client \cup {r.head}
  /\ UNCHANGED <<q, qseq, free>>

\* The client makes a node.
ClientNewNode(n) ==
  /\ n \in free
  /\ next' = [next EXCEPT ![n] = NULL] /\ prev' = [prev EXCEPT ![n] = NULL]
  /\ client' = client \cup {n} /\ free' = free \ {n}
  /\ UNCHANGED <<q, r, qseq, rseq>>

\* The client pushes a node it holds onto its queue.
ClientPush(n) ==
  /\ n \in client
  /\ LET s == queuePush(R, n) IN r' = s.q /\ next' = s.next /\ prev' = s.prev
  /\ rseq' = Append(rseq, n)
  /\ client' = client \ {n}
  /\ UNCHANGED <<q, qseq, free>>

\* The nodes freeQueue reaches from the head of r.
Reached ==
  Iterate([S \in SUBSET Node |-> S \cup ({next[n] : n \in S} \ {NULL})],
          {r.head} \ {NULL}, Cardinality(Node))

freeQueue ==
  /\ free' = free \cup Reached
  /\ r' = newQueue /\ rseq' = <<>>
  /\ UNCHANGED <<q, next, prev, qseq, client>>

freeNode(n) ==
  /\ n \in client
  /\ client' = client \ {n}
  /\ free' = free \cup {n}
  /\ UNCHANGED <<q, r, next, prev, qseq, rseq>>

\* queuePush does not clear the next of the node it is given, and a node from
\* pop_next or queuePop keeps its links.  The client pushes only nodes with
\* clear links, as NewNode makes them.
Next ==
  \/ \E n \in Node : Push(n)
  \/ \E n \in Node : Delete(n)
  \/ pop_next
  \/ \E d \in 0 .. Len(qseq) : pop_expired(d)
  \/ queuePop
  \/ \E n \in Node : ClientNewNode(n)
  \/ \E n \in Node : next[n] = NULL /\ prev[n] = NULL /\ ClientPush(n)
  \/ freeQueue
  \/ \E n \in Node : freeNode(n)

Spec == Init /\ [][Next]_vars

(***************************************************************************)
(* Properties.                                                              *)
(***************************************************************************)
\* Queue c holds the sequence s: reading along next gives s and stops at the
\* tail, and prev is the way back.
Holds(c, s) ==
  /\ c.head = IF s = <<>> THEN NULL ELSE s[1]
  /\ c.tail = IF s = <<>> THEN NULL ELSE s[Len(s)]
  /\ \A i \in DOMAIN s :
       /\ next[s[i]] = IF i = Len(s) THEN NULL ELSE s[i + 1]
       /\ prev[s[i]] = IF i = 1 THEN NULL ELSE s[i - 1]

\* Whatever mix of pushes, deletions at any place and pops, the links of a
\* lawn's queue are those of the nodes it should hold, in push order, even
\* after the early returns of _queuePull have left len too high; len never
\* falls below the number of nodes, so its test against 1 drops none.  The
\* queue pop_expired hands over is well linked too and its len exact: the
\* client can pop it to the end.
QueueLinksHold ==
  /\ Holds(q, qseq) /\ q.len >= Len(qseq)
  /\ Holds(r, rseq) /\ r.len = Len(rseq)

\* No node is freed while the lawn or the client still has it.
FreedNodesAreUnused ==
  free \cap (NodesOf(qseq) \cup NodesOf(rseq) \cup client) = {}
===============================================================================
