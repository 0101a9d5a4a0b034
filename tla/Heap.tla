--------------------------------- MODULE Heap ---------------------------------
(***************************************************************************)
(* src/benchmarks/c/impl/heap.c: a binary min-heap of timers with an index   *)
(* from ids to places.  s is a struct cts_store; arrays start at 1, and      *)
(* place 0 stands for the -1 of an id that is not in the heap.  The growth   *)
(* of the two arrays is left out.                                           *)
(***************************************************************************)
EXTENDS Naturals, Sequences

CONSTANT Id

heap_create == [heap |-> <<>>, pos |-> [id \in Id |-> 0], now |-> 0, fired |-> 0]

heap_set(s, i, v) == [s EXCEPT !.heap[i] = v, !.pos[v.id] = i]

Swapped(s, i, j) == heap_set(heap_set(s, i, s.heap[j]), j, s.heap[i])

RECURSIVE sift_up(_, _)
sift_up(s, i) ==
  IF i = 1 \/ s.heap[i \div 2].expire <= s.heap[i].expire THEN s
  ELSE sift_up(Swapped(s, i \div 2, i), i \div 2)

\* The place of the least of the timers at i and at its children.
LeastAt(s, i) ==
  LET l == 2 * i
      r == 2 * i + 1
      m == IF l <= Len(s.heap) /\ s.heap[l].expire < s.heap[i].expire THEN l ELSE i
  IN  IF r <= Len(s.heap) /\ s.heap[r].expire < s.heap[m].expire THEN r ELSE m

RECURSIVE sift_down(_, _)
sift_down(s, i) ==
  LET m == LeastAt(s, i) IN IF m = i THEN s ELSE sift_down(Swapped(s, m, i), m)

heap_start(s, id, ttl) ==
  LET i == Len(s.heap) + 1
      v == [expire |-> s.now + ttl, id |-> id]
  IN  sift_up([s EXCEPT !.heap = Append(@, v), !.pos[id] = i], i)

\* The timer at i leaves and the last one takes its place.
FilledFromLast(s, i) ==
  LET last == Len(s.heap)
      cut == [s EXCEPT !.heap = SubSeq(@, 1, last - 1), !.pos[s.heap[i].id] = 0]
  IN  IF i = last THEN cut ELSE heap_set(cut, i, s.heap[last])

heap_stop_mutant(s, id) ==
  LET i == s.pos[id]
  IN  IF i = 0 THEN s
      ELSE LET filled == FilledFromLast(s, i)
           IN  IF i > Len(filled.heap) THEN filled ELSE sift_down(filled, i)

heap_stop(s, id) ==
  LET i == s.pos[id]
  IN  IF i = 0 THEN s
      ELSE LET filled == FilledFromLast(s, i)
           IN  IF i > Len(filled.heap) THEN filled ELSE sift_up(sift_down(filled, i), i)

Due(s) == s.heap # <<>> /\ s.heap[1].expire <= s.now

RECURSIVE FireDue(_)
FireDue(s) ==
  IF ~Due(s) THEN s
  ELSE LET filled == FilledFromLast(s, 1)
           rest == IF filled.heap = <<>> THEN filled ELSE sift_down(filled, 1)
       IN  FireDue([rest EXCEPT !.fired = @ + 1])

heap_tick(s) == FireDue([s EXCEPT !.now = @ + 1, !.fired = 0])

heap_advance(s, target) == [s EXCEPT !.now = target]

heap_size(s) == Len(s.heap)
===============================================================================
