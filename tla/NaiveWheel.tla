----------------------------- MODULE NaiveWheel ------------------------------
(***************************************************************************)
(* src/benchmarks/c/impl/naive.c: one ring of slots, as long as the largest  *)
(* TTL, each slot an array of ids, with an index from ids to slot and place. *)
(* s is a struct cts_store.  The growth of the id arrays is left out.       *)
(***************************************************************************)
EXTENDS Integers, Sequences, SequencesExt

CONSTANTS
  Id,
  MinSlots  \* slots of a new ring (256 in the code)

EmptyRing(n) == [i \in 0 .. n - 1 |-> <<>>]

naive_create ==
  [now |-> 0, num_slots |-> MinSlots, slots |-> EmptyRing(MinSlots),
   id_expire |-> [id \in Id |-> 0], id_slot |-> [id \in Id |-> -1],
   id_pos |-> [id \in Id |-> 0], live |-> 0, fired |-> 0]

place(s, id, expire) ==
  LET idx == expire % s.num_slots
  IN  [s EXCEPT !.slots[idx] = Append(@, id), !.id_expire[id] = expire,
                !.id_slot[id] = idx, !.id_pos[id] = Len(s.slots[idx]) + 1]

grow_ring_mutant(s, ttl) ==
  LET n == 2 * s.num_slots
      ids == FlattenSeq([i \in 1 .. s.num_slots |-> s.slots[i - 1]])
  IN  FoldLeft(LAMBDA t, id : place(t, id, t.id_expire[id]),
               [s EXCEPT !.num_slots = n, !.slots = EmptyRing(n)], ids)

\* The ring is doubled until it is longer than ttl, and every id placed anew.
grow_ring(s, ttl) ==
  LET n == CHOOSE m \in {s.num_slots * 2 ^ k : k \in 1 .. ttl} : m > ttl /\ m \div 2 <= ttl
      ids == FlattenSeq([i \in 1 .. s.num_slots |-> s.slots[i - 1]])
  IN  FoldLeft(LAMBDA t, id : place(t, id, t.id_expire[id]),
               [s EXCEPT !.num_slots = n, !.slots = EmptyRing(n)], ids)

NeedsGrowth(s, ttl) == ttl >= s.num_slots

naive_start(s, id, ttl) ==
  LET grown == IF NeedsGrowth(s, ttl) THEN grow_ring(s, ttl) ELSE s
  IN  [place(grown, id, s.now + ttl) EXCEPT !.live = @ + 1]

slot_remove_at_mutant(s, idx, pos) ==
  LET ids == s.slots[idx]
      last == Len(ids)
  IN  [s EXCEPT !.slots[idx] = SubSeq([ids EXCEPT ![pos] = ids[last]], 1, last - 1)]

\* The last id of the slot takes the place of the one that leaves.
slot_remove_at(s, idx, pos) ==
  LET ids == s.slots[idx]
      last == Len(ids)
  IN  [s EXCEPT !.slots[idx] = SubSeq([ids EXCEPT ![pos] = ids[last]], 1, last - 1),
                !.id_pos[ids[last]] = pos]

naive_stop(s, id) ==
  IF s.id_slot[id] < 0 THEN s
  ELSE [slot_remove_at(s, s.id_slot[id], s.id_pos[id]) EXCEPT !.id_slot[id] = -1, !.live = @ - 1]

\* Whatever is in the slot of the new tick fires.
naive_tick(s) ==
  LET idx == (s.now + 1) % s.num_slots
      ids == s.slots[idx]
  IN  [s EXCEPT !.now = @ + 1, !.fired = Len(ids), !.slots[idx] = <<>>, !.live = @ - Len(ids),
                !.id_slot = [id \in Id |-> IF \E j \in DOMAIN ids : ids[j] = id THEN -1 ELSE @[id]]]

naive_advance(s, target) == [s EXCEPT !.now = target]

naive_size(s) == s.live
===============================================================================
