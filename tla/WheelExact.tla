----------------------------- MODULE WheelExact ------------------------------
(***************************************************************************)
(* src/benchmarks/c/impl/wheel_exact.c: a hierarchy of wheels.  A timer is   *)
(* placed at the level its distance belongs to and moved down when the clock *)
(* reaches the first tick of its slot.  s is a struct cts_store.  TTLs are   *)
(* below LVL_SIZE ^ NUM_LEVELS (2^48 in the code).  The growth of the id     *)
(* arrays is left out.                                                      *)
(***************************************************************************)
EXTENDS Integers, Sequences, SequencesExt

CONSTANTS Id, LVL_BITS, NUM_LEVELS

LVL_SIZE == 2 ^ LVL_BITS
LVL_GRAN(n) == 2 ^ (LVL_BITS * n)
Levels == 0 .. NUM_LEVELS - 1

we_create ==
  [now |-> 0, levels |-> [l \in Levels |-> [i \in 0 .. LVL_SIZE - 1 |-> <<>>]],
   id_expire |-> [id \in Id |-> 0], id_lvl |-> [id \in Id |-> -1],
   id_idx |-> [id \in Id |-> 0], id_pos |-> [id \in Id |-> 0], live |-> 0, fired |-> 0]

\* The first level whose span covers delta, or the last one.
LevelOf(delta) ==
  CHOOSE l \in Levels : /\ l < NUM_LEVELS - 1 => delta < LVL_GRAN(l + 1)
                        /\ \A k \in 0 .. l - 1 : delta >= LVL_GRAN(k + 1)

place(s, id) ==
  LET expire == s.id_expire[id]
      level == LevelOf(IF expire > s.now THEN expire - s.now ELSE 0)
      idx == (expire \div LVL_GRAN(level)) % LVL_SIZE
  IN  [s EXCEPT !.levels[level][idx] = Append(@, id), !.id_lvl[id] = level,
                !.id_idx[id] = idx, !.id_pos[id] = Len(s.levels[level][idx]) + 1]

we_start(s, id, ttl) ==
  [place([s EXCEPT !.id_expire[id] = s.now + ttl], id) EXCEPT !.live = @ + 1]

\* The last id of the slot takes the place of the one that leaves.
slot_remove_at(s, lvl, idx, pos) ==
  LET ids == s.levels[lvl][idx]
      last == Len(ids)
  IN  [s EXCEPT !.levels[lvl][idx] = SubSeq([ids EXCEPT ![pos] = ids[last]], 1, last - 1),
                !.id_pos[ids[last]] = pos]

we_stop(s, id) ==
  IF s.id_lvl[id] < 0 THEN s
  ELSE [slot_remove_at(s, s.id_lvl[id], s.id_idx[id], s.id_pos[id])
          EXCEPT !.id_lvl[id] = -1, !.live = @ - 1]

\* The slot of level lvl that begins now is emptied from its end and every id
\* placed anew.
Cascade(s, lvl) ==
  LET idx == (s.now \div LVL_GRAN(lvl)) % LVL_SIZE
  IN  FoldLeft(place, [s EXCEPT !.levels[lvl][idx] = <<>>], Reverse(s.levels[lvl][idx]))

Crossed_mutant(now) ==
  SelectSeq(<<1>>, LAMBDA l : now % LVL_GRAN(l) = 0)

\* Levels 1 up to the first whose boundary is not crossed now.
Crossed(now) ==
  SelectSeq([l \in 1 .. NUM_LEVELS - 1 |-> l],
            LAMBDA l : \A k \in 1 .. l : now % LVL_GRAN(k) = 0)

we_tick(s) ==
  LET moved == FoldLeft(Cascade, [s EXCEPT !.now = @ + 1], Crossed(s.now + 1))
      idx == moved.now % LVL_SIZE
      ids == moved.levels[0][idx]
  IN  [moved EXCEPT !.fired = Len(ids), !.levels[0][idx] = <<>>, !.live = @ - Len(ids),
                    !.id_lvl = [id \in Id |-> IF \E j \in DOMAIN ids : ids[j] = id THEN -1 ELSE @[id]]]

we_advance_mutant(s, target) == [s EXCEPT !.now = target]

\* One tick after the other, so that no boundary is missed.
we_advance(s, target) ==
  FoldLeft(LAMBDA t, i : we_tick(t), s, [i \in 1 .. target - s.now |-> i])

we_size(s) == s.live
===============================================================================
