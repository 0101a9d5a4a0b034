------------------------------ MODULE LinuxProofs -----------------------------
(***************************************************************************)
(* Proofs about LinuxTimer for any number of CPUs, tasks, timers, levels    *)
(* and buckets.  First what each function of LinuxWheel does, under one     *)
(* lock, to the lists and the timers' flags: it keeps Placed, a timer being  *)
(* on one list at most and on the one its flags name.  Then the invariant   *)
(* LinuxInv of the calls, handlers and migrations that interleave between   *)
(* locks, one lemma per action, and what follows from it.  Last the clocks:  *)
(* when the buckets are emptied, the invariant TimeInv, one lemma per        *)
(* action again, and what follows: timers are on time and idle CPUs wake.    *)
(***************************************************************************)
EXTENDS LinuxTimer, SeqLemmas

(***************************************************************************)
(* Levels, buckets and clocks.                                              *)
(***************************************************************************)
\* The sizes of the wheel are positive.
LEMMA Sizes ==
  /\ LVL_SIZE \in Nat \ {0} /\ LVL_DEPTH \in Nat \ {0}
  /\ \A l \in Nat : LVL_GRAN(l) \in Nat \ {0}
  /\ \A l \in Lvls : l \in Nat
<1>1. LVL_SIZE \in Nat \ {0} BY LinuxWheelAssumption, PowerIsPositive DEF LVL_SIZE
<1>2. ASSUME NEW l \in Nat PROVE LVL_GRAN(l) \in Nat \ {0}
  <2>1. l * LVL_CLK_SHIFT \in Nat BY LinuxWheelAssumption
  <2> QED BY <2>1, PowerIsPositive DEF LVL_GRAN
<1> QED BY <1>1, <1>2, LinuxWheelAssumption DEF Lvls

\* A position within a level is a bucket, and tells the level.
LEMMA PositionIsBucket ==
  ASSUME NEW l \in Lvls, NEW r \in 0 .. (LVL_SIZE - 1)
  PROVE  LVL_OFFS(l) + r \in Buckets
<1>1. LVL_SIZE \in Nat \ {0} /\ LVL_DEPTH \in Nat \ {0} /\ l \in 0 .. (LVL_DEPTH - 1)
  BY Sizes DEF Lvls
<1> DEFINE S == LVL_SIZE
           D == LVL_DEPTH
<1>2. l * S <= (D - 1) * S BY <1>1
<1>3. (D - 1) * S = S * D - S BY <1>1
<1>4. l * S + r \in 0 .. (S * D - 1)
  <2>1. l * S \in Nat BY <1>1
  <2>2. S * D \in Nat BY <1>1
  <2> HIDE DEF S, D
  <2> QED BY <1>1, <1>2, <1>3, <2>1, <2>2 DEF S, D
<1> QED BY <1>4 DEF LVL_OFFS, Buckets, WHEEL_SIZE

LEMMA LevelOfPosition ==
  ASSUME NEW l \in Lvls, NEW m \in Lvls, NEW r \in 0 .. (LVL_SIZE - 1), NEW q \in 0 .. (LVL_SIZE - 1),
         LVL_OFFS(l) + r = LVL_OFFS(m) + q
  PROVE  l = m
<1> DEFINE S == LVL_SIZE
<1>1. S \in Nat \ {0} /\ l \in Nat /\ m \in Nat BY Sizes
<1>2. l * S + r = m * S + q BY DEF LVL_OFFS
<1>3. ASSUME NEW i \in Nat, NEW j \in Nat, i < j PROVE i * S + S <= j * S
  <2>1. (i + 1) * S <= j * S BY <1>1, <1>3
  <2>2. (i + 1) * S = i * S + S BY <1>1
  <2> QED BY <2>1, <2>2
<1>4. l * S \in Nat /\ m * S \in Nat BY <1>1
<1>5. ~ (l < m) /\ ~ (m < l)
  <2>1. ~ (l < m)
    <3> SUFFICES ASSUME l < m PROVE FALSE OBVIOUS
    <3>1. l * S + S <= m * S BY <1>1, <1>3
    <3> QED BY <1>1, <1>2, <1>4, <3>1
  <2>2. ~ (m < l)
    <3> SUFFICES ASSUME m < l PROVE FALSE OBVIOUS
    <3>1. m * S + S <= l * S BY <1>1, <1>3
    <3> QED BY <1>1, <1>2, <1>4, <3>1
  <2> QED BY <2>1, <2>2
<1> QED BY <1>1, <1>5

LEMMA calc_indexIsBucket ==
  ASSUME NEW e \in Int, NEW l \in Lvls PROVE calc_index(e, l) \in Buckets
<1>1. LVL_SIZE \in Nat \ {0} /\ LVL_GRAN(l) \in Nat \ {0} BY Sizes
<1>2. (e + LVL_GRAN(l)) \div LVL_GRAN(l) \in Int BY <1>1
<1>3. ((e + LVL_GRAN(l)) \div LVL_GRAN(l)) % LVL_SIZE \in 0 .. (LVL_SIZE - 1) BY <1>1, <1>2
<1> QED BY <1>3, PositionIsBucket DEF calc_index

\* calc_wheel_index stays within the wheel, whatever the expiry and the clock.
LEMMA calc_wheel_indexIsBucket ==
  ASSUME NEW e \in Nat, NEW clk \in Nat PROVE calc_wheel_index(e, clk) \in Buckets
<1> DEFINE reach == {n \in 1 .. LVL_DEPTH - 1 : e - clk < LVL_START(n)}
<1>1. LVL_SIZE \in Nat \ {0} /\ LVL_DEPTH \in Nat \ {0} BY Sizes
<1>2. clk % LVL_SIZE \in Buckets
  <2>1. clk % LVL_SIZE \in 0 .. (LVL_SIZE - 1) /\ 0 \in Lvls BY <1>1 DEF Lvls
  <2>2. LVL_OFFS(0) + (clk % LVL_SIZE) = clk % LVL_SIZE BY <1>1, <2>1 DEF LVL_OFFS
  <2>3. \A r \in 0 .. (LVL_SIZE - 1) : LVL_OFFS(0) + r \in Buckets BY <2>1, PositionIsBucket
  <2> QED BY <2>1, <2>2, <2>3
<1>3. ASSUME reach # {} PROVE calc_index(e, Min(reach) - 1) \in Buckets
  <2>1. reach \subseteq Nat OBVIOUS
  <2>2. Min(reach) \in reach
    <3> HIDE DEF reach
    <3> QED BY <1>3, <2>1, MinIsMember
  <2>3. Min(reach) - 1 \in Lvls BY <1>1, <2>2 DEF Lvls
  <2> QED BY <2>3, calc_indexIsBucket
<1>4. calc_index(IF e >= WHEEL_TIMEOUT_CUTOFF THEN WHEEL_TIMEOUT_MAX ELSE e, LVL_DEPTH - 1) \in Buckets
  <2>1. WHEEL_TIMEOUT_MAX \in Int
    BY <1>1, LinuxWheelAssumption DEF WHEEL_TIMEOUT_MAX, WHEEL_TIMEOUT_CUTOFF, LVL_START, LVL_GRAN
  <2>2. LVL_DEPTH - 1 \in Lvls BY <1>1 DEF Lvls
  <2> QED BY <2>1, <2>2, calc_indexIsBucket
<1> QED BY <1>2, <1>3, <1>4 DEF calc_wheel_index

\* Each level is at one of its own buckets.
LEMMA BucketAtFacts ==
  ASSUME NEW clk \in Nat
  PROVE  /\ \A l \in Lvls : BucketAt(clk, l) \in Buckets
         /\ \A l, m \in Lvls : BucketAt(clk, l) = BucketAt(clk, m) => l = m
<1> DEFINE at(l) == (clk \div LVL_GRAN(l)) % LVL_SIZE
<1>1. ASSUME NEW l \in Lvls PROVE at(l) \in 0 .. (LVL_SIZE - 1)
  <2>1. LVL_SIZE \in Nat \ {0} /\ LVL_GRAN(l) \in Nat \ {0} BY Sizes
  <2>2. clk \div LVL_GRAN(l) \in Int BY <2>1
  <2> QED BY <2>1, <2>2
<1>2. \A l : BucketAt(clk, l) = LVL_OFFS(l) + at(l) BY DEF BucketAt
<1> HIDE DEF at
<1> QED BY <1>1, <1>2, PositionIsBucket, LevelOfPosition

\* The next interrupt of a base is a time.
LEMMA NextInterruptIsNat ==
  ASSUME NEW b \in timer_base PROVE __next_timer_interrupt(b) \in Nat
<1> DEFINE lvlTimes(l) == {(LevelClk(b.clk, l) + pos) * LVL_GRAN(l) :
                             pos \in PendingAhead(b, l, LevelClk(b.clk, l) % LVL_SIZE)}
           times == {b.clk + NEXT_TIMER_MAX_DELTA} \cup UNION {lvlTimes(l) : l \in Lvls}
<1>1. b.clk \in Nat /\ b.pending_map \in SUBSET Buckets BY DEF timer_base
<1>2. Buckets \subseteq Nat BY DEF Buckets
<1>3. ASSUME NEW l \in Lvls, NEW t \in lvlTimes(l) PROVE t \in Nat
  <2>1. l \in Nat /\ LVL_SIZE \in Nat \ {0} /\ LVL_GRAN(l) \in Nat \ {0} /\ LVL_OFFS(l) \in Nat
    BY Sizes DEF LVL_OFFS
  <2> DEFINE C == LevelClk(b.clk, l)
  <2>2. C \in Nat BY <1>1, <2>1 DEF LevelClk
  <2> HIDE DEF C
  <2>3. C % LVL_SIZE \in Nat BY <2>1, <2>2
  <2>4. ASSUME NEW pos \in PendingAhead(b, l, C % LVL_SIZE) PROVE pos \in Nat
    <3>1. PICK i \in b.pending_map : pos = (i - LVL_OFFS(l) + LVL_SIZE - (C % LVL_SIZE)) % LVL_SIZE
      BY DEF PendingAhead
    <3>2. i \in Nat BY <1>1, <1>2
    <3>3. i - LVL_OFFS(l) + LVL_SIZE - (C % LVL_SIZE) \in Int BY <2>1, <2>3, <3>2
    <3> QED BY <2>1, <3>1, <3>3
  <2>5. PICK pos \in PendingAhead(b, l, C % LVL_SIZE) : t = (C + pos) * LVL_GRAN(l)
    BY <1>3 DEF C
  <2> QED BY <2>1, <2>2, <2>4, <2>5
<1>4. times \subseteq Nat
  <2>1. b.clk + NEXT_TIMER_MAX_DELTA \in Nat BY <1>1, LinuxWheelAssumption
  <2> HIDE DEF lvlTimes
  <2> QED BY <1>3, <2>1
<1>5. __next_timer_interrupt(b) = Min(times) BY DEF __next_timer_interrupt
<1>6. times # {} OBVIOUS
<1> HIDE DEF times
<1> QED BY <1>4, <1>5, <1>6, MinIsMember

(***************************************************************************)
(* Where timers are.  Placed(V, free) is what QueuedOnce says of the bases   *)
(* and timers of V, but for the timer free, which a step has taken off its   *)
(* list and not yet put on another.                                         *)
(***************************************************************************)
InVectors(V, x) ==
  \A c \in Cpu, i \in Buckets : x \in ToSet(V.base[c].vectors[i]) =>
    /\ V.timer[x].pending /\ ~V.timer[x].migrating
    /\ V.timer[x].cpu = c /\ V.timer[x].idx = i
    /\ i \in V.base[c].pending_map

InHeads(V, x) ==
  \A c \in Cpu, l \in Lvls : x \in ToSet(V.base[c].heads[l]) =>
    /\ V.timer[x].pending /\ ~V.timer[x].migrating
    /\ V.timer[x].cpu = c
    /\ \A i \in Buckets : x \notin ToSet(V.base[c].vectors[i])
    /\ \A m \in Lvls : x \in ToSet(V.base[c].heads[m]) => m = l

Listed(V, c, x) ==
  \/ \E i \in Buckets : x \in ToSet(V.base[c].vectors[i])
  \/ \E l \in Lvls : x \in ToSet(V.base[c].heads[l])

Once(V) ==
  \A c \in Cpu : /\ \A i \in Buckets : IsInjective(V.base[c].vectors[i])
                 /\ \A l \in Lvls : IsInjective(V.base[c].heads[l])

Placed(V, free) ==
  /\ Once(V)
  /\ \A x \in Timer : InVectors(V, x) /\ InHeads(V, x)
  /\ \A x \in Timer : x # free /\ V.timer[x].pending /\ ~V.timer[x].migrating =>
       Listed(V, V.timer[x].cpu, x)
  /\ free \in Timer => \A c \in Cpu : ~Listed(V, c, free)

\* The same lists, bits and running timers, and the same timers.
SameLists(U, V) ==
  \A c \in Cpu :
    /\ U.base[c].vectors = V.base[c].vectors /\ U.base[c].heads = V.base[c].heads
    /\ U.base[c].pending_map = V.base[c].pending_map
SameRunning(U, V) == \A c \in Cpu : U.base[c].running = V.base[c].running

LEMMA PlacedBySame ==
  ASSUME NEW U, NEW V \in Wheels, NEW f, Placed(V, f), SameLists(U, V), U.timer = V.timer
  PROVE  Placed(U, f)
<1>1. Once(U) BY DEF Placed, SameLists, Once
<1>2. \A x \in Timer : InVectors(U, x) BY DEF Placed, SameLists, InVectors
<1>3. \A x \in Timer : InHeads(U, x) BY DEF Placed, SameLists, InHeads
<1>4. \A c \in Cpu, x \in Timer : Listed(U, c, x) <=> Listed(V, c, x) BY DEF SameLists, Listed
<1>5. ASSUME NEW x \in Timer, x # f, U.timer[x].pending, ~U.timer[x].migrating
      PROVE  Listed(U, U.timer[x].cpu, x)
  <2>1. Listed(V, V.timer[x].cpu, x) BY <1>5 DEF Placed
  <2>2. V.timer[x].cpu \in Cpu BY DEF Wheels, timer_list
  <2> QED BY <1>4, <2>1, <2>2
<1> QED BY <1>1, <1>2, <1>3, <1>4, <1>5 DEF Placed

(***************************************************************************)
(* What the operators of the wheel do to lists and timers.                  *)
(***************************************************************************)
LEMMA WheelFields ==
  ASSUME NEW V \in Wheels
  PROVE  /\ \A c \in Cpu : /\ V.base[c] \in timer_base
                           /\ \A i \in Buckets : V.base[c].vectors[i] \in Seq(Timer)
                           /\ \A l \in Lvls : V.base[c].heads[l] \in Seq(Timer)
                           /\ V.base[c].pending_map \in SUBSET Buckets
                           /\ V.base[c].clk \in Nat /\ V.base[c].next_expiry \in Nat
                           /\ V.base[c].running \in Timer \cup {NoTimer}
         /\ \A x \in Timer : /\ V.timer[x] \in timer_list
                             /\ V.timer[x].cpu \in Cpu /\ V.timer[x].idx \in Buckets
                             /\ V.timer[x].expires \in Nat
                             /\ V.timer[x].migrating \in BOOLEAN /\ V.timer[x].pending \in BOOLEAN
BY DEF Wheels, timer_base, timer_list

\* The clock of a base is forwarded: no list changes.
LEMMA ForwardFacts ==
  ASSUME NEW V \in Wheels, NEW c \in Cpu, NEW j \in Nat, NEW U, U = forward_timer_base(V, c, j)
  PROVE  /\ U \in Wheels /\ SameLists(U, V) /\ SameRunning(U, V)
         /\ U.timer = V.timer
<1>1. V.base[c] \in timer_base BY WheelFields
<1>2. CASE ~V.base[c].must_forward_clk
  BY <1>2 DEF forward_timer_base, SameLists, SameRunning
<1>3. CASE V.base[c].must_forward_clk
  <2> DEFINE b == V.base[c]
             k == IF j - b.clk < 2 THEN b.clk ELSE ForwardTo(b.next_expiry, j)
             b1 == [b EXCEPT !.must_forward_clk = b.is_idle, !.clk = k]
  <2>1. U = [V EXCEPT !.base = [@ EXCEPT ![c] = b1]]
    BY <1>3 DEF forward_timer_base
  <2>2. k \in Nat BY <1>1 DEF timer_base, ForwardTo
  <2> HIDE DEF k
  <2>3. b1 \in timer_base BY <1>1, <2>2 DEF timer_base
  <2>4. /\ b1.vectors = b.vectors /\ b1.heads = b.heads
        /\ b1.pending_map = b.pending_map /\ b1.running = b.running
    BY <1>1 DEF timer_base
  <2> HIDE DEF b1
  <2> QED BY <2>1, <2>3, <2>4 DEF Wheels, SameLists, SameRunning
<1> QED BY <1>2, <1>3

\* A base is replaced.
LEMMA PutBase ==
  ASSUME NEW V \in Wheels, NEW c \in Cpu, NEW b \in timer_base, NEW U, U = [V EXCEPT !.base[c] = b]
  PROVE  /\ U \in Wheels /\ U.timer = V.timer /\ U.kick = V.kick
         /\ \A d \in Cpu : U.base[d] = IF d = c THEN b ELSE V.base[d]
BY DEF Wheels

\* A timer is replaced.
LEMMA PutTimer ==
  ASSUME NEW V \in Wheels, NEW x \in Timer, NEW t \in timer_list, NEW U, U = [V EXCEPT !.timer[x] = t]
  PROVE  /\ U \in Wheels /\ U.base = V.base /\ U.kick = V.kick
         /\ \A y \in Timer : U.timer[y] = IF y = x THEN t ELSE V.timer[y]
BY DEF Wheels

\* Whatever happens to the fields of a timer that is on no list.
LEMMA FreeTimerMayChange ==
  ASSUME NEW V \in Wheels, NEW x \in Timer, NEW U, Placed(V, x), SameLists(U, V),
         \A y \in Timer \ {x} : U.timer[y] = V.timer[y]
  PROVE  Placed(U, x)
<1>0. \A y \in Timer : V.timer[y].cpu \in Cpu BY WheelFields
<1>1. Once(U) BY DEF Placed, SameLists, Once
<1>2. \A c \in Cpu, y \in Timer : Listed(U, c, y) <=> Listed(V, c, y) BY DEF SameLists, Listed
<1>3. \A c \in Cpu : ~Listed(U, c, x) BY <1>2 DEF Placed
<1>4. ASSUME NEW y \in Timer PROVE InVectors(U, y) /\ InHeads(U, y)
  <2>1. CASE y = x BY <1>3, <2>1 DEF Listed, InVectors, InHeads
  <2>2. CASE y # x
    <3>1. InVectors(V, y) /\ InHeads(V, y) /\ U.timer[y] = V.timer[y] BY <2>2 DEF Placed
    <3>2. InVectors(U, y) BY <3>1 DEF InVectors, SameLists
    <3>3. InHeads(U, y) BY <3>1 DEF InHeads, SameLists
    <3> QED BY <3>2, <3>3
  <2> QED BY <2>1, <2>2
<1>5. ASSUME NEW y \in Timer, y # x, U.timer[y].pending, ~U.timer[y].migrating
      PROVE  Listed(U, U.timer[y].cpu, y)
  <2>1. U.timer[y] = V.timer[y] BY <1>5
  <2>2. Listed(V, V.timer[y].cpu, y) BY <1>5, <2>1 DEF Placed
  <2> QED BY <1>0, <1>2, <2>1, <2>2
<1> QED BY <1>1, <1>3, <1>4, <1>5 DEF Placed

\* A timer off every list is where it should be if it is not pending or moving.
LEMMA FreeTimerIsPlaced ==
  ASSUME NEW V \in Wheels, NEW x \in Timer, Placed(V, x), ~V.timer[x].pending \/ V.timer[x].migrating
  PROVE  Placed(V, NoTimer)
BY LinuxWheelAssumption DEF Placed

\* A timer that is not pending, or moving, is on no list.
LEMMA PlacedIsFree ==
  ASSUME NEW V \in Wheels, NEW x \in Timer, Placed(V, NoTimer), ~V.timer[x].pending \/ V.timer[x].migrating
  PROVE  Placed(V, x)
<1>1. \A c \in Cpu : ~Listed(V, c, x) BY DEF Placed, InVectors, InHeads, Listed
<1> QED BY <1>1, LinuxWheelAssumption DEF Placed

\* U is V with timer x put into bucket idx of base c.
Enqueued(U, V, c, x, idx) ==
  /\ \A d \in Cpu, i \in Buckets : U.base[d].vectors[i] =
       IF d = c /\ i = idx THEN <<x>> \o V.base[d].vectors[i] ELSE V.base[d].vectors[i]
  /\ \A d \in Cpu : U.base[d].heads = V.base[d].heads
  /\ \A d \in Cpu : U.base[d].pending_map =
       IF d = c THEN V.base[d].pending_map \cup {idx} ELSE V.base[d].pending_map
  /\ \A y \in Timer \ {x} : U.timer[y] = V.timer[y]
  /\ U.timer[x].cpu = V.timer[x].cpu /\ U.timer[x].migrating = V.timer[x].migrating
  /\ U.timer[x].idx = idx /\ U.timer[x].pending

LEMMA ListedMonotone ==
  ASSUME NEW U, NEW V, NEW c, NEW x, Listed(V, c, x),
         \A i \in Buckets : x \in ToSet(V.base[c].vectors[i]) => x \in ToSet(U.base[c].vectors[i]),
         \A l \in Lvls : x \in ToSet(V.base[c].heads[l]) => x \in ToSet(U.base[c].heads[l])
  PROVE  Listed(U, c, x)
BY DEF Listed

LEMMA EnqueueFacts ==
  ASSUME NEW V \in Wheels, NEW c \in Cpu, NEW x \in Timer, NEW idx \in Buckets,
         NEW U, U = enqueue_timer(V, c, x, idx)
  PROVE  U \in Wheels /\ SameRunning(U, V) /\ Enqueued(U, V, c, x, idx)
<1> DEFINE b == V.base[c]
           q == <<x>> \o b.vectors[idx]
           b1 == [b EXCEPT !.vectors = [@ EXCEPT ![idx] = q], !.pending_map = @ \cup {idx}]
           t1 == [V.timer[x] EXCEPT !.idx = idx, !.pending = TRUE]
<1>1. b \in timer_base /\ V.timer[x] \in timer_list BY WheelFields
<1>2. q \in Seq(Timer)
  <2>1. b.vectors[idx] \in Seq(Timer) BY WheelFields
  <2>2. <<x>> \in Seq(Timer) OBVIOUS
  <2> QED BY <2>1, <2>2, ConcatProperties
<1>3. U = [V EXCEPT !.base = [@ EXCEPT ![c] = b1], !.timer = [@ EXCEPT ![x] = t1]]
  BY DEF enqueue_timer, Wheels
<1> HIDE DEF q
<1>4. b1 \in timer_base /\ t1 \in timer_list BY <1>1, <1>2 DEF timer_base, timer_list
<1>5. /\ b1.heads = b.heads /\ b1.running = b.running
      /\ b1.pending_map = b.pending_map \cup {idx}
      /\ \A i \in Buckets : b1.vectors[i] = IF i = idx THEN q ELSE b.vectors[i]
  BY <1>1, <1>2 DEF timer_base
<1>t. /\ t1.cpu = V.timer[x].cpu /\ t1.migrating = V.timer[x].migrating
      /\ t1.idx = idx /\ t1.pending
  BY <1>1 DEF timer_list
<1> HIDE DEF b1, t1
<1>6. U \in Wheels BY <1>3, <1>4, ZenonT(60) DEF Wheels
<1>7. /\ \A d \in Cpu : U.base[d] = IF d = c THEN b1 ELSE V.base[d]
      /\ \A y \in Timer : U.timer[y] = IF y = x THEN t1 ELSE V.timer[y]
  BY <1>3 DEF Wheels
<1>8. \A d \in Cpu, i \in Buckets : U.base[d].vectors[i] =
        IF d = c /\ i = idx THEN <<x>> \o V.base[d].vectors[i] ELSE V.base[d].vectors[i]
  BY <1>5, <1>7 DEF q
<1> QED BY <1>5, <1>6, <1>7, <1>8, <1>t DEF SameRunning, Enqueued

LEMMA TriggerFacts ==
  ASSUME NEW V \in Wheels, NEW c \in Cpu, NEW x \in Timer, NEW U, U = trigger_dyntick_cpu(V, c, x)
  PROVE  U \in Wheels /\ SameLists(U, V) /\ SameRunning(U, V) /\ U.timer = V.timer
<1>1. CASE ~(V.base[c].is_idle /\ V.timer[x].expires < V.base[c].next_expiry)
  BY <1>1 DEF trigger_dyntick_cpu, SameLists, SameRunning
<1>2. CASE V.base[c].is_idle /\ V.timer[x].expires < V.base[c].next_expiry
  <2> DEFINE b == V.base[c]
             b1 == [b EXCEPT !.next_expiry = V.timer[x].expires]
  <2>1. b \in timer_base /\ V.timer[x].expires \in Nat BY WheelFields
  <2>2. U = [V EXCEPT !.base = [@ EXCEPT ![c] = b1], !.kick = @ \cup {c}]
    BY <1>2 DEF trigger_dyntick_cpu
  <2>3. b1 \in timer_base BY <2>1 DEF timer_base
  <2>4. /\ b1.vectors = b.vectors /\ b1.heads = b.heads
        /\ b1.pending_map = b.pending_map /\ b1.running = b.running
    BY <2>1 DEF timer_base
  <2> HIDE DEF b1
  <2> QED BY <2>2, <2>3, <2>4, ZenonT(60) DEF Wheels, SameLists, SameRunning
<1> QED BY <1>1, <1>2

\* The free timer is queued on the base that its flags name.
QueuedOn(U, V, c, x) ==
  /\ U \in Wheels /\ Placed(U, NoTimer) /\ SameRunning(U, V)
  /\ \A y \in Timer \ {x} : U.timer[y] = V.timer[y]
  /\ U.timer[x].cpu = c /\ ~U.timer[x].migrating

LEMMA AddFacts ==
  ASSUME NEW V \in Wheels, NEW c \in Cpu, NEW x \in Timer, Placed(V, x),
         V.timer[x].cpu = c, ~V.timer[x].migrating,
         NEW U, U = internal_add_timer(V, c, x)
  PROVE  QueuedOn(U, V, c, x)
<1> DEFINE idx == calc_wheel_index(V.timer[x].expires, V.base[c].clk)
           E == enqueue_timer(V, c, x, idx)
<1>1. idx \in Buckets
  <2>1. V.timer[x].expires \in Nat /\ V.base[c].clk \in Nat BY WheelFields
  <2> QED BY <2>1, calc_wheel_indexIsBucket
<1>2. U = trigger_dyntick_cpu(E, c, x) /\ E = enqueue_timer(V, c, x, idx) BY DEF internal_add_timer
<1> HIDE DEF idx, E
<1>3. /\ E \in Wheels /\ SameRunning(E, V)
      /\ \A d \in Cpu, i \in Buckets : E.base[d].vectors[i] =
           IF d = c /\ i = idx THEN <<x>> \o V.base[d].vectors[i] ELSE V.base[d].vectors[i]
      /\ \A d \in Cpu : E.base[d].heads = V.base[d].heads
      /\ \A d \in Cpu : E.base[d].pending_map =
           IF d = c THEN V.base[d].pending_map \cup {idx} ELSE V.base[d].pending_map
      /\ \A y \in Timer \ {x} : E.timer[y] = V.timer[y]
      /\ E.timer[x].cpu = V.timer[x].cpu /\ E.timer[x].migrating = V.timer[x].migrating
      /\ E.timer[x].idx = idx /\ E.timer[x].pending
  <2>1. E \in Wheels /\ SameRunning(E, V) /\ Enqueued(E, V, c, x, idx) BY <1>1, <1>2, EnqueueFacts
  <2> QED BY <2>1 DEF Enqueued
<1>4. U \in Wheels /\ SameLists(U, E) /\ SameRunning(U, E) /\ U.timer = E.timer
  BY <1>2, <1>3, TriggerFacts
<1>5. /\ E.timer[x].cpu = c /\ ~E.timer[x].migrating /\ E.timer[x].pending /\ E.timer[x].idx = idx
      /\ \A y \in Timer \ {x} : E.timer[y] = V.timer[y]
  BY <1>3
<1>6. Placed(E, NoTimer)
  <2>0. \A d \in Cpu : ~Listed(V, d, x) BY DEF Placed
  <2>1. \A d \in Cpu : /\ \A i \in Buckets : x \notin ToSet(V.base[d].vectors[i])
                       /\ \A l \in Lvls : x \notin ToSet(V.base[d].heads[l])
    BY <2>0 DEF Listed
  <2>2. /\ IsInjective(E.base[c].vectors[idx])
        /\ ToSet(E.base[c].vectors[idx]) = ToSet(V.base[c].vectors[idx]) \cup {x}
    <3>1. V.base[c].vectors[idx] \in Seq(Timer) /\ IsInjective(V.base[c].vectors[idx])
      BY <1>1, WheelFields DEF Placed, Once
    <3>2. x \notin ToSet(V.base[c].vectors[idx]) BY <1>1, <2>1
    <3>3. E.base[c].vectors[idx] = <<x>> \o V.base[c].vectors[idx] BY <1>1, <1>3
    <3> QED BY <3>1, <3>2, <3>3, ConsFacts
  <2>3. \A d \in Cpu, i \in Buckets : ~(d = c /\ i = idx) => E.base[d].vectors[i] = V.base[d].vectors[i]
    BY <1>3
  <2>4. \A d \in Cpu, i \in Buckets : ToSet(E.base[d].vectors[i]) =
          IF d = c /\ i = idx THEN ToSet(V.base[d].vectors[i]) \cup {x} ELSE ToSet(V.base[d].vectors[i])
    BY <2>2, <2>3
  <2>5. Once(E) BY <1>3, <2>2, <2>3 DEF Placed, Once
  <2>6. InVectors(E, x)
    <3>1. ASSUME NEW d \in Cpu, NEW i \in Buckets, x \in ToSet(E.base[d].vectors[i]) PROVE d = c /\ i = idx
      BY <2>1, <2>4, <3>1
    <3>2. idx \in E.base[c].pending_map BY <1>3
    <3> QED BY <1>5, <3>1, <3>2 DEF InVectors
  <2>7. InHeads(E, x) BY <1>3, <2>1 DEF InHeads
  <2>8. ASSUME NEW y \in Timer, y # x PROVE InVectors(E, y) /\ InHeads(E, y)
    <3>1. InVectors(V, y) /\ InHeads(V, y) /\ E.timer[y] = V.timer[y] BY <1>5, <2>8 DEF Placed
    <3>2. \A d \in Cpu, i \in Buckets : y \in ToSet(E.base[d].vectors[i]) => y \in ToSet(V.base[d].vectors[i])
      BY <2>4, <2>8
    <3>3. \A d \in Cpu : V.base[d].pending_map \subseteq E.base[d].pending_map BY <1>3
    <3>4. InVectors(E, y) BY <3>1, <3>2, <3>3 DEF InVectors
    <3>5. InHeads(E, y) BY <1>3, <3>1, <3>2 DEF InHeads
    <3> QED BY <3>4, <3>5
  <2>9. ASSUME NEW y \in Timer, E.timer[y].pending, ~E.timer[y].migrating
        PROVE  Listed(E, E.timer[y].cpu, y)
    <3>1. CASE y = x BY <1>1, <1>5, <2>2, <3>1 DEF Listed
    <3>2. CASE y # x
      <4>1. E.timer[y] = V.timer[y] /\ V.timer[y].cpu \in Cpu BY <1>5, <3>2, WheelFields
      <4>2. Listed(V, V.timer[y].cpu, y) BY <2>9, <3>2, <4>1 DEF Placed
      <4>3. \A d \in Cpu, i \in Buckets : ToSet(V.base[d].vectors[i]) \subseteq ToSet(E.base[d].vectors[i])
        BY <2>4
      <4> QED BY <1>3, <4>1, <4>2, <4>3, ListedMonotone
    <3> QED BY <3>1, <3>2
  <2> QED BY <2>5, <2>6, <2>7, <2>8, <2>9, LinuxWheelAssumption DEF Placed
<1>7. Placed(U, NoTimer) BY <1>3, <1>4, <1>6, PlacedBySame
<1> QED BY <1>3, <1>4, <1>5, <1>7 DEF SameRunning, QueuedOn

\* U is V with timer x taken off the lists of base c.
Detached(U, V, c, x) ==
  /\ \A d \in Cpu, i \in Buckets : U.base[d].vectors[i] =
       IF d = c /\ i = V.timer[x].idx THEN RemoveFirst(V.base[d].vectors[i], x) ELSE V.base[d].vectors[i]
  /\ \A d \in Cpu, l \in Lvls : U.base[d].heads[l] =
       IF d = c THEN RemoveFirst(V.base[d].heads[l], x) ELSE V.base[d].heads[l]
  /\ \A d \in Cpu, i \in Buckets :
       i \in V.base[d].pending_map /\ i \notin U.base[d].pending_map => V.base[d].vectors[i] = <<x>>
  /\ \A y \in Timer \ {x} : U.timer[y] = V.timer[y]
  /\ U.timer[x].cpu = V.timer[x].cpu /\ U.timer[x].migrating = V.timer[x].migrating

LEMMA DetachTimerFacts ==
  ASSUME NEW V \in Wheels, NEW c \in Cpu, NEW x \in Timer, NEW clear \in BOOLEAN, Once(V),
         NEW U, U = detach_timer(V, c, x, clear)
  PROVE  /\ U \in Wheels /\ SameRunning(U, V) /\ Detached(U, V, c, x)
         /\ \A d \in Cpu : U.base[d].pending_map = V.base[d].pending_map
         /\ U.timer[x].pending = (V.timer[x].pending /\ ~clear)
<1> DEFINE b == V.base[c]
           idx == V.timer[x].idx
           q == RemoveFirst(b.vectors[idx], x)
           h == [l \in Lvls |-> RemoveFirst(b.heads[l], x)]
           b1 == [b EXCEPT !.vectors = [@ EXCEPT ![idx] = q], !.heads = h]
           t1 == [V.timer[x] EXCEPT !.pending = @ /\ ~clear]
<1>1. b \in timer_base /\ V.timer[x] \in timer_list /\ idx \in Buckets BY WheelFields
<1>2. q \in Seq(Timer)
  <2>1. b.vectors[idx] \in Seq(Timer) /\ IsInjective(b.vectors[idx]) BY <1>1, WheelFields DEF Once
  <2> QED BY <2>1, RemoveFirstFacts
<1>3. h \in [Lvls -> Seq(Timer)]
  <2>1. ASSUME NEW l \in Lvls PROVE RemoveFirst(b.heads[l], x) \in Seq(Timer)
    <3>1. b.heads[l] \in Seq(Timer) /\ IsInjective(b.heads[l]) BY WheelFields DEF Once
    <3> QED BY <3>1, RemoveFirstFacts
  <2> QED BY <2>1
<1>4. U = [V EXCEPT !.base = [@ EXCEPT ![c] = b1], !.timer = [@ EXCEPT ![x] = t1]]
  BY DEF detach_timer, Wheels
<1>5. \A l \in Lvls : h[l] = RemoveFirst(b.heads[l], x) OBVIOUS
<1> HIDE DEF q, h, idx
<1>6. b1 \in timer_base BY <1>1, <1>2, <1>3 DEF timer_base
<1>7. /\ b1.heads = h /\ b1.running = b.running /\ b1.pending_map = b.pending_map
      /\ \A i \in Buckets : b1.vectors[i] = IF i = idx THEN q ELSE b.vectors[i]
  BY <1>1, <1>2 DEF timer_base
<1>8. /\ t1 \in timer_list /\ t1.cpu = V.timer[x].cpu /\ t1.migrating = V.timer[x].migrating
      /\ t1.pending = (V.timer[x].pending /\ ~clear)
  BY <1>1 DEF timer_list
<1> HIDE DEF b1, t1
<1>9. U \in Wheels BY <1>4, <1>6, <1>8, ZenonT(60) DEF Wheels
<1>10. /\ \A d \in Cpu : U.base[d] = IF d = c THEN b1 ELSE V.base[d]
       /\ \A y \in Timer : U.timer[y] = IF y = x THEN t1 ELSE V.timer[y]
  BY <1>4 DEF Wheels
<1>11. \A d \in Cpu, i \in Buckets : U.base[d].vectors[i] =
         IF d = c /\ i = V.timer[x].idx THEN RemoveFirst(V.base[d].vectors[i], x) ELSE V.base[d].vectors[i]
  BY <1>7, <1>10 DEF q, idx
<1>12. \A d \in Cpu, l \in Lvls : U.base[d].heads[l] =
         IF d = c THEN RemoveFirst(V.base[d].heads[l], x) ELSE V.base[d].heads[l]
  BY <1>5, <1>7, <1>10
<1>13. \A d \in Cpu : U.base[d].pending_map = V.base[d].pending_map /\ U.base[d].running = V.base[d].running
  BY <1>7, <1>10
<1>14. Detached(U, V, c, x) BY <1>8, <1>10, <1>11, <1>12, <1>13 DEF Detached
<1> QED BY <1>8, <1>9, <1>10, <1>13, <1>14 DEF SameRunning

\* A timer taken off the base that its flags name is on no list.
LEMMA DetachedIsFree ==
  ASSUME NEW V \in Wheels, NEW x \in Timer, NEW c, c = V.timer[x].cpu, Placed(V, NoTimer),
         NEW U, Detached(U, V, c, x)
  PROVE  Placed(U, x)
<1> DEFINE idx == V.timer[x].idx
<1>0. c \in Cpu /\ idx \in Buckets /\ \A y \in Timer : V.timer[y].cpu \in Cpu BY WheelFields
<1> HIDE DEF idx
<1>1. \A d \in Cpu, i \in Buckets : /\ IsInjective(U.base[d].vectors[i])
                                    /\ \/ ToSet(U.base[d].vectors[i]) = ToSet(V.base[d].vectors[i]) \ {x}
                                       \/ U.base[d].vectors[i] = V.base[d].vectors[i] /\ ~(d = c /\ i = idx)
  <2> SUFFICES ASSUME NEW d \in Cpu, NEW i \in Buckets
               PROVE  /\ IsInjective(U.base[d].vectors[i])
                      /\ \/ ToSet(U.base[d].vectors[i]) = ToSet(V.base[d].vectors[i]) \ {x}
                         \/ U.base[d].vectors[i] = V.base[d].vectors[i] /\ ~(d = c /\ i = idx)
    OBVIOUS
  <2>1. V.base[d].vectors[i] \in Seq(Timer) /\ IsInjective(V.base[d].vectors[i])
    BY WheelFields DEF Placed, Once
  <2>2. CASE d = c /\ i = idx
    <3>1. U.base[d].vectors[i] = RemoveFirst(V.base[d].vectors[i], x) BY <2>2 DEF Detached, idx
    <3> QED BY <2>1, <3>1, RemoveFirstFacts
  <2>3. CASE ~(d = c /\ i = idx)
    <3>1. U.base[d].vectors[i] = V.base[d].vectors[i] BY <2>3 DEF Detached, idx
    <3> QED BY <2>1, <2>3, <3>1
  <2> QED BY <2>2, <2>3
<1>2. \A d \in Cpu, l \in Lvls : /\ IsInjective(U.base[d].heads[l])
                                 /\ \/ ToSet(U.base[d].heads[l]) = ToSet(V.base[d].heads[l]) \ {x}
                                    \/ U.base[d].heads[l] = V.base[d].heads[l] /\ d # c
  <2> SUFFICES ASSUME NEW d \in Cpu, NEW l \in Lvls
               PROVE  /\ IsInjective(U.base[d].heads[l])
                      /\ \/ ToSet(U.base[d].heads[l]) = ToSet(V.base[d].heads[l]) \ {x}
                         \/ U.base[d].heads[l] = V.base[d].heads[l] /\ d # c
    OBVIOUS
  <2>1. V.base[d].heads[l] \in Seq(Timer) /\ IsInjective(V.base[d].heads[l])
    BY WheelFields DEF Placed, Once
  <2>2. CASE d = c
    <3>1. U.base[d].heads[l] = RemoveFirst(V.base[d].heads[l], x) BY <2>2 DEF Detached
    <3> QED BY <2>1, <3>1, RemoveFirstFacts
  <2>3. CASE d # c
    <3>1. U.base[d].heads[l] = V.base[d].heads[l] BY <2>3 DEF Detached
    <3> QED BY <2>1, <2>3, <3>1
  <2> QED BY <2>2, <2>3
<1>3. InVectors(V, x) /\ InHeads(V, x) BY DEF Placed
<1>4. ASSUME NEW d \in Cpu PROVE ~Listed(U, d, x)
  <2>1. \A i \in Buckets : x \notin ToSet(U.base[d].vectors[i])
    <3> SUFFICES ASSUME NEW i \in Buckets, x \in ToSet(U.base[d].vectors[i]) PROVE FALSE OBVIOUS
    <3>1. U.base[d].vectors[i] = V.base[d].vectors[i] /\ ~(d = c /\ i = idx) BY <1>1
    <3> QED BY <1>3, <3>1 DEF InVectors, idx
  <2>2. \A l \in Lvls : x \notin ToSet(U.base[d].heads[l])
    <3> SUFFICES ASSUME NEW l \in Lvls, x \in ToSet(U.base[d].heads[l]) PROVE FALSE OBVIOUS
    <3>1. U.base[d].heads[l] = V.base[d].heads[l] /\ d # c BY <1>2
    <3> QED BY <1>3, <3>1 DEF InHeads
  <2> QED BY <2>1, <2>2 DEF Listed
<1>5. ASSUME NEW y \in Timer, y # x
      PROVE  /\ \A d \in Cpu, i \in Buckets : y \in ToSet(U.base[d].vectors[i]) <=> y \in ToSet(V.base[d].vectors[i])
             /\ \A d \in Cpu, l \in Lvls : y \in ToSet(U.base[d].heads[l]) <=> y \in ToSet(V.base[d].heads[l])
             /\ U.timer[y] = V.timer[y]
  <2>1. ASSUME NEW d \in Cpu, NEW i \in Buckets
        PROVE  y \in ToSet(U.base[d].vectors[i]) <=> y \in ToSet(V.base[d].vectors[i])
    <3>1. \/ ToSet(U.base[d].vectors[i]) = ToSet(V.base[d].vectors[i]) \ {x}
          \/ U.base[d].vectors[i] = V.base[d].vectors[i]
      BY <1>1
    <3> QED BY <1>5, <3>1
  <2>2. ASSUME NEW d \in Cpu, NEW l \in Lvls
        PROVE  y \in ToSet(U.base[d].heads[l]) <=> y \in ToSet(V.base[d].heads[l])
    <3>1. \/ ToSet(U.base[d].heads[l]) = ToSet(V.base[d].heads[l]) \ {x}
          \/ U.base[d].heads[l] = V.base[d].heads[l]
      BY <1>2
    <3> QED BY <1>5, <3>1
  <2>3. U.timer[y] = V.timer[y] BY <1>5 DEF Detached
  <2> QED BY <2>1, <2>2, <2>3
<1>6. ASSUME NEW y \in Timer PROVE InVectors(U, y) /\ InHeads(U, y)
  <2>1. CASE y = x BY <1>4, <2>1 DEF Listed, InVectors, InHeads
  <2>2. CASE y # x
    <3>1. InVectors(V, y) /\ InHeads(V, y) BY DEF Placed
    <3>2. InHeads(U, y) BY <1>5, <2>2, <3>1 DEF InHeads
    <3>3. ASSUME NEW d \in Cpu, NEW i \in Buckets, y \in ToSet(U.base[d].vectors[i])
          PROVE  i \in U.base[d].pending_map
      <4>1. y \in ToSet(V.base[d].vectors[i]) BY <1>5, <2>2, <3>3
      <4>2. i \in V.base[d].pending_map BY <3>1, <4>1 DEF InVectors
      <4>3. V.base[d].vectors[i] # <<x>>
        <5>1. y \notin ToSet(<<x>>) BY <2>2 DEF ToSet
        <5> QED BY <4>1, <5>1
      <4> QED BY <4>2, <4>3 DEF Detached
    <3>4. InVectors(U, y) BY <1>5, <2>2, <3>1, <3>3 DEF InVectors
    <3> QED BY <3>2, <3>4
  <2> QED BY <2>1, <2>2
<1>7. ASSUME NEW y \in Timer, y # x, U.timer[y].pending, ~U.timer[y].migrating
      PROVE  Listed(U, U.timer[y].cpu, y)
  <2>1. U.timer[y] = V.timer[y] BY <1>5, <1>7
  <2>2. Listed(V, V.timer[y].cpu, y) BY <1>7, <2>1, LinuxWheelAssumption DEF Placed
  <2>3. V.timer[y].cpu \in Cpu BY <1>0
  <2> QED BY <1>5, <1>7, <2>1, <2>2, <2>3, ListedMonotone
<1>8. Once(U) BY <1>1, <1>2 DEF Once
<1> QED BY <1>4, <1>6, <1>7, <1>8 DEF Placed

\* detach_if_pending under the lock of the timer's base: the timer is free.
LEMMA DetachIfPendingFacts ==
  ASSUME NEW V \in Wheels, NEW x \in Timer, NEW c, c = V.timer[x].cpu, Placed(V, NoTimer),
         NEW clear \in BOOLEAN, NEW U, U = detach_if_pending(V, c, x, clear)
  PROVE  /\ U \in Wheels /\ SameRunning(U, V) /\ Placed(U, x)
         /\ \A y \in Timer \ {x} : U.timer[y] = V.timer[y]
         /\ U.timer[x].cpu = V.timer[x].cpu /\ U.timer[x].migrating = V.timer[x].migrating
         /\ U.timer[x].pending = (V.timer[x].pending /\ ~clear)
<1>0. V.timer[x].pending \in BOOLEAN /\ c \in Cpu /\ V.base[c] \in timer_base BY WheelFields
<1>1. CASE ~V.timer[x].pending
  <2>1. U = V BY <1>1 DEF detach_if_pending
  <2>2. Placed(V, x) BY <1>1, PlacedIsFree
  <2> QED BY <1>0, <1>1, <2>1, <2>2 DEF SameRunning
<1>2. CASE V.timer[x].pending
  <2> DEFINE idx == V.timer[x].idx
             map == IF V.base[c].vectors[idx] = <<x>> THEN V.base[c].pending_map \ {idx} ELSE V.base[c].pending_map
             b1 == [V.base[c] EXCEPT !.pending_map = map]
             V1 == [V EXCEPT !.base[c] = b1]
  <2>1. U = detach_timer(V1, c, x, clear) BY <1>2 DEF detach_if_pending, Wheels
  <2>2. /\ b1 \in timer_base /\ b1.vectors = V.base[c].vectors /\ b1.heads = V.base[c].heads
        /\ b1.pending_map = map /\ b1.running = V.base[c].running
    BY <1>0 DEF timer_base
  <2> HIDE DEF b1
  <2>3. /\ V1 \in Wheels /\ V1.timer = V.timer
        /\ \A d \in Cpu : V1.base[d] = IF d = c THEN b1 ELSE V.base[d]
    BY <1>0, <2>2 DEF Wheels
  <2> HIDE DEF V1
  <2>4. Once(V1) BY <2>2, <2>3 DEF Placed, Once
  <2>5. /\ U \in Wheels /\ SameRunning(U, V1) /\ Detached(U, V1, c, x)
        /\ \A d \in Cpu : U.base[d].pending_map = V1.base[d].pending_map
        /\ U.timer[x].pending = (V1.timer[x].pending /\ ~clear)
    BY <1>0, <2>1, <2>3, <2>4, DetachTimerFacts
  <2>6. \A d \in Cpu : /\ V1.base[d].vectors = V.base[d].vectors /\ V1.base[d].heads = V.base[d].heads
                       /\ V1.base[d].running = V.base[d].running
    BY <2>2, <2>3
  <2>7. \A d \in Cpu, i \in Buckets :
          i \in V.base[d].pending_map /\ i \notin U.base[d].pending_map => V.base[d].vectors[i] = <<x>>
    <3> SUFFICES ASSUME NEW d \in Cpu, NEW i \in Buckets,
                        i \in V.base[d].pending_map, i \notin U.base[d].pending_map
                 PROVE  V.base[d].vectors[i] = <<x>>
      OBVIOUS
    <3>1. d = c /\ i \notin map BY <2>2, <2>3, <2>5, ZenonT(60)
    <3> QED BY <3>1
  <2>8. Detached(U, V, c, x)
    <3>1. \A d \in Cpu, i \in Buckets : U.base[d].vectors[i] =
            IF d = c /\ i = V.timer[x].idx THEN RemoveFirst(V.base[d].vectors[i], x) ELSE V.base[d].vectors[i]
      <4> SUFFICES ASSUME NEW d \in Cpu, NEW i \in Buckets
                   PROVE  U.base[d].vectors[i] = IF d = c /\ i = V.timer[x].idx
                            THEN RemoveFirst(V.base[d].vectors[i], x) ELSE V.base[d].vectors[i]
        OBVIOUS
      <4>1. U.base[d].vectors[i] = IF d = c /\ i = V1.timer[x].idx
              THEN RemoveFirst(V1.base[d].vectors[i], x) ELSE V1.base[d].vectors[i]
        BY <2>5 DEF Detached
      <4> QED BY <2>3, <2>6, <4>1
    <3>2. \A d \in Cpu, l \in Lvls : U.base[d].heads[l] =
            IF d = c THEN RemoveFirst(V.base[d].heads[l], x) ELSE V.base[d].heads[l]
      <4> SUFFICES ASSUME NEW d \in Cpu, NEW l \in Lvls
                   PROVE  U.base[d].heads[l] = IF d = c
                            THEN RemoveFirst(V.base[d].heads[l], x) ELSE V.base[d].heads[l]
        OBVIOUS
      <4>1. U.base[d].heads[l] = IF d = c
              THEN RemoveFirst(V1.base[d].heads[l], x) ELSE V1.base[d].heads[l]
        BY <2>5 DEF Detached
      <4> QED BY <2>6, <4>1, SMTT(30)
    <3>3. /\ \A y \in Timer \ {x} : U.timer[y] = V.timer[y]
          /\ U.timer[x].cpu = V.timer[x].cpu /\ U.timer[x].migrating = V.timer[x].migrating
      BY <2>3, <2>5 DEF Detached
    <3> QED BY <2>7, <3>1, <3>2, <3>3 DEF Detached
  <2>9. Placed(U, x) BY <2>8, DetachedIsFree
  <2>10. SameRunning(U, V) BY <2>5, <2>6 DEF SameRunning
  <2>11. U.timer[x].pending = (V.timer[x].pending /\ ~clear) BY <2>3, <2>5
  <2> QED BY <2>5, <2>8, <2>9, <2>10, <2>11 DEF Detached
<1> QED BY <1>0, <1>1, <1>2

(***************************************************************************)
(* The loop of __run_timers.                                                *)
(***************************************************************************)
\* Base b may take the place of the base of CPU c.
Fits(V, c, b) ==
  /\ b \in timer_base /\ b.running = V.base[c].running
  /\ Placed([V EXCEPT !.base[c] = b], NoTimer)

LEMMA EmptyList == IsInjective(<<>>) /\ ToSet(<<>>) = {} /\ <<>> \in Seq(Timer)
BY DEF IsInjective, ToSet

\* The clock and the idle state of a base do not matter to its lists.
LEMMA OtherFieldsFit ==
  ASSUME NEW V \in Wheels, NEW c \in Cpu, NEW b, Fits(V, c, b), NEW a \in timer_base,
         a.vectors = b.vectors, a.heads = b.heads, a.pending_map = b.pending_map, a.running = b.running
  PROVE  Fits(V, c, a)
<1> DEFINE U == [V EXCEPT !.base[c] = b]
           U1 == [V EXCEPT !.base[c] = a]
<1>0. b \in timer_base BY DEF Fits
<1>1. U \in Wheels /\ U.timer = V.timer /\ \A d \in Cpu : U.base[d] = IF d = c THEN b ELSE V.base[d]
  BY <1>0 DEF Wheels
<1>2. U1.timer = V.timer /\ \A d \in Cpu : U1.base[d] = IF d = c THEN a ELSE V.base[d]
  BY DEF Wheels
<1>3. Placed(U, NoTimer) BY DEF Fits
<1> HIDE DEF U, U1
<1>4. SameLists(U1, U) BY <1>1, <1>2 DEF SameLists
<1>5. Placed(U1, NoTimer) BY <1>1, <1>2, <1>3, <1>4, PlacedBySame
<1> QED BY <1>5 DEF Fits, U1

\* One bucket of each due level becomes a list of heads.
LEMMA CollectFits ==
  ASSUME NEW V \in Wheels, NEW c \in Cpu, NEW b, Fits(V, c, b), b.heads = NoHeads,
         NEW a, a = __collect_expired_timers(b)
  PROVE  Fits(V, c, a) /\ a.clk = b.clk
<1> DEFINE U == [V EXCEPT !.base[c] = b]
           U1 == [V EXCEPT !.base[c] = a]
           at(l) == BucketAt(b.clk, l)
           lvls == DueLvls(b)
           due == {at(l) : l \in lvls}
<1>0. /\ b \in timer_base /\ b.clk \in Nat /\ b.pending_map \in SUBSET Buckets
      /\ \A i \in Buckets : b.vectors[i] \in Seq(Timer)
  BY DEF Fits, timer_base
<1>1. /\ \A l \in Lvls : at(l) \in Buckets
      /\ \A l, m \in Lvls : at(l) = at(m) => l = m
  BY <1>0, BucketAtFacts
<1>2. lvls \subseteq Lvls /\ \A l \in lvls : at(l) \in due BY DEF DueLvls
<1>3. a = [b EXCEPT !.pending_map = b.pending_map \ due,
                    !.vectors = [i \in Buckets |-> IF i \in due THEN <<>> ELSE b.vectors[i]],
                    !.heads = [l \in Lvls |-> IF l \in lvls THEN b.vectors[at(l)] ELSE <<>>]]
  BY <1>0 DEF __collect_expired_timers, timer_base
<1>d. \A i \in due : \E l \in lvls : i = at(l) OBVIOUS
<1> HIDE DEF at, lvls, due
<1>4. /\ a \in timer_base /\ a.clk = b.clk /\ a.running = b.running
      /\ \A i \in Buckets : a.vectors[i] = IF i \in due THEN <<>> ELSE b.vectors[i]
      /\ \A l \in Lvls : a.heads[l] = IF l \in lvls THEN b.vectors[at(l)] ELSE <<>>
      /\ a.pending_map = b.pending_map \ due
  <2> DEFINE vs == [i \in Buckets |-> IF i \in due THEN <<>> ELSE b.vectors[i]]
             hs == [l \in Lvls |-> IF l \in lvls THEN b.vectors[at(l)] ELSE <<>>]
  <2>1. vs \in [Buckets -> Seq(Timer)] BY <1>0, EmptyList
  <2>2. hs \in [Lvls -> Seq(Timer)] BY <1>0, <1>1, EmptyList
  <2>3. /\ \A i \in Buckets : vs[i] = IF i \in due THEN <<>> ELSE b.vectors[i]
        /\ \A l \in Lvls : hs[l] = IF l \in lvls THEN b.vectors[at(l)] ELSE <<>>
    OBVIOUS
  <2>4. a = [b EXCEPT !.pending_map = b.pending_map \ due, !.vectors = vs, !.heads = hs] BY <1>3
  <2> HIDE DEF vs, hs
  <2>5. b.pending_map \ due \in SUBSET Buckets BY <1>0
  <2>6. a \in timer_base BY <1>0, <2>1, <2>2, <2>4, <2>5 DEF timer_base
  <2>7. /\ a.clk = b.clk /\ a.running = b.running /\ a.vectors = vs /\ a.heads = hs
        /\ a.pending_map = b.pending_map \ due
    BY <1>0, <2>4 DEF timer_base
  <2> QED BY <2>3, <2>6, <2>7
<1>5. U \in Wheels /\ U.timer = V.timer /\ \A d \in Cpu : U.base[d] = IF d = c THEN b ELSE V.base[d]
  BY <1>0 DEF Wheels
<1>6. U1.timer = V.timer /\ \A d \in Cpu : U1.base[d] = IF d = c THEN a ELSE V.base[d]
  BY DEF Wheels
<1>7. Placed(U, NoTimer) BY DEF Fits
<1> HIDE DEF U, U1
<1>8. \A d \in Cpu : d # c => U1.base[d] = U.base[d] BY <1>5, <1>6
<1>9. U1.base[c] = a /\ U.base[c] = b /\ U1.timer = U.timer BY <1>5, <1>6
<1>10. \A x, i : i \in Buckets /\ x \in ToSet(a.vectors[i]) => x \in ToSet(b.vectors[i]) /\ i \notin due
  BY <1>4, EmptyList
<1>11. \A x, l : l \in Lvls /\ x \in ToSet(a.heads[l]) => x \in ToSet(b.vectors[at(l)]) /\ l \in lvls
  BY <1>4, EmptyList
<1>12. Once(U1)
  <2>1. ASSUME NEW i \in Buckets PROVE IsInjective(b.vectors[i]) BY <1>7, <1>9 DEF Placed, Once
  <2>2. ASSUME NEW i \in Buckets PROVE IsInjective(a.vectors[i]) BY <1>4, <2>1, EmptyList
  <2>3. ASSUME NEW l \in Lvls PROVE IsInjective(a.heads[l]) BY <1>1, <1>4, <2>1, EmptyList
  <2> QED BY <1>7, <1>8, <1>9, <2>2, <2>3 DEF Placed, Once
<1>13. ASSUME NEW x \in Timer PROVE InVectors(U1, x)
  <2>1. InVectors(U, x) BY <1>7 DEF Placed
  <2> SUFFICES ASSUME NEW d \in Cpu, NEW i \in Buckets, x \in ToSet(U1.base[d].vectors[i])
               PROVE  /\ U1.timer[x].pending /\ ~U1.timer[x].migrating
                      /\ U1.timer[x].cpu = d /\ U1.timer[x].idx = i
                      /\ i \in U1.base[d].pending_map
    BY DEF InVectors
  <2>2. CASE d = c
    <3>1. x \in ToSet(U.base[c].vectors[i]) /\ i \notin due BY <1>9, <1>10, <2>2
    <3> QED BY <1>4, <1>9, <2>1, <2>2, <3>1 DEF InVectors
  <2>3. CASE d # c BY <1>8, <1>9, <2>1, <2>3 DEF InVectors
  <2> QED BY <2>2, <2>3
<1>14. ASSUME NEW x \in Timer PROVE InHeads(U1, x)
  <2>1. InVectors(U, x) /\ InHeads(U, x) BY <1>7 DEF Placed
  <2> SUFFICES ASSUME NEW d \in Cpu, NEW l \in Lvls, x \in ToSet(U1.base[d].heads[l])
               PROVE  /\ U1.timer[x].pending /\ ~U1.timer[x].migrating
                      /\ U1.timer[x].cpu = d
                      /\ \A i \in Buckets : x \notin ToSet(U1.base[d].vectors[i])
                      /\ \A m \in Lvls : x \in ToSet(U1.base[d].heads[m]) => m = l
    BY DEF InHeads
  <2>2. CASE d = c
    <3>1. x \in ToSet(U.base[c].vectors[at(l)]) /\ l \in lvls /\ at(l) \in Buckets BY <1>1, <1>9, <1>11, <2>2
    <3>2. U.timer[x].idx = at(l) /\ U.timer[x].pending /\ ~U.timer[x].migrating /\ U.timer[x].cpu = c
      BY <2>1, <3>1 DEF InVectors
    <3>3. ASSUME NEW i \in Buckets, x \in ToSet(a.vectors[i]) PROVE FALSE
      <4>1. x \in ToSet(U.base[c].vectors[i]) /\ i \notin due BY <1>9, <1>10, <3>3
      <4>2. i = at(l) BY <2>1, <3>2, <4>1 DEF InVectors
      <4> QED BY <1>2, <3>1, <4>1, <4>2
    <3>4. ASSUME NEW m \in Lvls, x \in ToSet(a.heads[m]) PROVE m = l
      <4>1. x \in ToSet(U.base[c].vectors[at(m)]) /\ at(m) \in Buckets BY <1>1, <1>9, <1>11, <3>4
      <4>2. at(m) = at(l) BY <2>1, <3>2, <4>1 DEF InVectors
      <4> QED BY <1>1, <4>2
    <3> QED BY <1>9, <2>2, <3>2, <3>3, <3>4
  <2>3. CASE d # c
    <3>1. U1.base[d] = U.base[d] BY <1>8, <2>3
    <3> QED BY <1>9, <2>1, <3>1 DEF InHeads
  <2> QED BY <2>2, <2>3
<1>15. ASSUME NEW x \in Timer, U1.timer[x].pending, ~U1.timer[x].migrating
       PROVE  Listed(U1, U1.timer[x].cpu, x)
  <2> DEFINE d == U.timer[x].cpu
  <2>1. Listed(U, d, x) /\ d \in Cpu
    <3>1. d \in Cpu BY <1>5, WheelFields
    <3> QED BY <1>7, <1>9, <1>15, <3>1, LinuxWheelAssumption DEF Placed
  <2> HIDE DEF d
  <2>2. CASE d # c
    <3>1. U1.base[d] = U.base[d] BY <1>8, <2>1, <2>2
    <3> QED BY <1>9, <2>1, <3>1 DEF Listed, d
  <2>3. CASE d = c
    <3>1. \A l \in Lvls : x \notin ToSet(b.heads[l]) BY EmptyList DEF NoHeads
    <3>2. PICK i \in Buckets : x \in ToSet(b.vectors[i]) BY <1>9, <2>1, <2>3, <3>1 DEF Listed
    <3>3. CASE i \in due
      <4>1. PICK l \in lvls : i = at(l) BY <1>d, <3>3
      <4>2. l \in Lvls BY <1>2
      <4>3. x \in ToSet(a.heads[l]) BY <1>4, <3>2, <4>1, <4>2
      <4> QED BY <1>9, <2>3, <4>2, <4>3 DEF Listed, d
    <3>4. CASE i \notin due
      <4>1. x \in ToSet(a.vectors[i]) BY <1>4, <3>2, <3>4
      <4> QED BY <1>9, <2>3, <4>1 DEF Listed, d
    <3> QED BY <3>3, <3>4
  <2> QED BY <2>2, <2>3
<1>16. Placed(U1, NoTimer) BY <1>12, <1>13, <1>14, <1>15, LinuxWheelAssumption DEF Placed
<1>17. a.running = V.base[c].running BY <1>4 DEF Fits
<1> QED BY <1>4, <1>16, <1>17 DEF Fits, U1

\* A turn of the loop.
LEMMA TurnFits ==
  ASSUME NEW V \in Wheels, NEW c \in Cpu, NEW b, Fits(V, c, b), NEW now \in Nat
  PROVE  Fits(V, c, Turn(now)[b])
<1>0. b \in timer_base /\ b.clk \in Nat BY DEF Fits, timer_base
<1>1. CASE b.heads # NoHeads \/ now < b.clk BY <1>0, <1>1 DEF Turn
<1>2. CASE ~(b.heads # NoHeads \/ now < b.clk)
  <2> DEFINE e == collect_expired_timers(b, now)
             a == [e EXCEPT !.clk = @ + 1]
             next == __next_timer_interrupt(b)
  <2>1. Turn(now)[b] = a BY <1>0, <1>2 DEF Turn
  <2>2. ASSUME NEW k \in Nat
        PROVE  /\ Fits(V, c, [b EXCEPT !.clk = k]) /\ [b EXCEPT !.clk = k].heads = NoHeads
               /\ [b EXCEPT !.clk = k].clk = k
    <3> DEFINE bk == [b EXCEPT !.clk = k]
    <3>1. /\ bk \in timer_base /\ bk.vectors = b.vectors /\ bk.heads = b.heads
          /\ bk.pending_map = b.pending_map /\ bk.running = b.running /\ bk.clk = k
      BY <1>0 DEF timer_base
    <3> HIDE DEF bk
    <3>2. Fits(V, c, bk) BY <3>1, OtherFieldsFit
    <3> QED BY <1>2, <3>1, <3>2 DEF bk
  <2>3. next \in Nat BY <1>0, NextInterruptIsNat
  <2> HIDE DEF next
  <2>4. Fits(V, c, e) /\ e.clk \in Nat
    <3>1. CASE now - b.clk <= 2
      <4>1. e = __collect_expired_timers(b) BY <3>1 DEF collect_expired_timers
      <4> QED BY <1>0, <1>2, <4>1, CollectFits
    <3>2. CASE ~(now - b.clk <= 2) /\ next > now
      <4>1. e = [b EXCEPT !.clk = now] BY <3>2 DEF collect_expired_timers, next
      <4> QED BY <2>2, <4>1
    <3>3. CASE ~(now - b.clk <= 2) /\ ~(next > now)
      <4> DEFINE bk == [b EXCEPT !.clk = next]
      <4>1. e = __collect_expired_timers(bk) BY <3>3 DEF collect_expired_timers, next
      <4>2. Fits(V, c, bk) /\ bk.heads = NoHeads /\ bk.clk = next BY <2>2, <2>3
      <4> HIDE DEF bk
      <4> QED BY <2>3, <4>1, <4>2, CollectFits
    <3> QED BY <3>1, <3>2, <3>3
  <2> HIDE DEF e
  <2>5. e \in timer_base BY <2>4 DEF Fits
  <2>6. /\ a \in timer_base /\ a.vectors = e.vectors /\ a.heads = e.heads
        /\ a.pending_map = e.pending_map /\ a.running = e.running
    <3>1. PICK k \in Nat : k = e.clk + 1 BY <2>4
    <3>2. a = [e EXCEPT !.clk = k] BY <3>1
    <3> HIDE DEF a
    <3> QED BY <2>5, <3>2 DEF timer_base
  <2> HIDE DEF a
  <2> QED BY <2>1, <2>4, <2>6, OtherFieldsFit
<1> QED BY <1>1, <1>2

LEMMA CollectedFits ==
  ASSUME NEW V \in Wheels, NEW c \in Cpu, NEW b, Fits(V, c, b), NEW now \in Nat
  PROVE  Fits(V, c, Collected(b, now))
<1> DEFINE P == {a \in timer_base : Fits(V, c, a)}
<1>0. b \in timer_base /\ b.clk \in Nat BY DEF Fits, timer_base
<1>1. CASE now < b.clk BY <1>1 DEF Collected
<1>2. CASE ~(now < b.clk)
  <2>1. now - b.clk + 1 \in Nat BY <1>0, <1>2
  <2>2. b \in P BY <1>0
  <2>3. \A a \in P : Turn(now)[a] \in P
    <3> SUFFICES ASSUME NEW a \in P PROVE Turn(now)[a] \in P OBVIOUS
    <3>1. Fits(V, c, Turn(now)[a]) BY TurnFits
    <3> QED BY <3>1 DEF Fits
  <2> HIDE DEF P
  <2>4. Iterate(Turn(now), b, now - b.clk + 1) \in P BY <2>1, <2>2, <2>3, Iterates
  <2> QED BY <1>2, <2>4 DEF Collected, P
<1> QED BY <1>1, <1>2

(***************************************************************************)
(* The inductive invariant.                                                 *)
(***************************************************************************)
Flags == Cpu \X Buckets \X BOOLEAN

Calls ==
  [op : {"none", "mod", "pending", "reduce", "on", "msleep", "del", "sync"},
   x : Timer \cup {NoTimer}, expires : Nat,
   pc : {"none", "lock", "locked", "move", "asleep", "del"},
   tf : Flags \cup {<<>>},
   seen : BOOLEAN, to : SUBSET Cpu, woken : BOOLEAN]

Typed ==
  /\ scenario \in Scenarios /\ jiffies \in Nat
  /\ W \in Wheels
  /\ soft \in [Cpu -> {"idle", "fn", "relock"}]
  /\ call \in [Proc -> Calls]
  /\ online \subseteq scenario.cpus

\* A CPU runs the handler of a timer only while the flags of the timer name
\* this CPU and the timer is not on its way to another.
HandlersAtHome ==
  \A c \in Cpu :
    /\ W.base[c].running \in Timer =>
         /\ soft[c] = "fn"
         /\ W.timer[W.base[c].running].cpu = c /\ ~W.timer[W.base[c].running].migrating
    /\ soft[c] = "fn" => W.base[c].running \in Timer
    /\ c \notin online => soft[c] = "idle"

\* What a call knows of its timer between two locks.
CallsStand ==
  \A p \in Proc :
    /\ call[p].pc # "none" => call[p].x \in Timer
    /\ call[p].pc = "none" => call[p].op = "none"
    /\ call[p].pc \in {"locked", "del"} => call[p].tf[3] = FALSE
    /\ call[p].pc \in {"asleep", "del"} => call[p].op = "msleep"

\* A timer is moved by one call at a time.
OneMover ==
  \A p \in Proc : call[p].pc = "move" =>
    /\ call[p].op \in Arming /\ W.timer[call[p].x].migrating
    /\ \A q \in Proc : call[q].pc = "move" /\ call[q].x = call[p].x => q = p

\* A timer that is being started by add_timer_on is neither pending nor
\* running, and no other call starts it.
AddOnAlone ==
  \A p \in Proc : call[p].op = "on" =>
    /\ call[p].x \in Timer
    /\ ~W.timer[call[p].x].pending
    /\ \A c \in Cpu : W.base[c].running # call[p].x
    /\ \A q \in Proc : call[q].x = call[p].x /\ call[q].op \in Arming => q = p

Targets == \A p \in Proc : call[p].pc = "move" \/ call[p].op = "on" => \E c \in Cpu : call[p].to = {c}

LinuxInv ==
  /\ Typed /\ Placed(W, NoTimer)
  /\ HandlersAtHome /\ CallsStand /\ OneMover /\ AddOnAlone /\ Targets

(***************************************************************************)
(* Initial states.                                                          *)
(***************************************************************************)
LEMMA NoCallIsCall == NoCall \in Calls
BY DEF NoCall, Calls

LEMMA InitIsInv == ASSUME Init PROVE LinuxInv
<1>1. scenario \in Scenarios /\ scenario.cpus \subseteq Cpu /\ scenario.cpus # {}
  BY ScenariosAssumption DEF Init
<1>2. PICK c \in Cpu : c = CHOOSE d \in scenario.cpus : TRUE BY <1>1
<1>3. 0 \in Buckets
  <2>1. LVL_SIZE \in Nat \ {0} /\ LVL_DEPTH \in Nat \ {0} BY Sizes
  <2>2. 0 \in Lvls BY <2>1 DEF Lvls
  <2>3. LVL_OFFS(0) + 0 \in Buckets BY <2>1, <2>2, PositionIsBucket
  <2> QED BY <2>1, <2>3 DEF LVL_OFFS
<1>4. NoHeads \in [Lvls -> Seq(Timer)] /\ [i \in Buckets |-> <<>>] \in [Buckets -> Seq(Timer)]
  BY EmptyList DEF NoHeads
<1>5. init_timer_cpu(0) \in timer_base BY <1>4 DEF init_timer_cpu, timer_base
<1>6. do_init_timer(c) \in timer_list BY <1>3 DEF do_init_timer, timer_list
<1>7. /\ W.base = [d \in Cpu |-> init_timer_cpu(0)] /\ W.timer = [x \in Timer |-> do_init_timer(c)]
      /\ W \in Wheels
  BY <1>2, <1>5, <1>6 DEF Init, Wheels
<1>8. \A d \in Cpu : /\ \A i \in Buckets : W.base[d].vectors[i] = <<>>
                     /\ \A l \in Lvls : W.base[d].heads[l] = <<>>
                     /\ W.base[d].running = NoTimer
  BY <1>7 DEF init_timer_cpu, NoHeads
<1>9. \A x \in Timer : ~W.timer[x].pending BY <1>7 DEF do_init_timer
<1>10. Placed(W, NoTimer)
  <2>1. Once(W) BY <1>8, EmptyList DEF Once
  <2>2. \A x \in Timer : InVectors(W, x) /\ InHeads(W, x) BY <1>8, EmptyList DEF InVectors, InHeads
  <2> QED BY <1>9, <2>1, <2>2, LinuxWheelAssumption DEF Placed
<1>11. Typed BY <1>1, <1>7, NoCallIsCall DEF Init, Typed
<1>12. HandlersAtHome BY <1>8, LinuxWheelAssumption DEF HandlersAtHome, Init
<1>13. \A p \in Proc : call[p].op = "none" /\ call[p].pc = "none" BY DEF Init, NoCall
<1> QED BY <1>10, <1>11, <1>12, <1>13 DEF LinuxInv, CallsStand, OneMover, AddOnAlone, Targets

(***************************************************************************)
(* Steps.  First what most of them share.                                   *)
(***************************************************************************)
\* The calls are where they were; at most sleepers were woken.
CallsStay ==
  /\ call' \in [Proc -> Calls]
  /\ \A p \in Proc : /\ call'[p].op = call[p].op /\ call'[p].x = call[p].x /\ call'[p].pc = call[p].pc
                     /\ call'[p].tf = call[p].tf /\ call'[p].to = call[p].to

\* Calls are not disturbed by what CPUs do to lists, if no timer becomes
\* pending and none that is not begins to run.
LEMMA WheelStep ==
  ASSUME LinuxInv, CallsStay,
         \A x \in Timer : W'.timer[x].migrating = W.timer[x].migrating,
         \A x \in Timer : W'.timer[x].pending => W.timer[x].pending,
         \A c \in Cpu : \A x \in Timer :
           W'.base[c].running = x => W.base[c].running = x \/ W.timer[x].pending
  PROVE  CallsStand' /\ OneMover' /\ AddOnAlone' /\ Targets'
<1>1. CallsStand' BY DEF CallsStay, CallsStand, LinuxInv
<1>2. OneMover'
  <2>1. \A p \in Proc : call[p].pc = "move" => call[p].x \in Timer BY DEF LinuxInv, CallsStand
  <2> QED BY <2>1 DEF CallsStay, OneMover, LinuxInv
<1>3. AddOnAlone' BY DEF CallsStay, AddOnAlone, LinuxInv
<1>4. Targets' BY DEF CallsStay, Targets, LinuxInv
<1> QED BY <1>1, <1>2, <1>3, <1>4

\* Only call p and the timer x it is about change; k is what the call goes on
\* with, and running handlers keep their timers.
CallGoesOn(p, x, k) ==
  /\ x = call[p].x /\ x \in Timer
  /\ call' = [call EXCEPT ![p] = k] /\ k \in Calls
  /\ UNCHANGED <<scenario, jiffies, soft, online>>
  /\ W' \in Wheels /\ Placed(W', NoTimer) /\ SameRunning(W', W)
  /\ \A y \in Timer \ {x} : W'.timer[y] = W.timer[y]

\* k is the end of call p or the same call at another place.
Follows(k, p, x) ==
  \/ k = NoCall
  \/ /\ k.op = call[p].op /\ k.x = x /\ k.pc # "none"
     /\ k.pc \in {"locked", "del"} => k.tf[3] = FALSE
     /\ k.pc \in {"asleep", "del"} => k.op = "msleep"
     /\ k.pc = "move" \/ k.op = "on" => \E c \in Cpu : k.to = {c}

\* A step of a call, by what it does to its timer.
LEMMA CallStep ==
  ASSUME LinuxInv, NEW p \in Proc, NEW x, NEW k, CallGoesOn(p, x, k), Follows(k, p, x),
         \A c \in Cpu : W.base[c].running = x =>
           W'.timer[x].cpu = W.timer[x].cpu /\ ~W'.timer[x].migrating,
         W.timer[x].migrating /\ call[p].pc # "move" => W'.timer[x].migrating,
         k.pc = "move" => /\ k.op \in Arming /\ W'.timer[x].migrating
                          /\ ~W.timer[x].migrating,
         k.op = "on" => ~W'.timer[x].pending,
         W'.timer[x].pending => W.timer[x].pending \/ call[p].op \in Arming
  PROVE  LinuxInv'
<1>0. /\ call \in [Proc -> Calls] /\ x \in Timer /\ x # NoTimer /\ W \in Wheels
      /\ NoCall.op = "none" /\ NoCall.pc = "none" /\ NoCall.x = NoTimer
      /\ "none" \notin Arming
  BY LinuxWheelAssumption DEF LinuxInv, Typed, CallGoesOn, NoCall, Arming
<1>1. /\ call'[p] = k /\ \A q \in Proc : q # p => call'[q] = call[q]
      /\ call' \in [Proc -> Calls]
  BY <1>0 DEF CallGoesOn
<1>2. Typed' BY <1>0, <1>1 DEF CallGoesOn, LinuxInv, Typed
<1>3. Placed(W, NoTimer)' BY DEF CallGoesOn
<1>4. HandlersAtHome'
  <2>1. /\ soft' = soft /\ online' = online /\ \A c \in Cpu : W'.base[c].running = W.base[c].running
        /\ HandlersAtHome
    BY DEF CallGoesOn, SameRunning, LinuxInv
  <2> SUFFICES ASSUME NEW c \in Cpu, W.base[c].running \in Timer
               PROVE  W'.timer[W.base[c].running].cpu = c /\ ~W'.timer[W.base[c].running].migrating
    BY <2>1 DEF HandlersAtHome
  <2>2. CASE W.base[c].running = x BY <2>1, <2>2 DEF HandlersAtHome
  <2>3. CASE W.base[c].running # x BY <2>1, <2>3 DEF HandlersAtHome, CallGoesOn
  <2> QED BY <2>2, <2>3
<1>5. CallsStand'
  <2> SUFFICES ASSUME NEW q \in Proc
               PROVE  /\ call'[q].pc # "none" => call'[q].x \in Timer
                      /\ call'[q].pc = "none" => call'[q].op = "none"
                      /\ call'[q].pc \in {"locked", "del"} => call'[q].tf[3] = FALSE
                      /\ call'[q].pc \in {"asleep", "del"} => call'[q].op = "msleep"
    BY DEF CallsStand
  <2>1. CASE q = p BY <1>0, <1>1, <2>1 DEF Follows
  <2>2. CASE q # p BY <1>1, <2>2 DEF LinuxInv, CallsStand
  <2> QED BY <2>1, <2>2
<1>6. OneMover'
  <2> SUFFICES ASSUME NEW q \in Proc, call'[q].pc = "move"
               PROVE  /\ call'[q].op \in Arming /\ W'.timer[call'[q].x].migrating
                      /\ \A r \in Proc : call'[r].pc = "move" /\ call'[r].x = call'[q].x => r = q
    BY DEF OneMover
  <2>1. \A r \in Proc : r # p /\ call'[r].pc = "move" =>
          call[r].x \in Timer /\ W.timer[call[r].x].migrating /\ call[r].op \in Arming /\ call'[r].x = call[r].x
    BY <1>1 DEF LinuxInv, OneMover, CallsStand
  <2>2. CASE q = p
    <3>1. k.x = x /\ ~W.timer[x].migrating BY <1>0, <1>1, <2>2 DEF Follows
    <3> QED BY <1>1, <2>1, <2>2, <3>1
  <2>3. CASE q # p
    <3>1. W'.timer[call[q].x].migrating
      <4>1. CASE call[q].x = x
        <5>1. call[p].pc # "move" BY <1>1, <2>3, <4>1 DEF LinuxInv, OneMover, CallGoesOn
        <5> QED BY <2>1, <2>3, <4>1, <5>1
      <4>2. CASE call[q].x # x BY <2>1, <2>3, <4>2 DEF CallGoesOn
      <4> QED BY <4>1, <4>2
    <3>2. ASSUME k.pc = "move", k.x = call[q].x PROVE FALSE
      <4>1. k.x = x BY <1>0, <3>2 DEF Follows
      <4> QED BY <2>1, <2>3, <3>2, <4>1
    <3> QED BY <1>1, <2>1, <2>3, <3>1, <3>2 DEF LinuxInv, OneMover
  <2> QED BY <2>2, <2>3
<1>7. AddOnAlone'
  <2> SUFFICES ASSUME NEW q \in Proc, call'[q].op = "on"
               PROVE  /\ call'[q].x \in Timer
                      /\ ~W'.timer[call'[q].x].pending
                      /\ \A c \in Cpu : W'.base[c].running # call'[q].x
                      /\ \A r \in Proc : call'[r].x = call'[q].x /\ call'[r].op \in Arming => r = q
    BY DEF AddOnAlone
  <2>0. \A r \in Proc : call'[r].op \in Arming => call'[r].op = call[r].op /\ call'[r].x = call[r].x
    BY <1>0, <1>1 DEF Follows, CallGoesOn
  <2>1. call[q].op = "on" /\ call'[q].x = call[q].x BY <2>0 DEF Arming
  <2>2. /\ call[q].x \in Timer /\ ~W.timer[call[q].x].pending
        /\ \A c \in Cpu : W.base[c].running # call[q].x
        /\ \A r \in Proc : call[r].x = call[q].x /\ call[r].op \in Arming => r = q
    BY <2>1 DEF LinuxInv, AddOnAlone
  <2>3. ~W'.timer[call[q].x].pending
    <3>1. CASE call[q].x # x BY <2>2, <3>1 DEF CallGoesOn
    <3>2. CASE call[q].x = x /\ q = p BY <1>1, <2>1, <3>2
    <3>3. CASE call[q].x = x /\ q # p BY <2>2, <3>3 DEF CallGoesOn
    <3> QED BY <3>1, <3>2, <3>3
  <2> QED BY <2>0, <2>1, <2>2, <2>3 DEF CallGoesOn, SameRunning
<1>8. Targets'
  <2> SUFFICES ASSUME NEW q \in Proc, call'[q].pc = "move" \/ call'[q].op = "on"
               PROVE  \E c \in Cpu : call'[q].to = {c}
    BY DEF Targets
  <2>1. CASE q = p BY <1>0, <1>1, <2>1 DEF Follows
  <2>2. CASE q # p BY <1>1, <2>2 DEF LinuxInv, Targets
  <2> QED BY <2>1, <2>2
<1> QED BY <1>2, <1>3, <1>4, <1>5, <1>6, <1>7, <1>8 DEF LinuxInv

\* The lock is held: the flags the call has read are the timer's.
LEMMA HoldsFacts ==
  ASSUME LinuxInv, NEW p \in Proc, NEW pc \in {"locked", "del"}, Holds(p, pc)
  PROVE  /\ call[p].x \in Timer /\ call[p].tf[1] = W.timer[call[p].x].cpu
         /\ ~W.timer[call[p].x].migrating /\ call[p].pc # "move" /\ call[p] \in Calls
         /\ call[p].tf[1] \in Cpu
<1>1. call[p].x \in Timer /\ call[p].tf[3] = FALSE /\ call[p].pc = pc
  BY DEF LinuxInv, CallsStand, Holds
<1>2. call[p].tf = <<W.timer[call[p].x].cpu, W.timer[call[p].x].idx, W.timer[call[p].x].migrating>>
  BY DEF Holds, lock_timer_base_ok, flags
<1>3. W.timer[call[p].x].cpu \in Cpu BY <1>1, WheelFields DEF LinuxInv, Typed
<1> QED BY <1>1, <1>2, <1>3 DEF LinuxInv, Typed

\* What a call of kind "on" keeps while it goes on.
LEMMA OnFacts ==
  ASSUME LinuxInv, NEW p \in Proc, call[p].op = "on"
  PROVE  ~W.timer[call[p].x].pending /\ \E c \in Cpu : call[p].to = {c}
BY DEF LinuxInv, AddOnAlone, Targets

\* A step of a call that leaves the wheel alone.
LEMMA CallOnly ==
  ASSUME LinuxInv, NEW p \in Proc, call[p].x \in Timer, NEW k \in Calls, Follows(k, p, call[p].x),
         k.pc # "move", call' = [call EXCEPT ![p] = k],
         UNCHANGED <<scenario, jiffies, W, soft, online>>
  PROVE  LinuxInv'
<1>1. CallGoesOn(p, call[p].x, k) BY DEF CallGoesOn, LinuxInv, Typed, SameRunning
<1>2. \A c \in Cpu : W.base[c].running = call[p].x =>
        W'.timer[call[p].x].cpu = W.timer[call[p].x].cpu /\ ~W'.timer[call[p].x].migrating
  BY DEF LinuxInv, HandlersAtHome
<1>3. k.op = "on" => ~W'.timer[call[p].x].pending
  <2>1. k.op = "on" => call[p].op = "on" BY DEF Follows, NoCall
  <2> QED BY <2>1, OnFacts
<1> QED BY <1>1, <1>2, <1>3, CallStep

LEMMA RereadStep == ASSUME LinuxInv, NEW p \in Proc, Reread(p) PROVE LinuxInv'
<1> DEFINE x == call[p].x
           k == [call[p] EXCEPT !.tf = flags(x), !.pc = IF @ = "lock" THEN "locked" ELSE @]
<1>1. call[p] \in Calls /\ call \in [Proc -> Calls] /\ call[p].pc \in {"lock", "locked", "del"} /\ x \in Timer
  BY DEF LinuxInv, Typed, CallsStand, Reread
<1>2. flags(x) \in Flags /\ flags(x)[3] = FALSE
  <2>1. /\ W.timer[x].cpu \in Cpu /\ W.timer[x].idx \in Buckets /\ W.timer[x].migrating \in BOOLEAN
        /\ ~W.timer[x].migrating
    BY <1>1, WheelFields DEF LinuxInv, Typed, Reread
  <2> QED BY <2>1 DEF flags, Flags
<1>3. call' = [call EXCEPT ![p] = k] BY <1>1 DEF Reread, Calls
<1>4. k \in Calls BY <1>1, <1>2 DEF Calls
<1>5. Follows(k, p, x)
  <2>1. /\ k.op = call[p].op /\ k.x = x /\ k.pc \in {"locked", "del"} /\ k.tf = flags(x) /\ k.to = call[p].to
        /\ k.pc = "del" => call[p].pc = "del"
    BY <1>1 DEF Calls
  <2>2. k.pc = "del" => call[p].op = "msleep" BY <2>1 DEF LinuxInv, CallsStand
  <2> QED BY <1>2, <2>1, <2>2, OnFacts DEF Follows
<1>6. k.pc # "move" BY <1>1 DEF Calls
<1>7. UNCHANGED <<scenario, jiffies, W, soft, online>> BY DEF Reread
<1> HIDE DEF k
<1> QED BY <1>1, <1>3, <1>4, <1>5, <1>6, <1>7, CallOnly

LEMMA WokenStep == ASSUME LinuxInv, NEW p \in Proc, Woken(p) PROVE LinuxInv'
<1> DEFINE x == call[p].x
           k == [call[p] EXCEPT !.pc = "del", !.tf = flags(x)]
<1>1. /\ call[p] \in Calls /\ call \in [Proc -> Calls] /\ call[p].pc = "asleep" /\ x \in Timer
      /\ call[p].op = "msleep"
  BY DEF LinuxInv, Typed, CallsStand, Woken
<1>2. flags(x) \in Flags /\ flags(x)[3] = FALSE
  <2>1. /\ W.timer[x].cpu \in Cpu /\ W.timer[x].idx \in Buckets /\ W.timer[x].migrating \in BOOLEAN
        /\ ~W.timer[x].migrating
    BY <1>1, WheelFields DEF LinuxInv, Typed, Woken
  <2> QED BY <2>1 DEF flags, Flags
<1>3. call' = [call EXCEPT ![p] = k] BY <1>1 DEF Woken, Calls
<1>4. k \in Calls BY <1>1, <1>2 DEF Calls
<1>5. Follows(k, p, x) /\ k.pc # "move"
  <2>1. k.op = call[p].op /\ k.x = x /\ k.pc = "del" /\ k.tf = flags(x) BY <1>1 DEF Calls
  <2> QED BY <1>1, <1>2, <2>1 DEF Follows
<1>6. UNCHANGED <<scenario, jiffies, W, soft, online>> BY DEF Woken
<1> HIDE DEF k
<1> QED BY <1>1, <1>3, <1>4, <1>5, <1>6, CallOnly

\* The call that an arming call goes on with when its timer is set.
LEMMA ArmedFacts ==
  ASSUME LinuxInv, NEW p \in Proc, call[p].x \in Timer
  PROVE  \E k : /\ k \in Calls /\ Follows(k, p, call[p].x) /\ k.pc # "move" /\ k.op # "on"
                /\ Armed(p) = [call EXCEPT ![p] = k]
<1> DEFINE k == IF call[p].op = "msleep" THEN [call[p] EXCEPT !.pc = "asleep", !.to = {}] ELSE NoCall
<1>1. call[p] \in Calls /\ call \in [Proc -> Calls] BY DEF LinuxInv, Typed
<1>2. CASE call[p].op = "msleep"
  <2>1. /\ k \in Calls /\ k.op = "msleep" /\ k.pc = "asleep" /\ k.x = call[p].x
    BY <1>1, <1>2 DEF Calls
  <2> QED BY <1>1, <1>2, <2>1 DEF Armed, Follows
<1>3. CASE call[p].op # "msleep"
  <2>1. k = NoCall /\ NoCall.pc # "move" /\ NoCall.op # "on" BY <1>3 DEF NoCall
  <2> QED BY <1>1, <1>3, <2>1, NoCallIsCall DEF Armed, Follows
<1> QED BY <1>2, <1>3

\* The wheel with a base's clock forwarded.
LEMMA ForwardedFacts ==
  ASSUME LinuxInv, NEW c \in Cpu, NEW F, F = forward_timer_base(W, c, jiffies)
  PROVE  F \in Wheels /\ Placed(F, NoTimer) /\ SameRunning(F, W) /\ F.timer = W.timer
<1>1. W \in Wheels /\ jiffies \in Nat /\ Placed(W, NoTimer) BY DEF LinuxInv, Typed
<1>2. F \in Wheels /\ SameLists(F, W) /\ SameRunning(F, W) /\ F.timer = W.timer BY <1>1, ForwardFacts
<1> QED BY <1>1, <1>2, PlacedBySame

\* A call that ends having only forwarded the clock.
LEMMA ForwardOnly ==
  ASSUME LinuxInv, NEW p \in Proc, Holds(p, "locked"), W' = Forwarded(p),
         call' = [call EXCEPT ![p] = NoCall], UNCHANGED <<scenario, jiffies, soft, online>>
  PROVE  LinuxInv'
<1> DEFINE x == call[p].x
<1>1. x \in Timer /\ ~W.timer[x].migrating /\ call[p].tf[1] \in Cpu BY HoldsFacts
<1>2. W' \in Wheels /\ Placed(W', NoTimer) /\ SameRunning(W', W) /\ W'.timer = W.timer
  BY <1>1, ForwardedFacts DEF Forwarded
<1>3. CallGoesOn(p, x, NoCall) BY <1>1, <1>2, NoCallIsCall DEF CallGoesOn
<1>4. Follows(NoCall, p, x) /\ NoCall.pc # "move" /\ NoCall.op # "on" BY DEF Follows, NoCall
<1> HIDE DEF x
<1> QED BY <1>1, <1>2, <1>3, <1>4, CallStep

LEMMA ModKeepsExpiryStep == ASSUME LinuxInv, NEW p \in Proc, ModKeepsExpiry(p) PROVE LinuxInv'
BY ForwardOnly DEF ModKeepsExpiry

LEMMA ModNotPendingStep == ASSUME LinuxInv, NEW p \in Proc, ModNotPending(p) PROVE LinuxInv'
BY ForwardOnly DEF ModNotPending

\* The expiry of a timer does not matter to the lists.
LEMMA ExpiryMayChange ==
  ASSUME NEW V \in Wheels, Placed(V, NoTimer), NEW x \in Timer, NEW e \in Nat,
         NEW U, U = [V EXCEPT !.timer[x].expires = e]
  PROVE  /\ U \in Wheels /\ Placed(U, NoTimer) /\ SameRunning(U, V)
         /\ \A y \in Timer \ {x} : U.timer[y] = V.timer[y]
         /\ U.timer[x].cpu = V.timer[x].cpu /\ U.timer[x].migrating = V.timer[x].migrating
         /\ U.timer[x].pending = V.timer[x].pending
<1> DEFINE t == [V.timer[x] EXCEPT !.expires = e]
<1>1. V.timer[x] \in timer_list BY WheelFields
<1>2. /\ t \in timer_list /\ t.cpu = V.timer[x].cpu /\ t.migrating = V.timer[x].migrating
      /\ t.pending = V.timer[x].pending /\ t.idx = V.timer[x].idx
  BY <1>1 DEF timer_list
<1>3. U = [V EXCEPT !.timer = [@ EXCEPT ![x] = t]] OBVIOUS
<1> HIDE DEF t
<1>4. /\ U \in Wheels /\ U.base = V.base
      /\ \A y \in Timer : U.timer[y] = IF y = x THEN t ELSE V.timer[y]
  BY <1>2, <1>3 DEF Wheels
<1>5. \A y \in Timer : /\ U.timer[y].cpu = V.timer[y].cpu /\ U.timer[y].migrating = V.timer[y].migrating
                       /\ U.timer[y].pending = V.timer[y].pending /\ U.timer[y].idx = V.timer[y].idx
  BY <1>2, <1>4
<1>6. Placed(U, NoTimer)
  <2>1. Once(U) BY <1>4 DEF Placed, Once
  <2>2. \A y \in Timer : InVectors(U, y) BY <1>4, <1>5 DEF Placed, InVectors
  <2>3. \A y \in Timer : InHeads(U, y) BY <1>4, <1>5 DEF Placed, InHeads
  <2>4. \A c \in Cpu, y \in Timer : Listed(U, c, y) <=> Listed(V, c, y) BY <1>4 DEF Listed
  <2>5. ASSUME NEW y \in Timer, U.timer[y].pending, ~U.timer[y].migrating
        PROVE  Listed(U, U.timer[y].cpu, y)
    <3>1. Listed(V, V.timer[y].cpu, y) /\ V.timer[y].cpu \in Cpu
      BY <1>5, <2>5, LinuxWheelAssumption, WheelFields DEF Placed
    <3> QED BY <1>5, <2>4, <3>1
  <2> QED BY <2>1, <2>2, <2>3, <2>5, LinuxWheelAssumption DEF Placed
<1> QED BY <1>2, <1>4, <1>6 DEF SameRunning

LEMMA ModInBucketStep == ASSUME LinuxInv, NEW p \in Proc, ModInBucket(p) PROVE LinuxInv'
<1> DEFINE x == call[p].x
           F == Forwarded(p)
           e == IF call[p].op = "reduce" /\ F.timer[x].expires <= call[p].expires
                THEN F.timer[x].expires ELSE call[p].expires
<1>1. /\ x \in Timer /\ ~W.timer[x].migrating /\ call[p].tf[1] \in Cpu /\ call[p] \in Calls
      /\ call[p].pc # "move"
  BY HoldsFacts DEF ModInBucket
<1>2. F \in Wheels /\ Placed(F, NoTimer) /\ SameRunning(F, W) /\ F.timer = W.timer
  BY <1>1, ForwardedFacts DEF Forwarded
<1>3. W' = [F EXCEPT !.timer[x].expires = e]
  BY <1>1, <1>2 DEF ModInBucket, Wheels, timer_list
<1>4. e \in Nat BY <1>1, <1>2, WheelFields DEF Calls
<1> HIDE DEF F, e
<1>5. /\ W' \in Wheels /\ Placed(W', NoTimer) /\ SameRunning(W', F)
      /\ \A y \in Timer \ {x} : W'.timer[y] = F.timer[y]
      /\ W'.timer[x].cpu = F.timer[x].cpu /\ W'.timer[x].migrating = F.timer[x].migrating
      /\ W'.timer[x].pending = F.timer[x].pending
  BY <1>1, <1>2, <1>3, <1>4, ExpiryMayChange
<1>6. PICK k : /\ k \in Calls /\ Follows(k, p, x) /\ k.pc # "move" /\ k.op # "on"
               /\ Armed(p) = [call EXCEPT ![p] = k]
  BY <1>1, ArmedFacts
<1>7. CallGoesOn(p, x, k) BY <1>1, <1>2, <1>5, <1>6 DEF CallGoesOn, ModInBucket, SameRunning
<1> HIDE DEF x
<1> QED BY <1>1, <1>2, <1>5, <1>6, <1>7, CallStep

\* detach_if_pending without clear_pending: off every list, but still pending.
Lifted(V, c, x) == detach_if_pending(V, c, x, FALSE)

LEMMA LiftedFacts ==
  ASSUME NEW V \in Wheels, Placed(V, NoTimer), NEW x \in Timer, NEW c, c = V.timer[x].cpu,
         NEW U, U = Lifted(V, c, x)
  PROVE  /\ U \in Wheels /\ SameRunning(U, V) /\ Placed(U, x)
         /\ \A y \in Timer \ {x} : U.timer[y] = V.timer[y]
         /\ U.timer[x].cpu = V.timer[x].cpu /\ U.timer[x].migrating = V.timer[x].migrating
         /\ U.timer[x].pending = V.timer[x].pending
<1>1. PICK clear \in BOOLEAN : ~clear /\ U = detach_if_pending(V, c, x, clear)
  BY Zenon DEF Lifted
<1>2. U = detach_if_pending(V, c, x, clear) BY <1>1, Zenon
<1>3. /\ U \in Wheels /\ SameRunning(U, V) /\ Placed(U, x)
      /\ \A y \in Timer \ {x} : U.timer[y] = V.timer[y]
      /\ U.timer[x].cpu = V.timer[x].cpu /\ U.timer[x].migrating = V.timer[x].migrating
      /\ U.timer[x].pending = (V.timer[x].pending /\ ~clear)
  BY <1>2, DetachIfPendingFacts
<1>4. V.timer[x].pending \in BOOLEAN BY WheelFields
<1>5. U.timer[x].pending = V.timer[x].pending BY <1>1, <1>3, <1>4
<1> QED BY <1>3, <1>5

\* detach_if_pending with clear_pending: the timer is gone.
Deleted(V, c, x) == detach_if_pending(V, c, x, TRUE)
GoneFrom(U, V, x) ==
  /\ U \in Wheels /\ SameRunning(U, V) /\ Placed(U, x) /\ Placed(U, NoTimer)
  /\ \A y \in Timer \ {x} : U.timer[y] = V.timer[y]
  /\ U.timer[x].cpu = V.timer[x].cpu /\ U.timer[x].migrating = V.timer[x].migrating
  /\ ~U.timer[x].pending

LEMMA DeletedFacts ==
  ASSUME NEW V \in Wheels, Placed(V, NoTimer), NEW x \in Timer, NEW c, c = V.timer[x].cpu,
         NEW U, U = Deleted(V, c, x)
  PROVE  GoneFrom(U, V, x)
<1>1. PICK clear \in BOOLEAN : clear /\ U = detach_if_pending(V, c, x, clear)
  BY Zenon DEF Deleted
<1>2. U = detach_if_pending(V, c, x, clear) BY <1>1, Zenon
<1>3. /\ U \in Wheels /\ SameRunning(U, V) /\ Placed(U, x)
      /\ \A y \in Timer \ {x} : U.timer[y] = V.timer[y]
      /\ U.timer[x].cpu = V.timer[x].cpu /\ U.timer[x].migrating = V.timer[x].migrating
      /\ U.timer[x].pending = (V.timer[x].pending /\ ~clear)
  BY <1>2, DetachIfPendingFacts
<1>4. ~U.timer[x].pending BY <1>1, <1>3
<1>5. Placed(U, NoTimer) BY <1>3, <1>4, FreeTimerIsPlaced
<1> QED BY <1>3, <1>4, <1>5 DEF GoneFrom

\* Deletion under the lock of the timer's base.
LEMMA DeleteStep ==
  ASSUME LinuxInv, NEW p \in Proc, NEW pc \in {"locked", "del"}, Holds(p, pc),
         W' = Deleted(W, call[p].tf[1], call[p].x),
         NEW k \in Calls, Follows(k, p, call[p].x), k.pc # "move",
         call' = [call EXCEPT ![p] = k], UNCHANGED <<scenario, jiffies, soft, online>>
  PROVE  LinuxInv' /\ Placed(W', call[p].x) /\ SameRunning(W', W)
<1> DEFINE x == call[p].x
<1>1. /\ x \in Timer /\ ~W.timer[x].migrating /\ call[p].tf[1] = W.timer[x].cpu
      /\ call[p].pc # "move" /\ W \in Wheels /\ Placed(W, NoTimer)
  BY HoldsFacts DEF LinuxInv, Typed
<1>2. /\ W' \in Wheels /\ SameRunning(W', W) /\ Placed(W', x) /\ Placed(W', NoTimer)
      /\ \A y \in Timer \ {x} : W'.timer[y] = W.timer[y]
      /\ W'.timer[x].cpu = W.timer[x].cpu /\ W'.timer[x].migrating = W.timer[x].migrating
      /\ ~W'.timer[x].pending
  <2>1. PICK U, c : U = W' /\ c = call[p].tf[1] OBVIOUS
  <2>2. U = Deleted(W, c, x) /\ c = W.timer[x].cpu BY <1>1, <2>1
  <2> HIDE DEF x
  <2>3. GoneFrom(U, W, x) BY <1>1, <2>2, DeletedFacts
  <2> QED BY <2>1, <2>3 DEF GoneFrom
<1>3. CallGoesOn(p, x, k) BY <1>1, <1>2 DEF CallGoesOn
<1> HIDE DEF x
<1>4. LinuxInv' BY <1>1, <1>2, <1>3, CallStep DEF x
<1> QED BY <1>2, <1>4 DEF x

LEMMA del_timerStep == ASSUME LinuxInv, NEW p \in Proc, del_timer(p) PROVE LinuxInv'
<1>1. Follows(NoCall, p, call[p].x) /\ NoCall.pc # "move" BY DEF Follows, NoCall
<1>2. W' = Deleted(W, call[p].tf[1], call[p].x) BY Zenon DEF del_timer, Deleted
<1>3. /\ Holds(p, "locked") /\ call' = [call EXCEPT ![p] = NoCall]
      /\ UNCHANGED <<scenario, jiffies, soft, online>>
  BY DEF del_timer
<1> QED BY <1>1, <1>2, <1>3, NoCallIsCall, DeleteStep

\* A round of del_timer_sync ends with the timer on no list and not running.
LEMMA try_to_del_timer_syncStep ==
  ASSUME LinuxInv, NEW p \in Proc, try_to_del_timer_sync(p)
  PROVE  LinuxInv' /\ Placed(W', call[p].x) /\ SameRunning(W', W)
<1> DEFINE x == call[p].x
           k == IF call[p].op = "msleep" /\ call[p].expires > jiffies
                THEN [call[p] EXCEPT !.pc = "locked", !.seen = FALSE, !.woken = FALSE] ELSE NoCall
<1>1. PICK pc \in {"locked", "del"} : Holds(p, pc) BY DEF try_to_del_timer_sync, DelLocked
<1>2. call[p] \in Calls /\ call[p].x \in Timer BY <1>1, HoldsFacts
<1>3. call' = [call EXCEPT ![p] = k] BY <1>2 DEF try_to_del_timer_sync, LinuxInv, Typed, Calls
<1>4. k \in Calls /\ Follows(k, p, x) /\ k.pc # "move"
  <2>1. CASE call[p].op = "msleep" /\ call[p].expires > jiffies
    <3>1. k \in Calls /\ k.op = "msleep" /\ k.pc = "locked" /\ k.tf = call[p].tf /\ k.x = x
      BY <1>2, <2>1 DEF Calls
    <3>2. call[p].tf[3] = FALSE BY <1>1 DEF Holds, LinuxInv, CallsStand
    <3> QED BY <2>1, <3>1, <3>2 DEF Follows
  <2>2. CASE ~(call[p].op = "msleep" /\ call[p].expires > jiffies)
    <3>1. k = NoCall /\ NoCall.pc # "move" BY <2>2 DEF NoCall
    <3> QED BY <3>1, NoCallIsCall DEF Follows
  <2> QED BY <2>1, <2>2
<1> HIDE DEF k
<1>5. W' = Deleted(W, call[p].tf[1], call[p].x) BY Zenon DEF try_to_del_timer_sync, Deleted
<1>6. UNCHANGED <<scenario, jiffies, soft, online>> BY DEF try_to_del_timer_sync
<1> QED BY <1>1, <1>3, <1>4, <1>5, <1>6, DeleteStep

\* A free timer is given its expiry.
LEMMA FreeExpiry ==
  ASSUME NEW V \in Wheels, NEW x \in Timer, Placed(V, x), NEW e \in Nat,
         NEW U, U = [V EXCEPT !.timer[x].expires = e]
  PROVE  /\ U \in Wheels /\ Placed(U, x) /\ SameRunning(U, V)
         /\ \A y \in Timer \ {x} : U.timer[y] = V.timer[y]
         /\ U.timer[x].cpu = V.timer[x].cpu /\ U.timer[x].migrating = V.timer[x].migrating
         /\ U.timer[x].pending = V.timer[x].pending
<1> DEFINE t == [V.timer[x] EXCEPT !.expires = e]
<1>1. V.timer[x] \in timer_list BY WheelFields
<1>2. /\ t \in timer_list /\ t.cpu = V.timer[x].cpu /\ t.migrating = V.timer[x].migrating
      /\ t.pending = V.timer[x].pending
  BY <1>1 DEF timer_list
<1>3. U = [V EXCEPT !.timer = [@ EXCEPT ![x] = t]] OBVIOUS
<1> HIDE DEF t
<1>4. /\ U \in Wheels /\ U.base = V.base
      /\ \A y \in Timer : U.timer[y] = IF y = x THEN t ELSE V.timer[y]
  BY <1>2, <1>3 DEF Wheels
<1>5. SameLists(U, V) /\ SameRunning(U, V) BY <1>4 DEF SameLists, SameRunning
<1>6. Placed(U, x) BY <1>4, <1>5, FreeTimerMayChange
<1> QED BY <1>2, <1>4, <1>5, <1>6

\* A free timer is marked: it is on its way to another base.
Marked(V, x) == [V EXCEPT !.timer[x].migrating = TRUE]

LEMMA MarkedFacts ==
  ASSUME NEW V \in Wheels, NEW x \in Timer, Placed(V, x), NEW U, U = Marked(V, x)
  PROVE  /\ U \in Wheels /\ Placed(U, NoTimer) /\ SameRunning(U, V)
         /\ \A y \in Timer \ {x} : U.timer[y] = V.timer[y]
         /\ U.timer[x].migrating
         /\ U.timer[x].pending = V.timer[x].pending
<1> DEFINE t == [V.timer[x] EXCEPT !.migrating = TRUE]
<1>1. V.timer[x] \in timer_list BY WheelFields
<1>2. t \in timer_list /\ t.migrating /\ t.pending = V.timer[x].pending
  BY <1>1 DEF timer_list
<1>3. U = [V EXCEPT !.timer = [@ EXCEPT ![x] = t]] BY DEF Marked
<1> HIDE DEF t
<1>4. /\ U \in Wheels /\ U.base = V.base
      /\ \A y \in Timer : U.timer[y] = IF y = x THEN t ELSE V.timer[y]
  BY <1>2, <1>3 DEF Wheels
<1>5. SameLists(U, V) /\ SameRunning(U, V) BY <1>4 DEF SameLists, SameRunning
<1>6. Placed(U, x) BY <1>4, <1>5, FreeTimerMayChange
<1>7. Placed(U, NoTimer) BY <1>2, <1>4, <1>6, FreeTimerIsPlaced
<1> QED BY <1>2, <1>4, <1>5, <1>7

\* D is the wheel with timer x, still on the same base, lifted out.
LiftedOut(D, x) ==
  /\ D \in Wheels /\ Placed(D, x) /\ SameRunning(D, W)
  /\ \A y \in Timer \ {x} : D.timer[y] = W.timer[y]
  /\ D.timer[x].cpu = W.timer[x].cpu /\ D.timer[x].migrating = W.timer[x].migrating
  /\ D.timer[x].pending = W.timer[x].pending

Added(U, V, c, x) == U = internal_add_timer(V, c, x)

\* The timer of a call is queued on the base that its flags name.
LEMMA QueuedHere ==
  ASSUME LinuxInv, NEW p \in Proc, NEW x, x = call[p].x, Holds(p, "locked"), call[p].op \in Arming,
         NEW D, LiftedOut(D, x), NEW c, c = W.timer[x].cpu, Added(W', D, c, x),
         call' = Armed(p), UNCHANGED <<scenario, jiffies, soft, online>>
  PROVE  LinuxInv'
<1>1. /\ x \in Timer /\ c \in Cpu /\ ~W.timer[x].migrating /\ call[p].pc # "move"
  BY HoldsFacts
<1>2. /\ W' \in Wheels /\ Placed(W', NoTimer) /\ SameRunning(W', D)
      /\ \A y \in Timer \ {x} : W'.timer[y] = D.timer[y]
      /\ W'.timer[x].cpu = c /\ ~W'.timer[x].migrating
  <2>1. PICK U : U = W' OBVIOUS
  <2>2. D \in Wheels /\ Placed(D, x) /\ D.timer[x].cpu = c /\ ~D.timer[x].migrating
    BY <1>1 DEF LiftedOut
  <2>3. U = internal_add_timer(D, c, x) BY <2>1 DEF Added
  <2>4. QueuedOn(U, D, c, x) BY <1>1, <2>2, <2>3, AddFacts
  <2> QED BY <2>1, <2>4 DEF QueuedOn
<1>3. PICK k : /\ k \in Calls /\ Follows(k, p, x) /\ k.pc # "move" /\ k.op # "on"
               /\ Armed(p) = [call EXCEPT ![p] = k]
  BY <1>1, ArmedFacts
<1>4. SameRunning(W', W) /\ \A y \in Timer \ {x} : W'.timer[y] = W.timer[y]
  BY <1>2 DEF LiftedOut, SameRunning
<1>5. CallGoesOn(p, x, k) BY <1>1, <1>2, <1>3, <1>4 DEF CallGoesOn
<1> QED BY <1>1, <1>2, <1>3, <1>5, CallStep

\* The timer of a call leaves for another base; no CPU runs its handler.
LEMMA LeavesBase ==
  ASSUME LinuxInv, NEW p \in Proc, NEW x, x = call[p].x, Holds(p, "locked"), call[p].op \in Arming,
         NEW D, LiftedOut(D, x), W' = Marked(D, x), \A c \in Cpu : W.base[c].running # x,
         NEW k \in Calls, Follows(k, p, x), k.pc = "move", k.op = call[p].op,
         call' = [call EXCEPT ![p] = k], UNCHANGED <<scenario, jiffies, soft, online>>
  PROVE  LinuxInv'
<1>1. x \in Timer /\ ~W.timer[x].migrating BY HoldsFacts
<1>2. /\ W' \in Wheels /\ Placed(W', NoTimer) /\ SameRunning(W', D)
      /\ \A y \in Timer \ {x} : W'.timer[y] = D.timer[y]
      /\ W'.timer[x].migrating /\ W'.timer[x].pending = D.timer[x].pending
  BY <1>1, MarkedFacts DEF LiftedOut
<1>3. /\ SameRunning(W', W) /\ \A y \in Timer \ {x} : W'.timer[y] = W.timer[y]
      /\ W'.timer[x].pending = W.timer[x].pending
  BY <1>2 DEF LiftedOut, SameRunning
<1>4. CallGoesOn(p, x, k) BY <1>1, <1>2, <1>3 DEF CallGoesOn
<1>5. k.op = "on" => ~W'.timer[x].pending
  <2>1. k.op = "on" => ~W.timer[x].pending BY OnFacts
  <2> QED BY <1>3, <2>1
<1> QED BY <1>1, <1>2, <1>3, <1>4, <1>5, CallStep

LEMMA ModRequeueStep ==
  ASSUME LinuxInv, NEW p \in Proc, NEW new \in online, ModRequeue(p, new) PROVE LinuxInv'
<1>0. PICK x : x = call[p].x OBVIOUS
<1>1. PICK c : c = call[p].tf[1] OBVIOUS
<1>2. PICK F : F = Forwarded(p) OBVIOUS
<1>3. PICK D : D = Lifted(F, c, x) OBVIOUS
<1>4. /\ x \in Timer /\ c = W.timer[x].cpu /\ c \in Cpu /\ ~W.timer[x].migrating /\ call[p] \in Calls
      /\ call[p].pc # "move" /\ Holds(p, "locked")
  BY <1>0, <1>1, HoldsFacts DEF ModRequeue
<1>5. call[p].op \in Arming /\ call[p].op # "on" BY DEF ModRequeue, Arming
<1>6. F \in Wheels /\ Placed(F, NoTimer) /\ SameRunning(F, W) /\ F.timer = W.timer
  BY <1>1, <1>2, <1>4, ForwardedFacts DEF Forwarded
<1>7. /\ D \in Wheels /\ SameRunning(D, F) /\ Placed(D, x)
      /\ \A y \in Timer \ {x} : D.timer[y] = F.timer[y]
      /\ D.timer[x].cpu = F.timer[x].cpu /\ D.timer[x].migrating = F.timer[x].migrating
      /\ D.timer[x].pending = F.timer[x].pending
  <2>1. c = F.timer[x].cpu BY <1>4, <1>6
  <2> QED BY <1>3, <1>4, <1>6, <2>1, LiftedFacts
<1>8. LiftedOut(D, x) BY <1>6, <1>7 DEF LiftedOut, SameRunning
<1>9. UNCHANGED <<scenario, jiffies, soft, online>> BY DEF ModRequeue
<1>10. CASE new # c /\ MayLeave(c, x)
  <2> DEFINE k == [call[p] EXCEPT !.pc = "move", !.to = {new}]
  <2>1. W' = Marked(D, x) /\ call' = [call EXCEPT ![p].pc = "move", ![p].to = {new}]
    BY <1>0, <1>1, <1>2, <1>3, <1>10, Zenon DEF ModRequeue, Marked, Lifted
  <2>2. new \in Cpu BY ScenariosAssumption DEF LinuxInv, Typed
  <2>3. /\ k \in Calls /\ k.pc = "move" /\ k.op = call[p].op /\ k.x = call[p].x /\ k.to = {new}
        /\ call' = [call EXCEPT ![p] = k]
    BY <1>4, <2>1, <2>2 DEF Calls, LinuxInv, Typed
  <2> HIDE DEF k
  <2>4. Follows(k, p, x) BY <1>0, <2>2, <2>3 DEF Follows
  <2>5. \A d \in Cpu : W.base[d].running # x
    BY <1>4, <1>10 DEF LinuxInv, HandlersAtHome, MayLeave
  <2> QED BY <1>0, <1>4, <1>5, <1>8, <1>9, <2>1, <2>3, <2>4, <2>5, LeavesBase
<1>11. CASE ~(new # c /\ MayLeave(c, x))
  <2>1. PICK e : e = call[p].expires OBVIOUS
  <2>2. PICK E : E = [D EXCEPT !.timer[x].expires = e] OBVIOUS
  <2>3. Added(W', E, c, x) /\ call' = Armed(p)
    BY <1>0, <1>1, <1>2, <1>3, <1>11, <2>1, <2>2, Zenon DEF ModRequeue, Lifted, Added
  <2>4. e \in Nat BY <1>4, <2>1 DEF Calls
  <2>5. /\ E \in Wheels /\ Placed(E, x) /\ SameRunning(E, D)
        /\ \A y \in Timer \ {x} : E.timer[y] = D.timer[y]
        /\ E.timer[x].cpu = D.timer[x].cpu /\ E.timer[x].migrating = D.timer[x].migrating
        /\ E.timer[x].pending = D.timer[x].pending
    BY <1>4, <1>7, <2>2, <2>4, FreeExpiry
  <2>6. LiftedOut(E, x) BY <1>8, <2>5 DEF LiftedOut, SameRunning
  <2> QED BY <1>0, <1>4, <1>5, <1>9, <2>3, <2>6, QueuedHere
<1> QED BY <1>10, <1>11

LEMMA AddOnStep == ASSUME LinuxInv, NEW p \in Proc, AddOn(p) PROVE LinuxInv'
<1>0. PICK x : x = call[p].x OBVIOUS
<1>1. PICK c : c = call[p].tf[1] OBVIOUS
<1>2. PICK e : e = call[p].expires OBVIOUS
<1>3. PICK E : E = [W EXCEPT !.timer[x].expires = e] OBVIOUS
<1>4. /\ x \in Timer /\ c = W.timer[x].cpu /\ c \in Cpu /\ ~W.timer[x].migrating /\ call[p] \in Calls
      /\ call[p].pc # "move" /\ Holds(p, "locked") /\ call[p].op = "on"
  BY <1>0, <1>1, HoldsFacts DEF AddOn
<1>5. call[p].op \in Arming BY <1>4 DEF Arming
<1>6. /\ ~W.timer[x].pending /\ W \in Wheels /\ Placed(W, NoTimer)
      /\ \A d \in Cpu : W.base[d].running # x
      /\ \E d \in Cpu : call[p].to = {d}
  BY <1>0, <1>4 DEF LinuxInv, Typed, AddOnAlone, Targets
<1>7. Placed(W, x) BY <1>4, <1>6, PlacedIsFree
<1>8. e \in Nat BY <1>2, <1>4 DEF Calls
<1>9. /\ E \in Wheels /\ Placed(E, x) /\ SameRunning(E, W)
      /\ \A y \in Timer \ {x} : E.timer[y] = W.timer[y]
      /\ E.timer[x].cpu = W.timer[x].cpu /\ E.timer[x].migrating = W.timer[x].migrating
      /\ E.timer[x].pending = W.timer[x].pending
  BY <1>3, <1>4, <1>6, <1>7, <1>8, FreeExpiry
<1>10. UNCHANGED <<scenario, jiffies, soft, online>> BY DEF AddOn
<1>11. CASE call[p].to # {c}
  <2> DEFINE k == [call[p] EXCEPT !.pc = "move"]
  <2>1. W' = Marked(E, x) /\ call' = [call EXCEPT ![p].pc = "move"]
    BY <1>0, <1>1, <1>2, <1>3, <1>11, Zenon DEF AddOn, Marked
  <2>2. /\ k \in Calls /\ k.pc = "move" /\ k.op = call[p].op /\ k.x = call[p].x /\ k.to = call[p].to
        /\ call' = [call EXCEPT ![p] = k]
    BY <1>4, <2>1 DEF Calls, LinuxInv, Typed
  <2> HIDE DEF k
  <2>3. Follows(k, p, x) BY <1>0, <1>6, <2>2 DEF Follows
  <2>4. LiftedOut(E, x) BY <1>9 DEF LiftedOut
  <2> QED BY <1>0, <1>4, <1>5, <1>6, <1>10, <2>1, <2>2, <2>3, <2>4, LeavesBase
<1>12. CASE call[p].to = {c}
  <2>1. PICK F : F = forward_timer_base(E, c, jiffies) OBVIOUS
  <2>2. Added(W', F, c, x) /\ call' = Armed(p)
    BY <1>0, <1>1, <1>2, <1>3, <1>12, <2>1, Zenon DEF AddOn, Added
  <2>3. jiffies \in Nat BY DEF LinuxInv, Typed
  <2>4. F \in Wheels /\ SameLists(F, E) /\ SameRunning(F, E) /\ F.timer = E.timer
    BY <1>4, <1>9, <2>1, <2>3, ForwardFacts
  <2>5. Placed(F, x) BY <1>9, <2>4, PlacedBySame
  <2>6. LiftedOut(F, x) BY <1>9, <2>4, <2>5 DEF LiftedOut, SameRunning
  <2> QED BY <1>0, <1>4, <1>5, <1>10, <2>2, <2>6, QueuedHere
<1> QED BY <1>11, <1>12

LEMMA MovedStep == ASSUME LinuxInv, NEW p \in Proc, Moved(p) PROVE LinuxInv'
<1>0. PICK x : x = call[p].x OBVIOUS
<1>1. PICK e : e = call[p].expires OBVIOUS
<1>2. PICK c \in Cpu : c = CHOOSE n \in call[p].to : TRUE
  BY DEF Moved, LinuxInv, Targets
<1>3. PICK F : F = forward_timer_base(W, c, jiffies) OBVIOUS
<1>4. /\ x \in Timer /\ W.timer[x].migrating /\ call[p] \in Calls /\ call[p].pc = "move"
      /\ call[p].op \in Arming /\ W \in Wheels /\ Placed(W, NoTimer) /\ jiffies \in Nat
  BY <1>0 DEF Moved, LinuxInv, Typed, CallsStand, OneMover
<1>5. e \in Nat BY <1>1, <1>4 DEF Calls
<1>6. \A d \in Cpu : W.base[d].running # x BY <1>4 DEF LinuxInv, HandlersAtHome
<1>7. F \in Wheels /\ SameLists(F, W) /\ SameRunning(F, W) /\ F.timer = W.timer
  BY <1>3, <1>4, ForwardFacts
<1>8. Placed(F, x)
  <2>1. Placed(W, x) BY <1>4, PlacedIsFree
  <2> QED BY <1>4, <1>7, <2>1, PlacedBySame
<1> DEFINE t == [F.timer[x] EXCEPT !.cpu = c, !.migrating = FALSE, !.expires = e]
<1>9. PICK U : U = [F EXCEPT !.timer[x].cpu = c, !.timer[x].migrating = FALSE, !.timer[x].expires = e]
  OBVIOUS
<1>10. F.timer[x] \in timer_list BY <1>4, <1>7, WheelFields
<1>11. t \in timer_list /\ t.cpu = c /\ ~t.migrating BY <1>5, <1>10 DEF timer_list
<1>12. U = [F EXCEPT !.timer = [@ EXCEPT ![x] = t]] BY <1>4, <1>7, <1>9 DEF Wheels
<1> HIDE DEF t
<1>13. /\ U \in Wheels /\ U.base = F.base
       /\ \A y \in Timer : U.timer[y] = IF y = x THEN t ELSE F.timer[y]
  BY <1>4, <1>7, <1>11, <1>12 DEF Wheels
<1>14. SameLists(U, F) /\ SameRunning(U, W) BY <1>7, <1>13 DEF SameLists, SameRunning
<1>15. Placed(U, x) BY <1>4, <1>7, <1>8, <1>13, <1>14, FreeTimerMayChange
<1>16. Added(W', U, c, x) /\ call' = Armed(p) /\ UNCHANGED <<scenario, jiffies, soft, online>>
  BY <1>0, <1>1, <1>2, <1>3, <1>9, Zenon DEF Moved, Added
<1>17. /\ W' \in Wheels /\ Placed(W', NoTimer) /\ SameRunning(W', U)
       /\ \A y \in Timer \ {x} : W'.timer[y] = U.timer[y]
       /\ W'.timer[x].cpu = c /\ ~W'.timer[x].migrating
  <2>1. U.timer[x].cpu = c /\ ~U.timer[x].migrating BY <1>4, <1>11, <1>13
  <2>2. PICK N : N = W' OBVIOUS
  <2>3. N = internal_add_timer(U, c, x) BY <1>16, <2>2 DEF Added
  <2>4. QueuedOn(N, U, c, x) BY <1>4, <1>13, <1>15, <2>1, <2>3, AddFacts
  <2> QED BY <2>2, <2>4 DEF QueuedOn
<1>18. SameRunning(W', W) /\ \A y \in Timer \ {x} : W'.timer[y] = W.timer[y]
  BY <1>7, <1>13, <1>14, <1>17 DEF SameRunning
<1>19. PICK k : /\ k \in Calls /\ Follows(k, p, x) /\ k.pc # "move" /\ k.op # "on"
                /\ Armed(p) = [call EXCEPT ![p] = k]
  BY <1>0, <1>4, ArmedFacts
<1>20. CallGoesOn(p, x, k) BY <1>0, <1>4, <1>16, <1>17, <1>18, <1>19 DEF CallGoesOn
<1> QED BY <1>4, <1>6, <1>17, <1>19, <1>20, CallStep

\* The record of a call that begins.
CallRecord(op, x, e, to, seen, tf, pc) ==
  [op |-> op, x |-> x, expires |-> e, pc |-> pc, tf |-> tf, seen |-> seen, to |-> to, woken |-> FALSE]

FreshCall(op, x, e, to, seen, tf, pc) ==
  [NoCall EXCEPT !.op = op, !.x = x, !.expires = e, !.to = to, !.seen = seen, !.tf = tf, !.pc = pc]

LEMMA FreshCallIsRecord ==
  ASSUME NEW x \in Timer, NEW e \in Nat, NEW to \in SUBSET Cpu,
         NEW op \in {"mod", "pending", "reduce", "on", "msleep", "del", "sync"},
         NEW seen, NEW tf \in Flags, NEW pc \in {"lock", "locked"},
         NEW k, k = FreshCall(op, x, e, to, seen, tf, pc)
  PROVE  k = CallRecord(op, x, e, to, seen, tf, pc)
BY DEF NoCall, CallRecord, FreshCall

\* A call begins.
LEMMA BeginStep ==
  ASSUME LinuxInv, NEW p \in Proc, call[p] = NoCall, NEW x \in Timer, NEW e \in Nat, NEW to \in SUBSET Cpu,
         NEW op \in {"mod", "pending", "reduce", "on", "msleep", "del", "sync"},
         call' = Called(p, op, x, e, to), UNCHANGED <<scenario, jiffies, W, soft, online>>,
         op \in Arming => \A q \in Proc : ~(call[q].x = x /\ call[q].op = "on"),
         op = "on" => /\ ~W.timer[x].pending
                      /\ \A c \in Cpu : W.base[c].running # x
                      /\ \A q \in Proc : call[q].x # x
                      /\ \E c \in Cpu : to = {c}
  PROVE  LinuxInv'
<1>1. /\ call \in [Proc -> Calls] /\ W \in Wheels BY DEF LinuxInv, Typed
<1>2. /\ W.timer[x].cpu \in Cpu /\ W.timer[x].idx \in Buckets /\ W.timer[x].migrating \in BOOLEAN
      /\ W.timer[x].pending \in BOOLEAN
  BY <1>1, WheelFields
<1>3. flags(x) \in Flags /\ (~W.timer[x].migrating => flags(x)[3] = FALSE)
  BY <1>2 DEF flags, Flags
<1>4. PICK tf \in Flags : tf = flags(x) BY <1>3
<1>5. PICK seen : seen \in BOOLEAN /\ seen = W.timer[x].pending BY <1>2
<1>6. PICK pc \in {"lock", "locked"} : pc = IF W.timer[x].migrating THEN "lock" ELSE "locked" OBVIOUS
<1>7. PICK k : k = FreshCall(op, x, e, to, seen, tf, pc) OBVIOUS
<1>8. /\ k \in Calls /\ k.op = op /\ k.x = x /\ k.to = to /\ k.tf = flags(x)
      /\ k.pc \in {"lock", "locked"} /\ (k.pc = "locked" => ~W.timer[x].migrating)
  <2>1. k = CallRecord(op, x, e, to, seen, tf, pc) BY <1>7, FreshCallIsRecord
  <2>2. k \in Calls /\ k.op = op /\ k.x = x /\ k.to = to /\ k.tf = tf /\ k.pc = pc
    <3>1. seen \in BOOLEAN BY <1>5
    <3> QED BY <2>1, <3>1 DEF CallRecord, Calls
  <2> QED BY <1>4, <1>6, <2>2
<1>9. call'[p] = k /\ (\A q \in Proc : q # p => call'[q] = call[q]) /\ call' \in [Proc -> Calls]
  <2>1. call' = [call EXCEPT ![p] = k] BY <1>4, <1>5, <1>6, <1>7, Zenon DEF Called, FreshCall
  <2> QED BY <1>1, <1>8, <2>1
<1>10. Typed' BY <1>9 DEF LinuxInv, Typed
<1>11. Placed(W, NoTimer)' /\ HandlersAtHome' BY DEF LinuxInv, HandlersAtHome
<1>12. CallsStand'
  <2> SUFFICES ASSUME NEW q \in Proc
               PROVE  /\ call'[q].pc # "none" => call'[q].x \in Timer
                      /\ call'[q].pc = "none" => call'[q].op = "none"
                      /\ call'[q].pc \in {"locked", "del"} => call'[q].tf[3] = FALSE
                      /\ call'[q].pc \in {"asleep", "del"} => call'[q].op = "msleep"
    BY DEF CallsStand
  <2>1. CASE q = p BY <1>3, <1>8, <1>9, <2>1
  <2>2. CASE q # p BY <1>9, <2>2 DEF LinuxInv, CallsStand
  <2> QED BY <2>1, <2>2
<1>13. OneMover' BY <1>8, <1>9 DEF LinuxInv, OneMover
<1>14. AddOnAlone'
  <2> SUFFICES ASSUME NEW q \in Proc, call'[q].op = "on"
               PROVE  /\ call'[q].x \in Timer
                      /\ ~W.timer[call'[q].x].pending
                      /\ \A c \in Cpu : W.base[c].running # call'[q].x
                      /\ \A r \in Proc : call'[r].x = call'[q].x /\ call'[r].op \in Arming => r = q
    BY DEF AddOnAlone
  <2>1. CASE q = p BY <1>8, <1>9, <2>1
  <2>2. CASE q # p BY <1>8, <1>9, <2>2 DEF LinuxInv, AddOnAlone
  <2> QED BY <2>1, <2>2
<1>15. Targets' BY <1>8, <1>9 DEF LinuxInv, Targets
<1> QED BY <1>10, <1>11, <1>12, <1>13, <1>14, <1>15 DEF LinuxInv

LEMMA ScenarioFacts ==
  ASSUME LinuxInv
  PROVE  /\ scenario.cpus \subseteq Cpu /\ scenario.tasks \subseteq Task /\ scenario.timers \subseteq Timer
         /\ online \subseteq Cpu /\ jiffies \in Nat
         /\ \A d \in scenario.delays \cup scenario.rearm : jiffies + d \in Nat
<1>1. /\ scenario \in Scenarios /\ jiffies \in Nat /\ online \subseteq scenario.cpus BY DEF LinuxInv, Typed
<1>2. /\ scenario.cpus \subseteq Cpu /\ scenario.tasks \subseteq Task /\ scenario.timers \subseteq Timer
      /\ scenario.delays \subseteq Nat /\ scenario.rearm \subseteq Nat
  BY <1>1, ScenariosAssumption
<1> QED BY <1>1, <1>2

LEMMA BeginModStep ==
  ASSUME LinuxInv, NEW p \in Proc, NEW op \in {"mod", "pending", "reduce"}, NEW x \in Timer, NEW e \in Nat,
         BeginMod(p, op, x, e)
  PROVE  LinuxInv'
<1>1. \A q \in Proc : ~(call[q].x = x /\ call[q].op = "on") BY DEF BeginMod, MayStart
<1>2. /\ call[p] = NoCall /\ call' = Called(p, op, x, e, {})
      /\ UNCHANGED <<scenario, jiffies, W, soft, online>>
  BY DEF BeginMod
<1> QED BY <1>1, <1>2, BeginStep

LEMMA CallOfStep == ASSUME LinuxInv, NEW p \in Task, CallOf(p) PROVE LinuxInv'
<1>0. /\ p \in Proc /\ scenario.timers \subseteq Timer /\ online \subseteq Cpu
      /\ \A d \in scenario.delays : jiffies + d \in Nat
  BY ScenarioFacts DEF Proc
<1>1. ASSUME NEW x \in scenario.timers, NEW d \in scenario.delays,
             NEW op \in scenario.ops[p] \cap {"mod", "pending", "reduce"}, BeginMod(p, op, x, jiffies + d)
      PROVE  LinuxInv'
  BY <1>0, <1>1, BeginModStep
<1>2. ASSUME NEW x \in scenario.timers, NEW d \in scenario.delays, NEW c \in online,
             BeginAddOn(p, x, jiffies + d, c)
      PROVE  LinuxInv'
  <2>1. /\ call[p] = NoCall /\ call' = Called(p, "on", x, jiffies + d, {c})
        /\ UNCHANGED <<scenario, jiffies, W, soft, online>>
        /\ ~W.timer[x].pending /\ (\A b \in Cpu : W.base[b].running # x) /\ \A q \in Proc : call[q].x # x
    BY <1>2 DEF BeginAddOn
  <2>2. x \in Timer /\ jiffies + d \in Nat /\ c \in Cpu /\ {c} \in SUBSET Cpu BY <1>0
  <2> QED BY <1>0, <2>1, <2>2, BeginStep
<1>3. ASSUME NEW x \in scenario.timers, NEW d \in scenario.delays, BeginMsleep(p, x, jiffies + d)
      PROVE  LinuxInv'
  <2>1. /\ call[p] = NoCall /\ call' = Called(p, "msleep", x, jiffies + d, {})
        /\ UNCHANGED <<scenario, jiffies, W, soft, online>>
        /\ \A q \in Proc : call[q].x # x
    BY <1>3 DEF BeginMsleep
  <2> QED BY <1>0, <2>1, BeginStep
<1>4. ASSUME NEW x \in scenario.timers, BeginDel(p, x) PROVE LinuxInv'
  <2>1. /\ call[p] = NoCall /\ call' = Called(p, "del", x, 0, {}) /\ "del" \notin Arming
        /\ UNCHANGED <<scenario, jiffies, W, soft, online>>
    BY <1>4 DEF BeginDel, Arming
  <2> QED BY <1>0, <2>1, BeginStep
<1>5. ASSUME NEW x \in scenario.timers, BeginSync(p, x) PROVE LinuxInv'
  <2>1. /\ call[p] = NoCall /\ call' = Called(p, "sync", x, 0, {}) /\ "sync" \notin Arming
        /\ UNCHANGED <<scenario, jiffies, W, soft, online>>
    BY <1>5 DEF BeginSync, Arming
  <2> QED BY <1>0, <2>1, BeginStep
<1> QED BY <1>1, <1>2, <1>3, <1>4, <1>5 DEF CallOf

LEMMA RearmStep == ASSUME LinuxInv, NEW c \in Cpu, Rearm(c) PROVE LinuxInv'
<1>1. PICK d \in scenario.rearm : BeginMod(c, "mod", W.base[c].running, jiffies + d) BY DEF Rearm
<1>2. W.base[c].running \in Timer BY DEF Rearm, LinuxInv, HandlersAtHome
<1>3. jiffies + d \in Nat /\ c \in Proc BY ScenarioFacts DEF Proc
<1> QED BY <1>1, <1>2, <1>3, BeginModStep

LEMMA ContinueStep == ASSUME LinuxInv, NEW p \in Proc, Continue(p) PROVE LinuxInv'
BY RereadStep, ModKeepsExpiryStep, ModInBucketStep, ModNotPendingStep, ModRequeueStep, AddOnStep,
   MovedStep, del_timerStep, WokenStep, try_to_del_timer_syncStep
   DEF Continue

(***************************************************************************)
(* Steps of the CPUs.                                                       *)
(***************************************************************************)
\* A step that leaves lists, timers and calls as they are.
LEMMA QuietStep ==
  ASSUME LinuxInv, W' \in Wheels, Placed(W', NoTimer), SameRunning(W', W), W'.timer = W.timer,
         UNCHANGED <<scenario, soft, call>>, jiffies' \in Nat, online' \subseteq scenario.cpus,
         \A c \in Cpu : c \notin online' => soft[c] = "idle"
  PROVE  LinuxInv'
<1>1. Typed' BY DEF LinuxInv, Typed
<1>2. HandlersAtHome' BY DEF LinuxInv, HandlersAtHome, SameRunning
<1>3. CallsStay BY DEF CallsStay, LinuxInv, Typed
<1>4. CallsStand' /\ OneMover' /\ AddOnAlone' /\ Targets' BY <1>3, WheelStep DEF SameRunning
<1>5. Placed(W, NoTimer)' OBVIOUS
<1> QED BY <1>1, <1>2, <1>4, <1>5 DEF LinuxInv

\* A step that only changes the clock and the idle state of a base.
LEMMA BaseStep ==
  ASSUME LinuxInv, NEW c \in Cpu, NEW b \in timer_base,
         b.vectors = W.base[c].vectors, b.heads = W.base[c].heads,
         b.pending_map = W.base[c].pending_map, b.running = W.base[c].running,
         W'.base = [W.base EXCEPT ![c] = b], W'.timer = W.timer, W' \in Wheels,
         UNCHANGED <<scenario, soft, call, jiffies>>, online' \subseteq scenario.cpus,
         \A d \in Cpu : d \notin online' => soft[d] = "idle"
  PROVE  LinuxInv'
<1>1. W \in Wheels /\ Placed(W, NoTimer) /\ jiffies \in Nat BY DEF LinuxInv, Typed
<1>2. \A d \in Cpu : W'.base[d] = IF d = c THEN b ELSE W.base[d] BY <1>1 DEF Wheels
<1>3. SameLists(W', W) /\ SameRunning(W', W) BY <1>2 DEF SameLists, SameRunning
<1>4. Placed(W', NoTimer) BY <1>1, <1>3, PlacedBySame
<1> QED BY <1>1, <1>3, <1>4, QuietStep

LEMMA TickStep == ASSUME LinuxInv, Tick PROVE LinuxInv'
<1>1. /\ W \in Wheels /\ Placed(W, NoTimer) /\ jiffies' \in Nat
      /\ UNCHANGED <<scenario, soft, call, W, online>> /\ online \subseteq scenario.cpus
      /\ \A c \in Cpu : c \notin online => soft[c] = "idle"
  BY DEF LinuxInv, Typed, Tick, HandlersAtHome
<1>2. SameRunning(W', W) BY <1>1 DEF SameRunning
<1> QED BY <1>1, <1>2, QuietStep

LEMMA CpuOfflineStep == ASSUME LinuxInv, NEW c \in Cpu, CpuOffline(c) PROVE LinuxInv'
<1>1. /\ W \in Wheels /\ Placed(W, NoTimer) /\ jiffies \in Nat /\ jiffies' = jiffies
      /\ UNCHANGED <<scenario, soft, call, W>> /\ online' \subseteq scenario.cpus
      /\ \A d \in Cpu : d \notin online' => soft[d] = "idle"
  BY DEF LinuxInv, Typed, CpuOffline, HandlersAtHome
<1>2. SameRunning(W', W) BY <1>1 DEF SameRunning
<1> QED BY <1>1, <1>2, QuietStep

LEMMA InterruptFacts ==
  ASSUME NEW b \in timer_base, NEW j \in Nat, NEW a, a = get_next_timer_interrupt(b, j)
  PROVE  /\ a \in timer_base /\ a.vectors = b.vectors /\ a.heads = b.heads
         /\ a.pending_map = b.pending_map /\ a.running = b.running
<1>1. PICK n \in Nat : n = __next_timer_interrupt(b) BY NextInterruptIsNat
<1> DEFINE stop == n > j + 1
<1>2. stop \in BOOLEAN OBVIOUS
<1> HIDE DEF stop
<1>3. b.clk \in Nat BY DEF timer_base
<1>4. PICK k \in Nat : k = IF j <= b.clk THEN b.clk ELSE IF n > j THEN j ELSE Max({n, b.clk})
  <2>1. Max({n, b.clk}) \in Nat BY <1>3 DEF Max
  <2> QED BY <1>3, <2>1
<1>5. PICK idle \in BOOLEAN : idle = IF n <= j THEN FALSE ELSE b.is_idle \/ stop
  BY <1>2 DEF timer_base
<1>6. PICK must \in BOOLEAN : must = (b.must_forward_clk \/ stop) BY <1>2 DEF timer_base
<1>7. a = [b EXCEPT !.next_expiry = n, !.clk = k, !.is_idle = idle, !.must_forward_clk = must]
  BY <1>1, <1>4, <1>5, <1>6 DEF get_next_timer_interrupt, stop
<1> QED BY <1>7 DEF timer_base

LEMMA GoIdleStep == ASSUME LinuxInv, NEW c \in Cpu, GoIdle(c) PROVE LinuxInv'
<1>1. /\ W \in Wheels /\ Placed(W, NoTimer) /\ jiffies \in Nat
      /\ UNCHANGED <<scenario, soft, call, jiffies>> /\ online' = online /\ online' \subseteq scenario.cpus
      /\ \A d \in Cpu : d \notin online' => soft[d] = "idle"
  BY DEF LinuxInv, Typed, GoIdle, HandlersAtHome
<1>2. PICK b : b = get_next_timer_interrupt(W.base[c], jiffies) OBVIOUS
<1>3. W.base[c] \in timer_base BY <1>1, WheelFields
<1>4. /\ b \in timer_base /\ b.vectors = W.base[c].vectors /\ b.heads = W.base[c].heads
      /\ b.pending_map = W.base[c].pending_map /\ b.running = W.base[c].running
  BY <1>1, <1>2, <1>3, InterruptFacts
<1>5. W' = [W EXCEPT !.base[c] = b] BY <1>2 DEF GoIdle
<1>6. W'.base = [W.base EXCEPT ![c] = b] /\ W'.timer = W.timer /\ W' \in Wheels
  BY <1>1, <1>4, <1>5 DEF Wheels
<1> QED BY <1>1, <1>4, <1>6, BaseStep

LEMMA timer_clear_idleStep == ASSUME LinuxInv, NEW c \in Cpu, timer_clear_idle(c) PROVE LinuxInv'
<1>1. /\ W \in Wheels /\ Placed(W, NoTimer) /\ jiffies \in Nat
      /\ UNCHANGED <<scenario, soft, call, jiffies>> /\ online' = online /\ online' \subseteq scenario.cpus
      /\ \A d \in Cpu : d \notin online' => soft[d] = "idle"
  BY DEF LinuxInv, Typed, timer_clear_idle, HandlersAtHome
<1>2. W.base[c] \in timer_base BY <1>1, WheelFields
<1>3. PICK b : b = [W.base[c] EXCEPT !.is_idle = FALSE] OBVIOUS
<1>4. /\ b \in timer_base /\ b.vectors = W.base[c].vectors /\ b.heads = W.base[c].heads
      /\ b.pending_map = W.base[c].pending_map /\ b.running = W.base[c].running
  BY <1>2, <1>3 DEF timer_base
<1>5. W' = [W EXCEPT !.base = [@ EXCEPT ![c] = b], !.kick = @ \ {c}] BY <1>3 DEF timer_clear_idle
<1>6. W'.base = [W.base EXCEPT ![c] = b] /\ W'.timer = W.timer /\ W' \in Wheels
  BY <1>1, <1>4, <1>5 DEF Wheels
<1> QED BY <1>1, <1>4, <1>6, BaseStep

LEMMA timers_prepareStep == ASSUME LinuxInv, NEW c \in Cpu, timers_prepare(c) PROVE LinuxInv'
<1>1. /\ W \in Wheels /\ Placed(W, NoTimer) /\ jiffies \in Nat
      /\ UNCHANGED <<scenario, soft, call, jiffies>> /\ online' \subseteq scenario.cpus
      /\ \A d \in Cpu : d \notin online' => soft[d] = "idle"
  BY DEF LinuxInv, Typed, timers_prepare, HandlersAtHome
<1>2. W.base[c] \in timer_base BY <1>1, WheelFields
<1>3. PICK b : b = timers_prepare_cpu(W.base[c], jiffies) OBVIOUS
<1>4. /\ b \in timer_base /\ b.vectors = W.base[c].vectors /\ b.heads = W.base[c].heads
      /\ b.pending_map = W.base[c].pending_map /\ b.running = W.base[c].running
  <2>1. PICK k \in Nat : k = jiffies + NEXT_TIMER_MAX_DELTA BY <1>1, LinuxWheelAssumption
  <2>2. b = [W.base[c] EXCEPT !.clk = jiffies, !.next_expiry = k, !.is_idle = FALSE, !.must_forward_clk = TRUE]
    BY <1>3, <2>1 DEF timers_prepare_cpu
  <2> QED BY <1>1, <1>2, <2>2 DEF timer_base
<1>5. W' = [W EXCEPT !.base = [@ EXCEPT ![c] = b]] BY <1>3 DEF timers_prepare
<1>6. W'.base = [W.base EXCEPT ![c] = b] /\ W'.timer = W.timer /\ W' \in Wheels
  BY <1>1, <1>4, <1>5 DEF Wheels
<1> QED BY <1>1, <1>4, <1>6, BaseStep

\* The highest of some levels is one of them.
LEMMA MaxIsMember == ASSUME NEW S, S \subseteq Lvls, S # {} PROVE Max(S) \in S
<1>0. LVL_DEPTH \in Nat BY Sizes
<1> DEFINE T == {n \in Nat : \E l \in S : n = LVL_DEPTH - l}
<1>1. T # {} /\ T \subseteq Nat
  <2>1. PICK l \in S : TRUE OBVIOUS
  <2>2. LVL_DEPTH - l \in Nat BY <1>0, <2>1 DEF Lvls
  <2> QED BY <2>1, <2>2
<1>2. PICK n \in T : \A m \in T : n <= m
  <2> HIDE DEF T
  <2> QED BY <1>1, NatLeast
<1>3. PICK l \in S : n = LVL_DEPTH - l BY <1>2
<1>4. ASSUME NEW m \in S PROVE l >= m
  <2>1. LVL_DEPTH - m \in T BY <1>0 DEF Lvls
  <2>2. n <= LVL_DEPTH - m BY <1>2, <2>1
  <2> QED BY <1>0, <1>3, <2>2 DEF Lvls
<1> QED BY <1>4 DEF Max

\* The timer at the head of a list of timers.
LEMMA HeadIsListed == ASSUME NEW q \in Seq(Timer), q # <<>> PROVE Head(q) \in ToSet(q) /\ Head(q) \in Timer
BY DEF ToSet

\* The next timer to expire is pending, and this CPU's.
LEMMA NextHeadFacts ==
  ASSUME NEW V \in Wheels, Placed(V, NoTimer), NEW c \in Cpu, V.base[c].heads # NoHeads,
         NEW x, x = NextHead(V.base[c])
  PROVE  x \in Timer /\ V.timer[x].pending /\ ~V.timer[x].migrating /\ V.timer[x].cpu = c
<1> DEFINE S == {l \in Lvls : V.base[c].heads[l] # <<>>}
<1>1. V.base[c].heads \in [Lvls -> Seq(Timer)] BY DEF Wheels, timer_base
<1>2. S # {} BY <1>1 DEF NoHeads
<1>3. PICK m \in S : m = Max(S)
  <2>1. S \subseteq Lvls OBVIOUS
  <2> HIDE DEF S
  <2> QED BY <1>2, <2>1, MaxIsMember
<1>4. x = Head(V.base[c].heads[m]) BY <1>3 DEF NextHead
<1>5. x \in ToSet(V.base[c].heads[m]) /\ x \in Timer BY <1>1, <1>4, HeadIsListed
<1> QED BY <1>5 DEF Placed, InHeads

\* A timer whose handler is to run: off the lists and no longer pending.
Expired(V, c, x) == detach_timer(V, c, x, TRUE)

LEMMA ExpiredFacts ==
  ASSUME NEW V \in Wheels, Placed(V, NoTimer), NEW c \in Cpu, NEW x \in Timer, c = V.timer[x].cpu,
         NEW U, U = Expired(V, c, x)
  PROVE  /\ U \in Wheels /\ SameRunning(U, V) /\ Placed(U, NoTimer)
         /\ \A y \in Timer \ {x} : U.timer[y] = V.timer[y]
         /\ U.timer[x].cpu = V.timer[x].cpu /\ U.timer[x].migrating = V.timer[x].migrating
         /\ ~U.timer[x].pending
<1>1. PICK clear \in BOOLEAN : clear /\ U = detach_timer(V, c, x, clear) BY Zenon DEF Expired
<1>2. U = detach_timer(V, c, x, clear) BY <1>1, Zenon
<1>3. Once(V) BY DEF Placed
<1>4. /\ U \in Wheels /\ SameRunning(U, V) /\ Detached(U, V, c, x)
      /\ U.timer[x].pending = (V.timer[x].pending /\ ~clear)
  BY <1>2, <1>3, DetachTimerFacts
<1>5. ~U.timer[x].pending BY <1>1, <1>4
<1>6. Placed(U, x) BY <1>4, DetachedIsFree
<1>7. Placed(U, NoTimer) BY <1>4, <1>5, <1>6, FreeTimerIsPlaced
<1> QED BY <1>4, <1>5, <1>7 DEF Detached

\* The running timer of a base is set or cleared.
WithRunning(V, c, r) == [V EXCEPT !.base[c].running = r]

LEMMA RunningFacts ==
  ASSUME NEW V \in Wheels, Placed(V, NoTimer), NEW c \in Cpu, NEW r \in Timer \cup {NoTimer},
         NEW U, U = WithRunning(V, c, r)
  PROVE  /\ U \in Wheels /\ Placed(U, NoTimer) /\ U.timer = V.timer
         /\ \A d \in Cpu : U.base[d].running = IF d = c THEN r ELSE V.base[d].running
<1> DEFINE b == [V.base[c] EXCEPT !.running = r]
<1>1. V.base[c] \in timer_base BY WheelFields
<1>2. /\ b \in timer_base /\ b.vectors = V.base[c].vectors /\ b.heads = V.base[c].heads
      /\ b.pending_map = V.base[c].pending_map /\ b.running = r
  BY <1>1 DEF timer_base
<1>3. U = [V EXCEPT !.base = [@ EXCEPT ![c] = b]] BY DEF WithRunning
<1> HIDE DEF b
<1>4. U \in Wheels /\ U.timer = V.timer /\ \A d \in Cpu : U.base[d] = IF d = c THEN b ELSE V.base[d]
  BY <1>2, <1>3 DEF Wheels
<1>5. SameLists(U, V) BY <1>2, <1>4 DEF SameLists
<1>6. Placed(U, NoTimer) BY <1>4, <1>5, PlacedBySame
<1> QED BY <1>2, <1>4, <1>6

LEMMA HandlerReturnsStep == ASSUME LinuxInv, NEW c \in Cpu, HandlerReturns(c) PROVE LinuxInv'
<1>1. /\ W \in Wheels /\ Placed(W, NoTimer) /\ NoTimer \notin Timer /\ soft[c] = "fn"
      /\ soft \in [Cpu -> {"idle", "fn", "relock"}] /\ HandlersAtHome
      /\ W' = WithRunning(W, c, NoTimer) /\ soft' = [soft EXCEPT ![c] = "relock"]
      /\ UNCHANGED <<scenario, jiffies, call, online>>
  BY LinuxWheelAssumption DEF LinuxInv, Typed, HandlerReturns, WithRunning
<1>2. /\ W' \in Wheels /\ Placed(W', NoTimer) /\ W'.timer = W.timer
      /\ \A d \in Cpu : W'.base[d].running = IF d = c THEN NoTimer ELSE W.base[d].running
  BY <1>1, RunningFacts
<1>3. Typed' BY <1>1, <1>2 DEF LinuxInv, Typed
<1>4. HandlersAtHome' BY <1>1, <1>2 DEF HandlersAtHome
<1>5. CallsStay BY <1>1 DEF CallsStay, LinuxInv, Typed
<1>6. CallsStand' /\ OneMover' /\ AddOnAlone' /\ Targets' BY <1>1, <1>2, <1>5, WheelStep
<1>7. Placed(W, NoTimer)' BY <1>2
<1> QED BY <1>3, <1>4, <1>6, <1>7 DEF LinuxInv

\* __run_timers, from a base on which no handler runs.
LEMMA __run_timersStep ==
  ASSUME LinuxInv, NEW c \in Cpu, c \in online, W.base[c].running = NoTimer,
         NEW base, Fits(W, c, base), __run_timers(c, base), UNCHANGED <<scenario, jiffies, online>>
  PROVE  LinuxInv'
<1>0. /\ W \in Wheels /\ Placed(W, NoTimer) /\ jiffies \in Nat /\ NoTimer \notin Timer
      /\ soft \in [Cpu -> {"idle", "fn", "relock"}] /\ call \in [Proc -> Calls] /\ HandlersAtHome
  BY LinuxWheelAssumption DEF LinuxInv, Typed
<1>1. PICK b : b = Collected(base, jiffies) OBVIOUS
<1>2. Fits(W, c, b) BY <1>0, <1>1, CollectedFits
<1>3. PICK V : V = [W EXCEPT !.base[c] = b] OBVIOUS
<1>4. /\ V \in Wheels /\ V.timer = W.timer /\ Placed(V, NoTimer)
      /\ \A d \in Cpu : V.base[d] = IF d = c THEN b ELSE W.base[d]
  <2>1. Placed(V, NoTimer) BY <1>2, <1>3 DEF Fits
  <2>2. b \in timer_base BY <1>2 DEF Fits
  <2> QED BY <1>0, <1>3, <2>1, <2>2 DEF Wheels
<1>5. SameRunning(V, W) BY <1>2, <1>4 DEF Fits, SameRunning
<1>6. CASE V.base[c].heads = NoHeads
  <2>1. W' = V /\ soft' = [soft EXCEPT ![c] = "idle"] /\ call' = call
    BY <1>1, <1>3, <1>6 DEF __run_timers
  <2>2. Typed' BY <1>0, <1>4, <2>1 DEF LinuxInv, Typed
  <2>3. HandlersAtHome' BY <1>0, <1>4, <1>5, <2>1 DEF HandlersAtHome, SameRunning
  <2>4. CallsStay BY <1>0, <2>1 DEF CallsStay
  <2>5. CallsStand' /\ OneMover' /\ AddOnAlone' /\ Targets'
    BY <1>4, <1>5, <2>1, <2>4, WheelStep DEF SameRunning
  <2>6. Placed(W, NoTimer)' BY <1>4, <2>1
  <2> QED BY <2>2, <2>3, <2>5, <2>6 DEF LinuxInv
<1>7. CASE V.base[c].heads # NoHeads
  <2>1. PICK x : x = NextHead(V.base[c]) OBVIOUS
  <2>2. PICK D : D = Expired(V, c, x) OBVIOUS
  <2>3. W' = WithRunning(D, c, x) /\ soft' = [soft EXCEPT ![c] = "fn"]
    BY <1>1, <1>3, <1>7, <2>1, <2>2, Zenon DEF __run_timers, Expired, WithRunning
  <2>4. x \in Timer /\ V.timer[x].pending /\ ~V.timer[x].migrating /\ V.timer[x].cpu = c
    BY <1>4, <1>7, <2>1, NextHeadFacts
  <2>5. /\ D \in Wheels /\ SameRunning(D, V) /\ Placed(D, NoTimer)
        /\ \A y \in Timer \ {x} : D.timer[y] = V.timer[y]
        /\ D.timer[x].cpu = V.timer[x].cpu /\ D.timer[x].migrating = V.timer[x].migrating
        /\ ~D.timer[x].pending
    BY <1>4, <2>2, <2>4, ExpiredFacts
  <2>6. /\ W' \in Wheels /\ Placed(W', NoTimer) /\ W'.timer = D.timer
        /\ \A d \in Cpu : W'.base[d].running = IF d = c THEN x ELSE D.base[d].running
    BY <2>3, <2>4, <2>5, RunningFacts
  <2>7. CallsStay
    <3>1. call' = [p \in Proc |->
                    [call[p] EXCEPT !.woken = @ \/ (call[p].op = "msleep" /\ call[p].x = x)]]
      BY <1>1, <1>3, <1>7, <2>1 DEF __run_timers
    <3> SUFFICES ASSUME NEW p \in Proc
                 PROVE  /\ call'[p] \in Calls
                        /\ call'[p].op = call[p].op /\ call'[p].x = call[p].x /\ call'[p].pc = call[p].pc
                        /\ call'[p].tf = call[p].tf /\ call'[p].to = call[p].to
      BY <3>1 DEF CallsStay
    <3>2. PICK w \in BOOLEAN : w = (call[p].woken \/ (call[p].op = "msleep" /\ call[p].x = x))
      BY <1>0 DEF Calls
    <3>3. call'[p] = [call[p] EXCEPT !.woken = w] BY <3>1, <3>2
    <3> QED BY <1>0, <3>3 DEF Calls
  <2>8. Typed' BY <1>0, <2>3, <2>6, <2>7 DEF LinuxInv, Typed, CallsStay
  <2>9. HandlersAtHome'
    <3>1. soft'[c] = "fn" /\ (\A d \in Cpu : d # c => soft'[d] = soft[d]) /\ online' = online
      BY <1>0, <2>3
    <3>2. W'.base[c].running = x /\ W'.timer[x].cpu = c /\ ~W'.timer[x].migrating
      BY <2>4, <2>5, <2>6
    <3>3. ASSUME NEW d \in Cpu, d # c
          PROVE  /\ W'.base[d].running = W.base[d].running
                 /\ W.base[d].running \in Timer =>
                      W'.timer[W.base[d].running] = W.timer[W.base[d].running]
      <4>1. W'.base[d].running = W.base[d].running
        BY <1>5, <2>5, <2>6, <3>3 DEF SameRunning
      <4>2. ASSUME W.base[d].running \in Timer
            PROVE  W'.timer[W.base[d].running] = W.timer[W.base[d].running]
        <5>1. W.timer[W.base[d].running].cpu = d BY <1>0, <4>2 DEF HandlersAtHome
        <5>2. W.base[d].running # x BY <1>4, <2>4, <3>3, <5>1
        <5> QED BY <1>4, <2>5, <2>6, <4>2, <5>2
      <4> QED BY <4>1, <4>2
    <3> SUFFICES ASSUME NEW d \in Cpu
                 PROVE  /\ W'.base[d].running \in Timer =>
                             /\ soft'[d] = "fn"
                             /\ W'.timer[W'.base[d].running].cpu = d
                             /\ ~W'.timer[W'.base[d].running].migrating
                        /\ soft'[d] = "fn" => W'.base[d].running \in Timer
                        /\ d \notin online' => soft'[d] = "idle"
      BY DEF HandlersAtHome
    <3>4. CASE d = c BY <2>4, <3>1, <3>2, <3>4
    <3>5. CASE d # c BY <1>0, <3>1, <3>3, <3>5 DEF HandlersAtHome
    <3> QED BY <3>4, <3>5
  <2>10. CallsStand' /\ OneMover' /\ AddOnAlone' /\ Targets'
    <3>1. \A y \in Timer : /\ W'.timer[y].migrating = W.timer[y].migrating
                           /\ W'.timer[y].pending => W.timer[y].pending
      BY <1>4, <2>4, <2>5, <2>6
    <3>2. \A d \in Cpu : \A y \in Timer :
            W'.base[d].running = y => W.base[d].running = y \/ W.timer[y].pending
      BY <1>4, <1>5, <2>4, <2>5, <2>6 DEF SameRunning
    <3> QED BY <2>7, <3>1, <3>2, WheelStep
  <2>11. Placed(W, NoTimer)' BY <2>6
  <2> QED BY <2>8, <2>9, <2>10, <2>11 DEF LinuxInv
<1> QED BY <1>6, <1>7

LEMMA run_timer_softirqStep == ASSUME LinuxInv, NEW c \in Cpu, run_timer_softirq(c) PROVE LinuxInv'
<1>1. /\ W \in Wheels /\ Placed(W, NoTimer) /\ W.base[c].running = NoTimer /\ W.base[c] \in timer_base
  BY WheelFields DEF LinuxInv, Typed, run_timer_softirq, HandlersAtHome
<1>2. PICK base : base = [W.base[c] EXCEPT !.must_forward_clk = FALSE] OBVIOUS
<1>3. /\ base \in timer_base /\ base.vectors = W.base[c].vectors /\ base.heads = W.base[c].heads
      /\ base.pending_map = W.base[c].pending_map /\ base.running = W.base[c].running
  BY <1>1, <1>2 DEF timer_base
<1>4. Fits(W, c, W.base[c]) BY <1>1 DEF Fits, Wheels
<1>5. Fits(W, c, base) BY <1>1, <1>3, <1>4, OtherFieldsFit
<1> QED BY <1>1, <1>2, <1>5, __run_timersStep DEF run_timer_softirq

LEMMA RelockStep == ASSUME LinuxInv, NEW c \in Cpu, Relock(c) PROVE LinuxInv'
<1>1. /\ W \in Wheels /\ Placed(W, NoTimer) /\ W.base[c].running = NoTimer /\ W.base[c] \in timer_base
      /\ c \in online
  BY WheelFields DEF LinuxInv, Typed, Relock, HandlersAtHome
<1>2. Fits(W, c, W.base[c]) BY <1>1 DEF Fits, Wheels
<1> QED BY <1>1, <1>2, __run_timersStep DEF Relock

\* detach_timer in migrate_timer_list: off the list, still pending.
Unlinked(V, c, x) == detach_timer(V, c, x, FALSE)

LEMMA UnlinkedFacts ==
  ASSUME NEW V \in Wheels, Placed(V, NoTimer), NEW c \in Cpu, NEW x \in Timer, c = V.timer[x].cpu,
         NEW U, U = Unlinked(V, c, x)
  PROVE  /\ U \in Wheels /\ SameRunning(U, V) /\ Placed(U, x)
         /\ \A y \in Timer \ {x} : U.timer[y] = V.timer[y]
         /\ U.timer[x].migrating = V.timer[x].migrating
<1>1. PICK clear \in BOOLEAN : ~clear /\ U = detach_timer(V, c, x, clear) BY Zenon DEF Unlinked
<1>2. U = detach_timer(V, c, x, clear) BY <1>1, Zenon
<1>3. Once(V) BY DEF Placed
<1>4. U \in Wheels /\ SameRunning(U, V) /\ Detached(U, V, c, x) BY <1>2, <1>3, DetachTimerFacts
<1>5. Placed(U, x) BY <1>4, DetachedIsFree
<1> QED BY <1>4, <1>5 DEF Detached

\* A free timer is given to another CPU.
GivenTo(V, x, new) == [V EXCEPT !.timer[x].cpu = new]

LEMMA GivenToFacts ==
  ASSUME NEW V \in Wheels, NEW x \in Timer, Placed(V, x), NEW new \in Cpu, NEW U, U = GivenTo(V, x, new)
  PROVE  /\ U \in Wheels /\ SameRunning(U, V) /\ Placed(U, x)
         /\ \A y \in Timer \ {x} : U.timer[y] = V.timer[y]
         /\ U.timer[x].cpu = new /\ U.timer[x].migrating = V.timer[x].migrating
<1> DEFINE t == [V.timer[x] EXCEPT !.cpu = new]
<1>1. V.timer[x] \in timer_list BY WheelFields
<1>2. t \in timer_list /\ t.cpu = new /\ t.migrating = V.timer[x].migrating BY <1>1 DEF timer_list
<1>3. U = [V EXCEPT !.timer = [@ EXCEPT ![x] = t]] BY DEF GivenTo
<1> HIDE DEF t
<1>4. /\ U \in Wheels /\ U.base = V.base
      /\ \A y \in Timer : U.timer[y] = IF y = x THEN t ELSE V.timer[y]
  BY <1>2, <1>3 DEF Wheels
<1>5. SameLists(U, V) /\ SameRunning(U, V) BY <1>4 DEF SameLists, SameRunning
<1>6. Placed(U, x) BY <1>4, <1>5, FreeTimerMayChange
<1> QED BY <1>2, <1>4, <1>5, <1>6

\* V is what the migration of the timers of CPU old has made of the wheel U:
\* only timers of old have moved, and none of them was running or moving.
Migrated(V, U, old) ==
  /\ V \in Wheels /\ Placed(V, NoTimer) /\ SameRunning(V, U)
  /\ \A x \in Timer : /\ V.timer[x].migrating = U.timer[x].migrating
                      /\ V.timer[x].pending => U.timer[x].pending
                      /\ U.timer[x].cpu # old => V.timer[x].cpu = U.timer[x].cpu

LEMMA MigrateTurn ==
  ASSUME NEW U \in Wheels, NEW old \in Cpu, NEW new \in Cpu, NEW V, Migrated(V, U, old)
  PROVE  Migrated(migrate_timer_list(old, new)[V], U, old)
<1>0. V \in Wheels /\ Placed(V, NoTimer) BY DEF Migrated
<1> DEFINE full == {i \in Buckets : V.base[old].vectors[i] # <<>>}
<1>1. CASE full = {}
  <2>1. migrate_timer_list(old, new)[V] = V BY <1>0, <1>1, Zenon DEF migrate_timer_list
  <2> QED BY <2>1
<1>2. CASE full # {}
  <2>1. PICK i \in full : i = Min(full)
    <3>1. full \subseteq Nat BY Sizes DEF Buckets, WHEEL_SIZE
    <3> HIDE DEF full
    <3> QED BY <1>2, <3>1, MinIsMember
  <2>2. PICK x : x = Head(V.base[old].vectors[i]) OBVIOUS
  <2>3. PICK D : D = Unlinked(V, old, x) OBVIOUS
  <2>4. PICK E : E = GivenTo(D, x, new) OBVIOUS
  <2>5. PICK N : N = internal_add_timer(E, new, x) OBVIOUS
  <2>6. migrate_timer_list(old, new)[V] = N
    BY <1>0, <1>2, <2>1, <2>2, <2>3, <2>4, <2>5, Zenon DEF migrate_timer_list, Unlinked, GivenTo
  <2>7. i \in Buckets /\ V.base[old].vectors[i] \in Seq(Timer) /\ V.base[old].vectors[i] # <<>>
    BY <1>0, <2>1, WheelFields
  <2>8. x \in Timer /\ x \in ToSet(V.base[old].vectors[i]) BY <2>2, <2>7, HeadIsListed
  <2>9. V.timer[x].pending /\ ~V.timer[x].migrating /\ V.timer[x].cpu = old
    BY <1>0, <2>7, <2>8 DEF Placed, InVectors
  <2>10. /\ D \in Wheels /\ SameRunning(D, V) /\ Placed(D, x)
         /\ \A y \in Timer \ {x} : D.timer[y] = V.timer[y]
         /\ D.timer[x].migrating = V.timer[x].migrating
    BY <1>0, <2>3, <2>8, <2>9, UnlinkedFacts
  <2>11. /\ E \in Wheels /\ SameRunning(E, D) /\ Placed(E, x)
         /\ \A y \in Timer \ {x} : E.timer[y] = D.timer[y]
         /\ E.timer[x].cpu = new /\ E.timer[x].migrating = D.timer[x].migrating
    BY <2>4, <2>8, <2>10, GivenToFacts
  <2>12. /\ N \in Wheels /\ Placed(N, NoTimer) /\ SameRunning(N, E)
         /\ \A y \in Timer \ {x} : N.timer[y] = E.timer[y]
         /\ ~N.timer[x].migrating
    <3>1. E.timer[x].cpu = new /\ ~E.timer[x].migrating BY <2>9, <2>10, <2>11
    <3>2. QueuedOn(N, E, new, x) BY <2>5, <2>8, <2>11, <3>1, AddFacts
    <3> QED BY <3>2 DEF QueuedOn
  <2>13. SameRunning(N, U) BY <2>10, <2>11, <2>12 DEF Migrated, SameRunning
  <2>14. ASSUME NEW y \in Timer
         PROVE  /\ N.timer[y].migrating = U.timer[y].migrating
                /\ N.timer[y].pending => U.timer[y].pending
                /\ U.timer[y].cpu # old => N.timer[y].cpu = U.timer[y].cpu
    <3>1. CASE y # x
      <4>1. N.timer[y] = V.timer[y] BY <2>10, <2>11, <2>12, <3>1
      <4> QED BY <4>1 DEF Migrated
    <3>2. CASE y = x
      <4>1. N.timer[x].migrating \in BOOLEAN /\ U.timer[x].migrating \in BOOLEAN
        BY <2>8, <2>12, WheelFields
      <4>2. U.timer[x].pending /\ ~U.timer[x].migrating /\ U.timer[x].cpu = old
        BY <2>8, <2>9 DEF Migrated
      <4> QED BY <2>12, <3>2, <4>1, <4>2
    <3> QED BY <3>1, <3>2
  <2>15. Migrated(N, U, old) BY <2>12, <2>13, <2>14 DEF Migrated
  <2> QED BY <2>6, <2>15
<1> QED BY <1>1, <1>2

LEMMA DeadCpuFacts ==
  ASSUME NEW V \in Wheels, Placed(V, NoTimer), NEW old \in Cpu, NEW new \in Cpu, NEW j \in Nat
  PROVE  Migrated(timers_dead_cpu(V, old, new, j), V, old)
<1> DEFINE P == {U \in Wheels : Migrated(U, V, old)}
<1>1. PICK F : F = forward_timer_base(V, new, j) OBVIOUS
<1>2. F \in Wheels /\ SameLists(F, V) /\ SameRunning(F, V) /\ F.timer = V.timer BY <1>1, ForwardFacts
<1>3. Placed(F, NoTimer) BY <1>2, PlacedBySame
<1>4. F \in P BY <1>2, <1>3 DEF Migrated
<1>5. \A U \in P : migrate_timer_list(old, new)[U] \in P
  <2> SUFFICES ASSUME NEW U \in P PROVE migrate_timer_list(old, new)[U] \in P OBVIOUS
  <2>1. Migrated(migrate_timer_list(old, new)[U], V, old) BY MigrateTurn
  <2> QED BY <2>1 DEF Migrated
<1>6. Cardinality(Timer) \in Nat BY LinuxWheelAssumption, FS_CardinalityType
<1> HIDE DEF P
<1>7. Iterate(migrate_timer_list(old, new), F, Cardinality(Timer)) \in P
  BY <1>4, <1>5, <1>6, Iterates
<1> QED BY <1>1, <1>7 DEF timers_dead_cpu, P

LEMMA timers_deadStep ==
  ASSUME LinuxInv, NEW c \in Cpu, NEW new \in online, timers_dead(c, new) PROVE LinuxInv'
<1>1. /\ W \in Wheels /\ Placed(W, NoTimer) /\ jiffies \in Nat /\ HandlersAtHome /\ new \in Cpu
      /\ c \notin online /\ NoTimer \notin Timer
  BY LinuxWheelAssumption, ScenarioFacts DEF LinuxInv, Typed, timers_dead
<1>2. W' = timers_dead_cpu(W, c, new, jiffies) /\ UNCHANGED <<scenario, jiffies, soft, call, online>>
  BY DEF timers_dead
<1>3. Migrated(W', W, c) BY <1>1, <1>2, DeadCpuFacts
<1>4. Typed' BY <1>2, <1>3 DEF LinuxInv, Typed, Migrated
<1>5. HandlersAtHome'
  <2>1. \A d \in Cpu : W'.base[d].running = W.base[d].running BY <1>3 DEF Migrated, SameRunning
  <2>2. ASSUME NEW d \in Cpu, W.base[d].running \in Timer
        PROVE  /\ W'.timer[W.base[d].running].cpu = d
               /\ ~W'.timer[W.base[d].running].migrating
    <3>1. d # c BY <1>1, <2>2 DEF HandlersAtHome
    <3>2. W.timer[W.base[d].running].cpu = d /\ ~W.timer[W.base[d].running].migrating
      BY <1>1, <2>2 DEF HandlersAtHome
    <3> QED BY <1>3, <2>2, <3>1, <3>2 DEF Migrated
  <2> QED BY <1>1, <1>2, <2>1, <2>2 DEF HandlersAtHome
<1>6. CallsStay BY <1>2 DEF CallsStay, LinuxInv, Typed
<1>7. CallsStand' /\ OneMover' /\ AddOnAlone' /\ Targets'
  BY <1>3, <1>6, WheelStep DEF Migrated, SameRunning
<1>8. Placed(W, NoTimer)' BY <1>3 DEF Migrated
<1> QED BY <1>4, <1>5, <1>7, <1>8 DEF LinuxInv

(***************************************************************************)
(* The theorems.                                                            *)
(***************************************************************************)
LEMMA NextKeepsInv == ASSUME LinuxInv, [Next]_vars PROVE LinuxInv'
<1>0. scenario.cpus \subseteq Cpu /\ scenario.tasks \subseteq Task BY ScenarioFacts
<1>1. CASE Tick BY <1>1, TickStep
<1>2. ASSUME NEW c \in scenario.cpus, Softirq(c) PROVE LinuxInv'
  BY <1>0, <1>2, run_timer_softirqStep, HandlerReturnsStep, RelockStep DEF Softirq
<1>3. ASSUME NEW c \in scenario.cpus,
             Rearm(c) \/ GoIdle(c) \/ timer_clear_idle(c) \/ CpuOffline(c) \/ timers_prepare(c)
      PROVE  LinuxInv'
  BY <1>0, <1>3, RearmStep, GoIdleStep, timer_clear_idleStep, CpuOfflineStep, timers_prepareStep
<1>4. ASSUME NEW c \in scenario.cpus, NEW new \in online, timers_dead(c, new) PROVE LinuxInv'
  BY <1>0, <1>4, timers_deadStep
<1>5. ASSUME NEW p \in scenario.tasks, Begin(p) PROVE LinuxInv'
  BY <1>0, <1>5, CallOfStep DEF Begin
<1>6. ASSUME NEW p \in scenario.tasks \cup scenario.cpus, Continue(p) PROVE LinuxInv'
  <2>1. p \in Proc BY <1>0 DEF Proc
  <2> QED BY <1>6, <2>1, ContinueStep
<1>7. CASE UNCHANGED vars
  BY <1>7 DEF vars, LinuxInv, Typed, HandlersAtHome, CallsStand, OneMover, AddOnAlone, Targets
<1> QED BY <1>1, <1>2, <1>3, <1>4, <1>5, <1>6, <1>7 DEF Next

\* The inductive invariant: whatever softirqs, calls, idle CPUs and hotplug do
\* to the bases, lists and timers fit together, handlers run where the flags of
\* their timers say, and a timer is on its way in the hands of one call.
THEOREM LinuxInvariant == Spec => []LinuxInv
<1>1. Init => LinuxInv BY InitIsInv
<1>2. LinuxInv /\ [Next]_vars => LinuxInv' BY NextKeepsInv
<1> QED BY <1>1, <1>2, PTL DEF Spec

\* A pending timer is on exactly one list, of the base and the bucket that its
\* flags name, and the bit of its bucket is set: what detach_if_pending,
\* internal_add_timer and migrate_timer_list keep between them.
THEOREM LinuxQueuedOnce == Spec => []QueuedOnce
<1>1. ASSUME LinuxInv PROVE QueuedOnce
  <2>1. W \in Wheels /\ Placed(W, NoTimer) /\ NoTimer \notin Timer
    BY <1>1, LinuxWheelAssumption DEF LinuxInv, Typed
  <2>2. \A c \in Cpu, x \in Timer : Queued(c, x) <=> Listed(W, c, x) BY DEF Queued, Listed
  <2>3. ASSUME NEW x \in Timer, W.timer[x].pending
        PROVE  W.timer[x].migrating \/ Queued(W.timer[x].cpu, x)
    <3>1. W.timer[x].cpu \in Cpu BY <2>1, WheelFields
    <3> QED BY <2>1, <2>2, <2>3, <3>1 DEF Placed
  <2>4. ASSUME NEW c \in Cpu, NEW x \in Timer, Queued(c, x)
        PROVE  /\ W.timer[x].pending /\ ~W.timer[x].migrating /\ W.timer[x].cpu = c
               /\ \A i \in Buckets : x \in ToSet(W.base[c].vectors[i]) =>
                    i = W.timer[x].idx /\ \A l \in Lvls : x \notin ToSet(W.base[c].heads[l])
    <3>1. InVectors(W, x) /\ InHeads(W, x) BY <2>1 DEF Placed
    <3> QED BY <2>4, <3>1 DEF Queued, InVectors, InHeads
  <2>5. ASSUME NEW c \in Cpu, NEW i \in Buckets
        PROVE  /\ W.base[c].vectors[i] # <<>> => i \in W.base[c].pending_map
               /\ IsInjective(W.base[c].vectors[i])
    <3>1. ASSUME W.base[c].vectors[i] # <<>> PROVE i \in W.base[c].pending_map
      <4>1. PICK x \in Timer : x \in ToSet(W.base[c].vectors[i])
        BY <2>1, <3>1, WheelFields, HeadIsListed
      <4> QED BY <2>1, <4>1 DEF Placed, InVectors
    <3> QED BY <2>1, <3>1 DEF Placed, Once
  <2> QED BY <2>3, <2>4, <2>5 DEF QueuedOnce
<1> QED BY <1>1, LinuxInvariant, PTL

\* A handler never runs on two CPUs at once: __mod_timer does not move a timer
\* off the base that runs its handler.
THEOREM LinuxHandlersSerialised == Spec => []HandlersSerialised
<1>1. ASSUME LinuxInv PROVE HandlersSerialised
  <2> SUFFICES ASSUME NEW c \in Cpu, NEW d \in Cpu, soft[c] = "fn", soft[d] = "fn",
                      W.base[c].running = W.base[d].running
               PROVE  c = d
    BY DEF HandlersSerialised
  <2>1. HandlersAtHome BY <1>1 DEF LinuxInv
  <2>2. W.base[c].running \in Timer /\ W.base[d].running \in Timer BY <2>1 DEF HandlersAtHome
  <2>3. W.timer[W.base[c].running].cpu = c /\ W.timer[W.base[d].running].cpu = d
    BY <2>1, <2>2 DEF HandlersAtHome
  <2> QED BY <2>3
<1> QED BY <1>1, LinuxInvariant, PTL


\* Other steps than the round that finds the handler gone leave a deleting
\* call where it is.
LEMMA SyncGoesOn ==
  ASSUME LinuxInv, [Next]_vars, NEW p \in Task, call[p].op \in Syncing, ~try_to_del_timer_sync(p)
  PROVE  call'[p].op = call[p].op
<1>1. /\ call \in [Proc -> Calls] /\ p \in Proc /\ p \notin Cpu
      /\ call[p].op \in {"sync", "msleep"} /\ call[p] # NoCall
  BY ScenariosAssumption DEF LinuxInv, Typed, Proc, Syncing, NoCall
<1>2. ASSUME NEW q \in Proc, call[q] = NoCall, NEW k, call' = [call EXCEPT ![q] = k]
      PROVE  call'[p] = call[p]
  BY <1>1, <1>2
<1>3. ASSUME NEW q \in Proc, NEW op, NEW x, NEW e, NEW to, call[q] = NoCall, call' = Called(q, op, x, e, to)
      PROVE  call'[p] = call[p]
  BY <1>2, <1>3, Zenon DEF Called
<1>4. ASSUME NEW q \in Task, CallOf(q) PROVE call'[p] = call[p]
  <2>0. q \in Proc BY DEF Proc
  <2>1. ASSUME NEW op, NEW x, NEW e, BeginMod(q, op, x, e) PROVE call'[p] = call[p]
    BY <1>3, <2>0, <2>1, Zenon DEF BeginMod
  <2>2. ASSUME NEW x, NEW e, NEW c, BeginAddOn(q, x, e, c) PROVE call'[p] = call[p]
    BY <1>3, <2>0, <2>2, Zenon DEF BeginAddOn
  <2>3. ASSUME NEW x, NEW e, BeginMsleep(q, x, e) PROVE call'[p] = call[p]
    BY <1>3, <2>0, <2>3, Zenon DEF BeginMsleep
  <2>4. ASSUME NEW x, BeginDel(q, x) PROVE call'[p] = call[p]
    BY <1>3, <2>0, <2>4, Zenon DEF BeginDel
  <2>5. ASSUME NEW x, BeginSync(q, x) PROVE call'[p] = call[p]
    BY <1>3, <2>0, <2>5, Zenon DEF BeginSync
  <2> QED BY <1>4, <2>1, <2>2, <2>3, <2>4, <2>5, Zenon DEF CallOf
<1>5. ASSUME NEW c \in Cpu, Rearm(c) PROVE call'[p] = call[p]
  <2>1. c \in Proc BY DEF Proc
  <2>2. PICK d \in scenario.rearm : BeginMod(c, "mod", W.base[c].running, jiffies + d)
    BY <1>5 DEF Rearm
  <2> QED BY <1>3, <2>1, <2>2, Zenon DEF BeginMod
<1>6. ASSUME NEW q \in Proc, q # p, NEW k, call' = [call EXCEPT ![q] = k] PROVE call'[p] = call[p]
  BY <1>1, <1>6
<1>7. ASSUME NEW q \in Proc, q # p, Continue(q) PROVE call'[p] = call[p]
  <2>1. \A k : call' = [call EXCEPT ![q] = k] => call'[p] = call[p] BY <1>6, <1>7
  <2>2. Armed(q)[p] = call[p] BY <1>1, <1>7 DEF Armed
  <2>3. CASE Reread(q) BY <1>1, <1>7, <2>3 DEF Reread
  <2>4. CASE ModKeepsExpiry(q) \/ ModNotPending(q) \/ del_timer(q)
    BY <2>1, <2>4 DEF ModKeepsExpiry, ModNotPending, del_timer
  <2>5. CASE ModInBucket(q) BY <2>2, <2>5 DEF ModInBucket
  <2>6. ASSUME NEW new \in online, ModRequeue(q, new) PROVE call'[p] = call[p]
    <3>1. call' = Armed(q) \/ call' = [call EXCEPT ![q].pc = "move", ![q].to = {new}]
      BY <2>6 DEF ModRequeue
    <3> QED BY <1>1, <1>7, <2>2, <3>1
  <2>7. CASE AddOn(q)
    <3>1. call' = Armed(q) \/ call' = [call EXCEPT ![q].pc = "move"] BY <2>7 DEF AddOn
    <3> QED BY <1>1, <1>7, <2>2, <3>1
  <2>8. CASE Moved(q)
    <3>1. call' = Armed(q) BY <2>8 DEF Moved
    <3> QED BY <2>2, <3>1
  <2>9. CASE Woken(q) BY <1>1, <1>7, <2>9 DEF Woken
  <2>10. CASE try_to_del_timer_sync(q)
    <3>1. \E k : call' = [call EXCEPT ![q] = k] BY <2>10, Zenon DEF try_to_del_timer_sync
    <3> QED BY <2>1, <3>1
  <2> QED BY <1>7, <2>3, <2>4, <2>5, <2>6, <2>7, <2>8, <2>9, <2>10 DEF Continue
<1>8. ASSUME Continue(p) PROVE call'[p].op = call[p].op
  <2>1. call[p] \in Calls BY <1>1
  <2>2. ASSUME call[p].op = "msleep" PROVE Armed(p)[p].op = call[p].op
    BY <1>1, <2>1, <2>2 DEF Armed, Calls
  <2>3. CASE Reread(p) BY <1>1, <2>1, <2>3 DEF Reread, Calls
  <2>4. ~ModKeepsExpiry(p) /\ ~ModNotPending(p) /\ ~del_timer(p) /\ ~AddOn(p)
    BY <1>1 DEF ModKeepsExpiry, Reduced, ModNotPending, del_timer, AddOn
  <2>5. CASE ModInBucket(p)
    <3>1. call' = Armed(p) BY <2>5 DEF ModInBucket
    <3>2. call[p].op = "msleep" BY <1>1, <2>5 DEF ModInBucket, SameBucket
    <3> QED BY <2>2, <3>1, <3>2
  <2>6. ASSUME NEW new \in online, ModRequeue(p, new) PROVE call'[p].op = call[p].op
    <3>1. call' = Armed(p) \/ call' = [call EXCEPT ![p].pc = "move", ![p].to = {new}]
      BY <2>6 DEF ModRequeue
    <3>2. call[p].op = "msleep" BY <1>1, <2>6 DEF ModRequeue
    <3>3. CASE call' = Armed(p) BY <2>2, <3>2, <3>3
    <3>4. CASE call' = [call EXCEPT ![p].pc = "move", ![p].to = {new}]
      BY <1>1, <2>1, <3>4 DEF Calls
    <3> QED BY <3>1, <3>3, <3>4
  <2>7. CASE Moved(p)
    <3>1. call' = Armed(p) BY <2>7 DEF Moved
    <3>2. call[p].op = "msleep" BY <1>1, <2>7 DEF Moved, LinuxInv, OneMover, Arming
    <3> QED BY <2>2, <3>1, <3>2
  <2>8. CASE Woken(p) BY <1>1, <2>1, <2>8 DEF Woken, Calls
  <2> QED BY <1>8, <2>3, <2>4, <2>5, <2>6, <2>7, <2>8 DEF Continue
<1>9. ASSUME NEW c \in Cpu, NEW b, __run_timers(c, b) PROVE call'[p].op = call[p].op
  <2>1. \/ call' = call
        \/ \E x : call' = [q \in Proc |-> [call[q] EXCEPT
                             !.woken = @ \/ (call[q].op = "msleep" /\ call[q].x = x)]]
    BY <1>9, Zenon DEF __run_timers
  <2>2. call[p] \in Calls BY <1>1
  <2> QED BY <1>1, <2>1, <2>2 DEF Calls
<1>10. ASSUME NEW c \in Cpu, Softirq(c) PROVE call'[p].op = call[p].op
  <2>1. CASE run_timer_softirq(c) BY <1>9, <2>1, Zenon DEF run_timer_softirq
  <2>2. CASE HandlerReturns(c) BY <2>2 DEF HandlerReturns
  <2>3. CASE Relock(c) BY <1>9, <2>3, Zenon DEF Relock
  <2> QED BY <1>10, <2>1, <2>2, <2>3 DEF Softirq
<1>11. ASSUME NEW c \in Cpu, \/ GoIdle(c) \/ timer_clear_idle(c) \/ CpuOffline(c) \/ timers_prepare(c)
                             \/ \E new \in online : timers_dead(c, new)
       PROVE  call' = call
  BY <1>11, Zenon DEF GoIdle, timer_clear_idle, CpuOffline, timers_prepare, timers_dead
<1>12. scenario.cpus \subseteq Cpu /\ scenario.tasks \subseteq Task BY ScenarioFacts
<1>13. CASE Tick BY <1>13 DEF Tick
<1>14. ASSUME NEW c \in scenario.cpus,
              \/ Softirq(c) \/ Rearm(c) \/ GoIdle(c) \/ timer_clear_idle(c)
              \/ CpuOffline(c) \/ timers_prepare(c) \/ \E new \in online : timers_dead(c, new)
       PROVE  call'[p].op = call[p].op
  BY <1>5, <1>10, <1>11, <1>12, <1>14
<1>15. ASSUME NEW q \in scenario.tasks, Begin(q) PROVE call'[p].op = call[p].op
  BY <1>4, <1>12, <1>15 DEF Begin
<1>16. ASSUME NEW q \in scenario.tasks \cup scenario.cpus, Continue(q) PROVE call'[p].op = call[p].op
  <2>1. q \in Proc BY <1>12 DEF Proc
  <2> QED BY <1>7, <1>8, <1>16, <2>1
<1>17. CASE UNCHANGED vars BY <1>17 DEF vars
<1> QED BY <1>13, <1>14, <1>15, <1>16, <1>17 DEF Next

\* When del_timer_sync returns its timer is on no list of any CPU and its
\* handler runs nowhere: it looks for the handler on one base only, but that is
\* the base the flags name, under its lock, and handlers are at home.
THEOREM LinuxSyncMeansGone == Spec => SyncMeansGone
<1> DEFINE Gone == \A p \in Task, x \in Timer :
                     call[p].op \in Syncing /\ call[p].x = x /\ call'[p] = NoCall =>
                       \A c \in Cpu : /\ ~Queued(c, x)'
                                      /\ ~(soft'[c] = "fn" /\ W'.base[c].running = x)
<1>1. ASSUME LinuxInv, [Next]_vars PROVE Gone
  <2> SUFFICES ASSUME NEW p \in Task, NEW x \in Timer, NEW c \in Cpu,
                      call[p].op \in Syncing, call[p].x = x, call'[p] = NoCall
               PROVE  ~Queued(c, x)' /\ ~(soft'[c] = "fn" /\ W'.base[c].running = x)
    OBVIOUS
  <2>1. try_to_del_timer_sync(p)
    <3>1. call'[p].op # call[p].op BY DEF NoCall, Syncing
    <3> QED BY <1>1, <3>1, SyncGoesOn
  <2>2. p \in Proc BY DEF Proc
  <2>3. Placed(W', x) /\ SameRunning(W', W) BY <1>1, <2>1, <2>2, try_to_del_timer_syncStep
  <2>4. ~Queued(c, x)'
    <3>1. ~Listed(W', c, x) BY <2>3 DEF Placed
    <3> QED BY <3>1 DEF Listed, Queued
  <2>5. ~HandlerRuns(call[p].tf[1], x) BY <2>1 DEF try_to_del_timer_sync
  <2>6. W.timer[x].cpu = call[p].tf[1]
    <3>1. PICK pc \in {"locked", "del"} : Holds(p, pc) BY <2>1 DEF try_to_del_timer_sync, DelLocked
    <3> QED BY <1>1, <2>2, <3>1, HoldsFacts
  <2>7. W.base[c].running # x
    <3>1. HandlersAtHome BY <1>1 DEF LinuxInv
    <3>2. W.base[c].running = x => W.timer[x].cpu = c BY <3>1 DEF HandlersAtHome
    <3> QED BY <2>5, <2>6, <3>2 DEF HandlerRuns
  <2> QED BY <2>3, <2>4, <2>7 DEF SameRunning
<1>2. LinuxInv /\ [Next]_vars => [Gone]_vars BY <1>1
<1> QED BY <1>2, LinuxInvariant, PTL DEF Spec, SyncMeansGone

(***************************************************************************)
(* Time.  A bucket keeps the tick at which it is emptied while the clock of  *)
(* its base advances up to that tick (EmptiedAtStays); calc_wheel_index puts *)
(* a timer where this tick is right (PlacedInTime).  TimeInv says why the    *)
(* clock never goes further, or back.  s is the scenario.                    *)
(***************************************************************************)
\* The first tick of a clock from clk on at which bucket i is emptied.
EmptiedAt(clk, i) ==
  LET l == i \div LVL_SIZE
      k == LevelClk(clk, l)
  IN  (k + ((i - LVL_OFFS(l) + LVL_SIZE - (k % LVL_SIZE)) % LVL_SIZE)) * LVL_GRAN(l)

\* The timers in the buckets of base b.
OnTime(b, timer) ==
  \A i \in Buckets : \A x \in ToSet(b.vectors[i]) :
    /\ EmptiedAt(b.clk, i) >= timer[x].expires
    /\ \/ EmptiedAt(b.clk, i) <= timer[x].expires + LVL_GRAN(i \div LVL_SIZE)
       \/ EmptiedAt(b.clk, i) = b.clk

\* The buckets that next_expiry answers for: a base that was off line has
\* bits of buckets that are empty.
Ahead(s, b) ==
  {i \in Buckets : ToSet(b.vectors[i]) # {} \/ (s.hotplug = {} /\ i \in b.pending_map)}

\* A clock that is to be forwarded may go up to next_expiry.
Forwardable(s, b) ==
  b.must_forward_clk =>
    /\ b.clk <= b.next_expiry /\ b.next_expiry <= b.clk + NEXT_TIMER_MAX_DELTA
    /\ \A i \in Ahead(s, b) : b.next_expiry <= EmptiedAt(b.clk, i)

\* How far the clock is behind j, now or when it has been forwarded.
Near(s, b, j) == s.hotplug = {} => j - b.clk <= s.lag
Close(s, b, j) == Near(s, b, j) \/ (b.must_forward_clk /\ j - b.next_expiry <= s.lag)

\* What holds of base b, its timers and its clock at time j.
Timely(s, b, timer, j) ==
  /\ b.clk <= j + 1
  /\ OnTime(b, timer) /\ Forwardable(s, b) /\ Close(s, b, j)
  /\ b.is_idle => b.must_forward_clk

\* A CPU whose tick is stopped until the jiffy wakes is idle, and wakes for
\* next_expiry unless it is being woken.
Sleeps(b, kicked, wakes) ==
  /\ b.is_idle <=> wakes >= 0
  /\ wakes >= 0 /\ ~kicked => wakes <= b.next_expiry

\* The softirq has forwarded the clock; nothing is collected outside it.
Settled(b, where) ==
  /\ where # "idle" => ~b.must_forward_clk
  /\ where = "idle" => b.heads = NoHeads

\* The wheel of a clock that is not far behind j reaches the expiry.
Reached(s, e, j) ==
  \/ e < WHEEL_TIMEOUT_CUTOFF
  \/ s.hotplug = {} /\ e - j + s.lag < LVL_START(LVL_DEPTH - 1)

InTime(s, V, j, wakes, where) ==
  /\ \A c \in Cpu : /\ c \in s.cpus => Timely(s, V.base[c], V.timer, j)
                    /\ Sleeps(V.base[c], c \in V.kick, wakes[c])
                    /\ Settled(V.base[c], where[c])
  /\ \A x \in Timer : Reached(s, V.timer[x].expires, j) /\ V.timer[x].cpu \in s.cpus

\* A call whose timer is still to be set.
Sets(k) == k.op \in Arming /\ k.pc \notin {"asleep", "del"}

CallInTime(s, k, j) ==
  /\ k.to \subseteq s.cpus
  /\ k.op \in Arming => Reached(s, k.expires, j)
  /\ Sets(k) => k.expires > j

TimeInv ==
  /\ jiffies <= scenario.maxj
  /\ scenario.hotplug = {} => online = scenario.cpus
  /\ asleep \in [Cpu -> Int]
  /\ \A c \in Cpu : c \notin online => asleep[c] < 0
  /\ InTime(scenario, W, jiffies, asleep, soft)
  /\ \A p \in Proc : CallInTime(scenario, call[p], jiffies)


\* Products keep the order, a whole factor apart.
LEMMA TimesOrder ==
  ASSUME NEW g \in Nat \ {0}, NEW a \in Int, NEW b \in Int
  PROVE  /\ a * g \in Int /\ b * g \in Int
         /\ a <= b => a * g <= b * g
         /\ a < b => a * g + g <= b * g
<1>1. a * g \in Int /\ b * g \in Int OBVIOUS
<1>2. ASSUME NEW d \in Nat PROVE d * g \in Nat /\ (d > 0 => d * g >= g)
  <2>1. d * g \in Nat OBVIOUS
  <2>2. CASE d = 0 BY <2>1, <2>2
  <2>3. CASE d # 0
    <3>1. d - 1 \in Nat /\ (d - 1) * g \in Nat BY <2>3
    <3>2. d * g = (d - 1) * g + g BY <3>1
    <3> QED BY <2>1, <3>1, <3>2
  <2> QED BY <2>2, <2>3
<1>3. ASSUME a <= b PROVE a * g <= b * g /\ (a < b => a * g + g <= b * g)
  <2>1. b - a \in Nat BY <1>3
  <2>2. (b - a) * g = b * g - a * g OBVIOUS
  <2>3. (b - a) * g \in Nat /\ (b - a > 0 => (b - a) * g >= g) BY <1>2, <2>1
  <2> QED BY <1>1, <2>2, <2>3
<1> QED BY <1>1, <1>3

\* The first number from k on that is r modulo s.
LEMMA FirstInClass ==
  ASSUME NEW s \in Nat \ {0}, NEW k \in Nat, NEW r \in 0 .. (s - 1)
  PROVE  /\ k + ((r + s - (k % s)) % s) \in k .. (k + s - 1)
         /\ (k + ((r + s - (k % s)) % s)) % s = r
         /\ \A n \in k .. (k + s - 1) : n % s = r => n = k + ((r + s - (k % s)) % s)
<1>1. PICK q, a : q = k \div s /\ a = k % s OBVIOUS
<1>2. q \in Nat /\ a \in 0 .. (s - 1) /\ k = s * q + a BY <1>1
<1>3. r + s - a \in 0 .. (2 * s - 1) BY <1>2
<1>4. (r + s - a) % s = IF r + s - a < s THEN r + s - a ELSE r - a
  <2>1. PICK z \in 0 .. (2 * s - 1) : z = r + s - a BY <1>3
  <2>2. z % s = IF z < s THEN z ELSE z - s BY ModWraps
  <2>3. z - s = r - a BY <1>2, <2>1
  <2> QED BY <2>1, <2>2, <2>3
<1> DEFINE d == IF r < a THEN r + s - a ELSE r - a
<1>5. (r + s - (k % s)) % s = d
  <2>1. r + s - a < s <=> r < a BY <1>2
  <2> QED BY <1>1, <1>4, <2>1
<1>6. d \in 0 .. (s - 1) BY <1>2
<1>7. k + d \in k .. (k + s - 1) BY <1>6
<1>8. k + d = IF r < a THEN s * (q + 1) + r ELSE s * q + r
  <2>1. s * (q + 1) = s * q + s /\ s * q \in Nat BY <1>2
  <2> QED BY <1>2, <2>1
<1>9. ASSUME NEW m \in Nat PROVE (s * m + r) % s = r
  OBVIOUS
<1>10. (k + d) % s = r
  <2>1. CASE r < a BY <1>2, <1>8, <1>9, <2>1
  <2>2. CASE ~(r < a) BY <1>2, <1>8, <1>9, <2>2
  <2> QED BY <2>1, <2>2
<1>11. ASSUME NEW n \in k .. (k + s - 1), NEW m \in k .. (k + s - 1), n % s = r, m % s = r, n < m PROVE FALSE
  <2>1. PICK u, v : u = n \div s /\ v = m \div s OBVIOUS
  <2>2. u \in Nat /\ v \in Nat /\ n = s * u + r /\ m = s * v + r BY <1>11, <2>1
  <2>3. s * u \in Nat /\ s * v \in Nat /\ s * u < s * v /\ s * v < s * u + s BY <1>11, <2>2
  <2>4. s * u = u * s /\ s * v = v * s BY <2>2
  <2>5. CASE u < v BY <2>2, <2>3, <2>4, <2>5, TimesOrder
  <2>6. CASE v <= u BY <2>2, <2>3, <2>4, <2>6, TimesOrder
  <2> QED BY <2>2, <2>5, <2>6
<1> HIDE DEF d
<1>12. ASSUME NEW n \in k .. (k + s - 1), n % s = r PROVE n = k + d
  <2>1. ~(n < k + d) BY <1>7, <1>10, <1>11, <1>12
  <2>2. ~(k + d < n) BY <1>7, <1>10, <1>11, <1>12
  <2> QED BY <1>6, <2>1, <2>2
<1> QED BY <1>5, <1>7, <1>10, <1>12

\* A bucket is a position in a level.
LEMMA BucketFields ==
  ASSUME NEW i \in Buckets
  PROVE  /\ i \in Nat /\ i \div LVL_SIZE \in Lvls
         /\ i - LVL_OFFS(i \div LVL_SIZE) \in 0 .. (LVL_SIZE - 1)
<1>1. LVL_SIZE \in Nat \ {0} /\ LVL_DEPTH \in Nat \ {0} BY Sizes
<1> DEFINE S == LVL_SIZE
<1>2. i \in 0 .. (S * LVL_DEPTH - 1) BY DEF Buckets, WHEEL_SIZE
<1>3. S \in Nat \ {0} BY <1>1
<1> HIDE DEF S
<1>4. i \div S \in 0 .. (LVL_DEPTH - 1) BY <1>1, <1>2, <1>3, DivBelow
<1>5. PICK q, a : q = i \div S /\ a = i % S OBVIOUS
<1>6. i \in Nat
  <2>1. S * LVL_DEPTH \in Nat BY <1>1, <1>3
  <2> QED BY <1>2, <2>1
<1>7. i = S * q + a /\ q \in Nat /\ a \in 0 .. (S - 1) BY <1>3, <1>5, <1>6
<1>8. i - q * S = a BY <1>3, <1>7
<1> QED BY <1>4, <1>5, <1>6, <1>7, <1>8 DEF S, LVL_OFFS, Lvls

\* Tick n * G of a level is the first from clk on at which its bucket i is emptied.
FirstTick(clk, i, n) ==
  LET l == i \div LVL_SIZE
  IN  /\ n \in Nat /\ n % LVL_SIZE = i - LVL_OFFS(l)
      /\ clk <= n * LVL_GRAN(l) /\ n * LVL_GRAN(l) < clk + LVL_SIZE * LVL_GRAN(l)

LEMMA LevelClkFacts ==
  ASSUME NEW clk \in Nat, NEW l \in Lvls, NEW k, k = LevelClk(clk, l)
  PROVE  k \in Nat /\ clk <= k * LVL_GRAN(l) /\ k * LVL_GRAN(l) < clk + LVL_GRAN(l)
<1> DEFINE g == LVL_GRAN(l)
<1>1. g \in Nat \ {0} BY Sizes
<1>2. k = (clk + g - 1) \div g BY DEF LevelClk
<1> HIDE DEF g
<1>3. PICK a : a = (clk + g - 1) % g OBVIOUS
<1>4. clk + g - 1 \in Nat BY <1>1
<1>5. k \in Nat /\ a \in 0 .. (g - 1) /\ clk + g - 1 = g * k + a BY <1>1, <1>2, <1>3, <1>4
<1>6. g * k = k * g /\ g * k \in Nat BY <1>1, <1>5
<1> QED BY <1>1, <1>5, <1>6 DEF g

LEMMA FirstTickFacts ==
  ASSUME NEW clk \in Nat, NEW i \in Buckets
  PROVE  /\ \E n : FirstTick(clk, i, n) /\ EmptiedAt(clk, i) = n * LVL_GRAN(i \div LVL_SIZE)
         /\ \A n : FirstTick(clk, i, n) => EmptiedAt(clk, i) = n * LVL_GRAN(i \div LVL_SIZE)
<1>1. PICK l \in Lvls : l = i \div LVL_SIZE BY BucketFields
<1>2. PICK g \in Nat \ {0} : g = LVL_GRAN(l) BY Sizes
<1>3. PICK s \in Nat \ {0} : s = LVL_SIZE BY Sizes
<1>4. PICK k \in Nat : k = LevelClk(clk, l) BY LevelClkFacts
<1>5. clk <= k * g /\ k * g < clk + g BY <1>2, <1>4, LevelClkFacts
<1>6. PICK r \in 0 .. (s - 1) : r = i - LVL_OFFS(l) BY <1>1, <1>3, BucketFields
<1>7. PICK m : m = k + ((r + s - (k % s)) % s) OBVIOUS
<1>8. /\ m \in k .. (k + s - 1) /\ m % s = r
      /\ \A n \in k .. (k + s - 1) : n % s = r => n = m
  BY <1>7, FirstInClass
<1>9. EmptiedAt(clk, i) = m * g BY <1>1, <1>2, <1>3, <1>4, <1>6, <1>7 DEF EmptiedAt
<1>10. ASSUME NEW n \in Nat
       PROVE  (clk <= n * g /\ n * g < clk + s * g) <=> n \in k .. (k + s - 1)
  <2>1. n * g \in Nat /\ k * g \in Nat /\ s * g \in Nat OBVIOUS
  <2>2. (k + s) * g = k * g + s * g OBVIOUS
  <2>3. ASSUME n < k PROVE n * g + g <= k * g BY <2>3, TimesOrder
  <2>4. ASSUME k <= n PROVE k * g <= n * g BY <2>4, TimesOrder
  <2>5. ASSUME n < k + s PROVE n * g + g <= (k + s) * g BY <2>5, TimesOrder
  <2>6. ASSUME k + s <= n PROVE (k + s) * g <= n * g BY <2>6, TimesOrder
  <2>7. CASE n < k BY <1>5, <2>1, <2>3, <2>7
  <2>8. CASE k <= n /\ n < k + s BY <1>5, <2>1, <2>2, <2>4, <2>5, <2>8
  <2>9. CASE k + s <= n BY <1>5, <2>1, <2>2, <2>6, <2>9
  <2> QED BY <2>7, <2>8, <2>9
<1>11. \A n : FirstTick(clk, i, n) <=> n \in Nat /\ n % s = r /\ clk <= n * g /\ n * g < clk + s * g
  BY <1>1, <1>2, <1>3, <1>6 DEF FirstTick
<1>12. \A n : FirstTick(clk, i, n) <=> n \in k .. (k + s - 1) /\ n % s = r BY <1>10, <1>11
<1> QED BY <1>1, <1>2, <1>8, <1>9, <1>12

\* A bucket is emptied at the same tick when the clock has advanced up to there.
LEMMA EmptiedAtStays ==
  ASSUME NEW clk \in Nat, NEW i \in Buckets
  PROVE  /\ EmptiedAt(clk, i) \in Nat /\ EmptiedAt(clk, i) >= clk
         /\ \A k \in clk .. EmptiedAt(clk, i) : EmptiedAt(k, i) = EmptiedAt(clk, i)
<1>1. PICK l \in Lvls : l = i \div LVL_SIZE BY BucketFields
<1>2. PICK g \in Nat \ {0} : g = LVL_GRAN(l) BY Sizes
<1>3. PICK n : FirstTick(clk, i, n) /\ EmptiedAt(clk, i) = n * g BY <1>1, <1>2, FirstTickFacts
<1>4. n \in Nat /\ n * g \in Nat /\ clk <= n * g BY <1>1, <1>2, <1>3 DEF FirstTick
<1>5. ASSUME NEW k \in clk .. EmptiedAt(clk, i) PROVE EmptiedAt(k, i) = n * g
  <2>1. PICK t \in Nat : t = LVL_SIZE * LVL_GRAN(l) BY Sizes
  <2>2. k \in Nat /\ k <= n * g /\ n * g < k + t BY <1>1, <1>2, <1>3, <1>4, <1>5, <2>1 DEF FirstTick
  <2>3. FirstTick(k, i, n) BY <1>1, <1>2, <1>3, <2>1, <2>2 DEF FirstTick
  <2> QED BY <1>1, <1>2, <2>2, <2>3, FirstTickFacts
<1> QED BY <1>3, <1>4, <1>5

\* The bucket of a level that calc_index chooses is emptied after the expiry,
\* within a tick of the level, if the level reaches as far.
LEMMA IndexedInTime ==
  ASSUME NEW e \in Nat, NEW clk \in Nat, NEW l \in Lvls, clk <= e,
         e - clk < (LVL_SIZE - 1) * LVL_GRAN(l),
         NEW i, i = calc_index(e, l)
  PROVE  /\ i \in Buckets /\ i \div LVL_SIZE = l
         /\ EmptiedAt(clk, i) >= e /\ EmptiedAt(clk, i) <= e + LVL_GRAN(l)
<1>1. PICK g \in Nat \ {0} : g = LVL_GRAN(l) BY Sizes
<1>2. PICK s \in Nat \ {0} : s = LVL_SIZE BY Sizes
<1>3. PICK n, a : n = (e + g) \div g /\ a = (e + g) % g OBVIOUS
<1>4. n \in Nat /\ a \in 0 .. (g - 1) /\ e + g = g * n + a BY <1>3
<1>5. n * g = g * n /\ n * g \in Nat BY <1>4
<1>6. e < n * g /\ n * g <= e + g BY <1>4, <1>5
<1>7. PICK t \in Nat : t = s * g OBVIOUS
<1>8. n * g < clk + t
  <2>1. (s - 1) * g = t - g BY <1>7
  <2>2. e - clk < t - g BY <1>1, <1>2, <2>1
  <2> QED BY <1>5, <1>6, <2>2
<1>9. PICK r \in 0 .. (s - 1) : r = n % s BY <1>4
<1>10. i = LVL_OFFS(l) + r BY <1>1, <1>2, <1>3, <1>9 DEF calc_index
<1>11. i \in Buckets BY <1>2, <1>10, PositionIsBucket
<1>12. i \div LVL_SIZE = l
  <2>1. PICK m \in Lvls, q \in 0 .. (s - 1) : m = i \div LVL_SIZE /\ q = i - LVL_OFFS(m)
    BY <1>2, <1>11, BucketFields
  <2>2. LVL_OFFS(m) \in Nat /\ LVL_OFFS(l) \in Nat BY Sizes DEF LVL_OFFS
  <2>3. LVL_OFFS(l) + r = LVL_OFFS(m) + q BY <1>10, <2>1, <2>2
  <2> QED BY <1>2, <2>1, <2>3, LevelOfPosition
<1>13. FirstTick(clk, i, n)
  <2>1. LVL_OFFS(l) \in Nat BY Sizes DEF LVL_OFFS
  <2>2. n % s = i - LVL_OFFS(l) BY <1>9, <1>10, <2>1
  <2>3. clk <= n * g BY <1>5, <1>6
  <2> QED BY <1>1, <1>2, <1>4, <1>7, <1>8, <1>12, <2>2, <2>3 DEF FirstTick
<1>14. EmptiedAt(clk, i) = n * g BY <1>1, <1>11, <1>12, <1>13, FirstTickFacts
<1> QED BY <1>1, <1>5, <1>6, <1>11, <1>12, <1>14

\* The clock's own bucket of the first level, for what has expired already.
LEMMA ExpiredAtOnce ==
  ASSUME NEW clk \in Nat, NEW i, i = clk % LVL_SIZE
  PROVE  i \in Buckets /\ EmptiedAt(clk, i) = clk
<1>1. PICK s \in Nat \ {0} : s = LVL_SIZE BY Sizes
<1>2. i \in 0 .. (s - 1) BY <1>1
<1>3. 0 \in Lvls /\ LVL_OFFS(0) = 0 BY <1>1, Sizes DEF Lvls, LVL_OFFS
<1>4. i \in Buckets
  <2>1. \A r \in 0 .. (s - 1) : LVL_OFFS(0) + r \in Buckets BY <1>1, <1>3, PositionIsBucket
  <2> QED BY <1>2, <1>3, <2>1
<1>5. i \div LVL_SIZE = 0 BY <1>1, <1>2
<1>6. LVL_GRAN(0) = 1
  <2>1. 0 * LVL_CLK_SHIFT = 0 BY LinuxWheelAssumption
  <2>2. 2 ^ 0 = 1 OBVIOUS
  <2> QED BY <2>1, <2>2 DEF LVL_GRAN
<1>7. FirstTick(clk, i, clk)
  <2>1. clk * 1 = clk /\ clk < clk + s * 1 OBVIOUS
  <2> QED BY <1>1, <1>2, <1>3, <1>5, <1>6, <2>1 DEF FirstTick
<1>8. EmptiedAt(clk, i) = clk * LVL_GRAN(0) BY <1>4, <1>5, <1>7, FirstTickFacts
<1> QED BY <1>4, <1>6, <1>8

\* What is within reach of the wheel from clk.
InWheel(e, clk) == e - clk < LVL_START(LVL_DEPTH - 1) \/ e < WHEEL_TIMEOUT_CUTOFF

\* calc_wheel_index puts a timer into a bucket that is emptied in time.
LEMMA PlacedInTime ==
  ASSUME NEW e \in Nat, NEW clk \in Nat, InWheel(e, clk), NEW i, i = calc_wheel_index(e, clk)
  PROVE  /\ i \in Buckets /\ EmptiedAt(clk, i) >= e
         /\ EmptiedAt(clk, i) <= e + LVL_GRAN(i \div LVL_SIZE) \/ EmptiedAt(clk, i) = clk
<1> DEFINE reach == {n \in 1 .. LVL_DEPTH - 1 : e - clk < LVL_START(n)}
<1>0. LVL_DEPTH \in Nat \ {0, 1} BY LinuxWheelAssumption
<1>1. \A l \in Nat : LVL_START(l + 1) = (LVL_SIZE - 1) * LVL_GRAN(l)
  <2> SUFFICES ASSUME NEW l \in Nat PROVE LVL_START(l + 1) = (LVL_SIZE - 1) * LVL_GRAN(l) OBVIOUS
  <2>1. (l + 1) - 1 = l OBVIOUS
  <2> QED BY <2>1 DEF LVL_START, LVL_GRAN
<1>2. CASE e - clk < 0
  <2>1. i = clk % LVL_SIZE BY <1>2 DEF calc_wheel_index
  <2> QED BY <1>2, <2>1, ExpiredAtOnce
<1>3. CASE ~(e - clk < 0) /\ reach # {}
  <2>1. i = calc_index(e, Min(reach) - 1) BY <1>3 DEF calc_wheel_index
  <2>2. Min(reach) \in reach
    <3>1. reach \subseteq Nat OBVIOUS
    <3> HIDE DEF reach
    <3> QED BY <1>3, <3>1, MinIsMember
  <2>3. PICK l \in Lvls : l = Min(reach) - 1 /\ e - clk < LVL_START(l + 1)
    <3>1. PICK m : m = Min(reach) OBVIOUS
    <3>2. m \in 1 .. LVL_DEPTH - 1 /\ e - clk < LVL_START(m) BY <2>2, <3>1
    <3>3. m - 1 \in Lvls /\ (m - 1) + 1 = m BY <1>0, <3>2 DEF Lvls
    <3> QED BY <3>1, <3>2, <3>3
  <2>4. e - clk < (LVL_SIZE - 1) * LVL_GRAN(l) BY <1>1, <2>3, Sizes
  <2>5. clk <= e BY <1>3
  <2>6. i = calc_index(e, l) BY <2>1, <2>3
  <2> QED BY <2>4, <2>5, <2>6, IndexedInTime
<1>4. CASE ~(e - clk < 0) /\ reach = {}
  <2>1. PICK l \in Lvls : l = LVL_DEPTH - 1 BY <1>0 DEF Lvls
  <2>2. ~(e - clk < LVL_START(LVL_DEPTH - 1))
    <3>1. LVL_DEPTH - 1 \in 1 .. LVL_DEPTH - 1 BY <1>0
    <3> QED BY <1>4, <3>1
  <2>3. e < WHEEL_TIMEOUT_CUTOFF BY <2>2 DEF InWheel
  <2>4. PICK cutoff \in Int : cutoff = WHEEL_TIMEOUT_CUTOFF /\ cutoff = (LVL_SIZE - 1) * LVL_GRAN(l)
    <3>1. LVL_DEPTH = l + 1 BY <1>0, <2>1
    <3>2. WHEEL_TIMEOUT_CUTOFF = (LVL_SIZE - 1) * LVL_GRAN(l)
      BY <1>1, <3>1, Sizes DEF WHEEL_TIMEOUT_CUTOFF
    <3>3. PICK s, g : s = LVL_SIZE /\ g = LVL_GRAN(l) OBVIOUS
    <3>4. s \in Nat /\ g \in Nat BY <3>3, Sizes
    <3>5. (s - 1) * g \in Int BY <3>4
    <3> QED BY <3>2, <3>3, <3>5
  <2>5. clk <= e /\ e - clk < cutoff BY <1>4, <2>3, <2>4
  <2>6. i = calc_index(e, l)
    <3>1. ~(e >= WHEEL_TIMEOUT_CUTOFF) BY <2>3, <2>4
    <3> QED BY <1>4, <2>1, <3>1, Zenon DEF calc_wheel_index
  <2> QED BY <2>4, <2>5, <2>6, IndexedInTime
<1> QED BY <1>2, <1>3, <1>4

\* Nothing in a set of naturals is below its least member.
LEMMA MinIsLeast == ASSUME NEW S, S \subseteq Nat, NEW x \in S PROVE Min(S) <= x
<1>1. \E m \in S : \A y \in S : m <= y BY NatLeast
<1> QED BY <1>1 DEF Min

\* The next interrupt is when the first pending bucket is emptied.
LEMMA NextInterruptFacts ==
  ASSUME NEW b \in timer_base, NEW n, n = __next_timer_interrupt(b)
  PROVE  /\ n \in Nat /\ b.clk <= n /\ n <= b.clk + NEXT_TIMER_MAX_DELTA
         /\ \A i \in b.pending_map : n <= EmptiedAt(b.clk, i)
         /\ \A m \in Nat : /\ m <= b.clk + NEXT_TIMER_MAX_DELTA
                           /\ \A i \in b.pending_map : m <= EmptiedAt(b.clk, i)
                           => m <= n
<1> DEFINE lvlTimes(l) == {(LevelClk(b.clk, l) + pos) * LVL_GRAN(l) :
                             pos \in PendingAhead(b, l, LevelClk(b.clk, l) % LVL_SIZE)}
           levels == UNION {lvlTimes(l) : l \in Lvls}
           buckets == {EmptiedAt(b.clk, i) : i \in b.pending_map}
           times == {b.clk + NEXT_TIMER_MAX_DELTA} \cup buckets
<1>1. b.clk \in Nat /\ b.pending_map \subseteq Buckets BY DEF timer_base
<1>2. \A i \in b.pending_map : i \div LVL_SIZE \in Lvls BY <1>1, BucketFields
<1>3. levels = buckets
  <2>1. ASSUME NEW l \in Lvls, NEW t \in lvlTimes(l) PROVE t \in buckets
    <3>1. PICK i \in b.pending_map :
            /\ i \div LVL_SIZE = l
            /\ t = (LevelClk(b.clk, l) +
                     ((i - LVL_OFFS(l) + LVL_SIZE - (LevelClk(b.clk, l) % LVL_SIZE)) % LVL_SIZE)) * LVL_GRAN(l)
      BY <2>1 DEF PendingAhead
    <3>2. t = EmptiedAt(b.clk, i) BY <3>1 DEF EmptiedAt
    <3> QED BY <3>2
  <2>2. ASSUME NEW i \in b.pending_map PROVE EmptiedAt(b.clk, i) \in lvlTimes(i \div LVL_SIZE)
    BY DEF EmptiedAt, PendingAhead
  <2> HIDE DEF lvlTimes
  <2> QED BY <1>2, <2>1, <2>2
<1>4. n = Min(times) BY <1>3 DEF __next_timer_interrupt
<1>5. b.clk + NEXT_TIMER_MAX_DELTA \in Nat /\ b.clk <= b.clk + NEXT_TIMER_MAX_DELTA
  BY <1>1, LinuxWheelAssumption
<1>6. \A i \in b.pending_map : EmptiedAt(b.clk, i) \in Nat /\ b.clk <= EmptiedAt(b.clk, i)
  BY <1>1, EmptiedAtStays
<1>7. times \subseteq Nat /\ times # {} BY <1>5, <1>6
<1>8. n \in times /\ \A t \in times : n <= t
  <2> HIDE DEF times
  <2> QED BY <1>4, <1>7, MinIsMember, MinIsLeast
<1> QED BY <1>5, <1>6, <1>7, <1>8

\* A clock that advances no further than the buckets that are kept.
LEMMA StillOnTime ==
  ASSUME NEW b \in timer_base, NEW a \in timer_base, NEW timer, NEW table, OnTime(b, timer), b.clk <= a.clk,
         \A i \in Buckets : ToSet(a.vectors[i]) \subseteq ToSet(b.vectors[i]),
         \A i \in Buckets : ToSet(a.vectors[i]) # {} => a.clk <= EmptiedAt(b.clk, i),
         \A i \in Buckets : \A x \in ToSet(a.vectors[i]) : table[x].expires = timer[x].expires
  PROVE  /\ OnTime(a, table)
         /\ \A i \in Buckets : a.clk <= EmptiedAt(b.clk, i) => EmptiedAt(a.clk, i) = EmptiedAt(b.clk, i)
<1>1. a.clk \in Nat /\ b.clk \in Nat BY DEF timer_base
<1>2. ASSUME NEW i \in Buckets, a.clk <= EmptiedAt(b.clk, i)
      PROVE  EmptiedAt(a.clk, i) = EmptiedAt(b.clk, i)
  <2>1. EmptiedAt(b.clk, i) \in Nat BY <1>1, EmptiedAtStays
  <2>2. a.clk \in b.clk .. EmptiedAt(b.clk, i) BY <1>1, <1>2, <2>1
  <2> QED BY <1>1, <2>2, EmptiedAtStays
<1>3. ASSUME NEW i \in Buckets, NEW x \in ToSet(a.vectors[i])
      PROVE  /\ EmptiedAt(a.clk, i) >= table[x].expires
             /\ \/ EmptiedAt(a.clk, i) <= table[x].expires + LVL_GRAN(i \div LVL_SIZE)
                \/ EmptiedAt(a.clk, i) = a.clk
  <2>1. PICK t : t = EmptiedAt(b.clk, i) OBVIOUS
  <2>2. t \in Nat /\ b.clk <= t /\ a.clk <= t /\ EmptiedAt(a.clk, i) = t
    BY <1>1, <1>2, <1>3, <2>1, EmptiedAtStays
  <2>3. x \in ToSet(b.vectors[i]) /\ table[x].expires = timer[x].expires BY <1>3
  <2>4. /\ t >= timer[x].expires
        /\ t <= timer[x].expires + LVL_GRAN(i \div LVL_SIZE) \/ t = b.clk
    BY <2>1, <2>3 DEF OnTime
  <2>5. t = b.clk => t = a.clk BY <1>1, <2>2
  <2> QED BY <2>2, <2>3, <2>4, <2>5
<1> QED BY <1>2, <1>3 DEF OnTime

(***************************************************************************)
(* What is done to one base keeps it timely.                                *)
(***************************************************************************)
SameClock(a, b) ==
  /\ a.clk = b.clk /\ a.next_expiry = b.next_expiry
  /\ a.is_idle = b.is_idle /\ a.must_forward_clk = b.must_forward_clk

\* Timers leave, the clock stays.
LEMMA FewerTimers ==
  ASSUME NEW s, NEW j \in Nat, NEW b \in timer_base, NEW a \in timer_base, NEW timer, NEW table,
         Timely(s, b, timer, j), SameClock(a, b), a.pending_map \subseteq b.pending_map,
         \A i \in Buckets : ToSet(a.vectors[i]) \subseteq ToSet(b.vectors[i]),
         \A i \in Buckets : \A x \in ToSet(a.vectors[i]) : table[x].expires = timer[x].expires
  PROVE  Timely(s, a, table, j)
<1>1. a.clk \in Nat /\ b.clk \in Nat BY DEF timer_base
<1>2. \A i \in Buckets : a.clk <= EmptiedAt(b.clk, i) BY <1>1, EmptiedAtStays DEF SameClock
<1>3. OnTime(a, table)
  <2>1. OnTime(b, timer) /\ b.clk <= a.clk BY <1>1 DEF Timely, SameClock
  <2> QED BY <1>2, <2>1, StillOnTime
<1>4. Ahead(s, a) \subseteq Ahead(s, b) BY DEF Ahead
<1>5. Forwardable(s, a) BY <1>4 DEF Timely, Forwardable, SameClock
<1>6. Close(s, a, j) BY DEF Timely, Close, Near, SameClock
<1> QED BY <1>3, <1>5, <1>6 DEF Timely, SameClock

\* forward_timer_base, of one base.
ForwardedBase(b, j) ==
  IF ~b.must_forward_clk THEN b
  ELSE [b EXCEPT !.must_forward_clk = b.is_idle,
                 !.clk = IF j - @ < 2 THEN @ ELSE ForwardTo(b.next_expiry, j)]

\* The clock has been forwarded and may be asked for a bucket.
Forward(s, b, j) == Near(s, b, j) /\ (b.must_forward_clk => b.is_idle)

SameListed(a, b) ==
  /\ a.vectors = b.vectors /\ a.heads = b.heads
  /\ a.pending_map = b.pending_map /\ a.running = b.running

LEMMA ForwardedFields ==
  ASSUME NEW b \in timer_base, NEW j \in Nat, NEW a, a = ForwardedBase(b, j)
  PROVE  /\ a \in timer_base /\ SameListed(a, b)
         /\ a.next_expiry = b.next_expiry /\ a.is_idle = b.is_idle
         /\ a.must_forward_clk <=> b.must_forward_clk /\ b.is_idle
         /\ a.clk = IF ~b.must_forward_clk \/ j - b.clk < 2 THEN b.clk
                    ELSE IF b.next_expiry > j THEN j ELSE b.next_expiry
<1>0. /\ b.must_forward_clk \in BOOLEAN /\ b.is_idle \in BOOLEAN
      /\ b.clk \in Nat /\ b.next_expiry \in Nat
  BY DEF timer_base
<1>1. CASE ~b.must_forward_clk BY <1>0, <1>1 DEF ForwardedBase, SameListed
<1>2. CASE b.must_forward_clk
  <2>1. PICK k \in Nat : k = IF j - b.clk < 2 THEN b.clk ELSE IF b.next_expiry > j THEN j ELSE b.next_expiry
    BY <1>0
  <2>2. a = [b EXCEPT !.must_forward_clk = b.is_idle, !.clk = k]
    BY <1>2, <2>1 DEF ForwardedBase, ForwardTo
  <2>3. /\ a \in timer_base /\ SameListed(a, b) /\ a.clk = k
        /\ a.next_expiry = b.next_expiry /\ a.is_idle = b.is_idle /\ a.must_forward_clk = b.is_idle
    BY <1>0, <2>2 DEF timer_base, SameListed
  <2> QED BY <1>0, <1>2, <2>1, <2>3
<1> QED BY <1>1, <1>2

LEMMA ForwardInTime ==
  ASSUME NEW s, s.lag \in Nat \ {0}, NEW j \in Nat, NEW b \in timer_base, NEW timer,
         Timely(s, b, timer, j), NEW a, a = ForwardedBase(b, j)
  PROVE  Timely(s, a, timer, j) /\ Forward(s, a, j)
<1>0. /\ b.must_forward_clk \in BOOLEAN /\ b.is_idle \in BOOLEAN
      /\ b.clk \in Nat /\ b.next_expiry \in Nat
  BY DEF timer_base
<1>1. /\ a \in timer_base /\ SameListed(a, b)
      /\ a.next_expiry = b.next_expiry /\ a.is_idle = b.is_idle
      /\ a.must_forward_clk <=> b.must_forward_clk /\ b.is_idle
      /\ a.clk = IF ~b.must_forward_clk \/ j - b.clk < 2 THEN b.clk
                 ELSE IF b.next_expiry > j THEN j ELSE b.next_expiry
  BY ForwardedFields
<1>2. /\ b.clk <= j + 1 /\ OnTime(b, timer) /\ Forwardable(s, b) /\ Close(s, b, j)
      /\ b.is_idle => b.must_forward_clk
  BY DEF Timely
<1>3. CASE ~b.must_forward_clk
  <2>1. SameClock(a, b)
    <3>1. a = b BY <1>3 DEF ForwardedBase
    <3> QED BY <3>1 DEF SameClock
  <2>2. Timely(s, a, timer, j) BY <1>1, <2>1, FewerTimers DEF SameListed
  <2>3. Near(s, a, j) BY <1>2, <1>3, <2>1 DEF Close, Near, SameClock
  <2> QED BY <1>1, <1>3, <2>2, <2>3 DEF Forward
<1>4. CASE b.must_forward_clk
  <2>1. /\ b.clk <= b.next_expiry /\ b.next_expiry <= b.clk + NEXT_TIMER_MAX_DELTA
        /\ \A i \in Ahead(s, b) : b.next_expiry <= EmptiedAt(b.clk, i)
    BY <1>2, <1>4 DEF Forwardable
  <2>2. /\ a.clk \in Nat /\ b.clk <= a.clk /\ a.clk <= b.next_expiry /\ a.clk <= j + 1
    BY <1>0, <1>1, <1>2, <1>4, <2>1
  <2>3. Ahead(s, a) = Ahead(s, b) BY <1>1 DEF Ahead, SameListed
  <2>4. \A i \in Ahead(s, b) : a.clk <= EmptiedAt(b.clk, i) /\ EmptiedAt(b.clk, i) \in Nat
    <3> SUFFICES ASSUME NEW i \in Ahead(s, b)
                 PROVE  a.clk <= EmptiedAt(b.clk, i) /\ EmptiedAt(b.clk, i) \in Nat
      OBVIOUS
    <3>1. EmptiedAt(b.clk, i) \in Nat BY <1>0, EmptiedAtStays DEF Ahead
    <3> QED BY <1>0, <2>1, <2>2, <3>1
  <2>5. /\ OnTime(a, timer)
        /\ \A i \in Buckets : a.clk <= EmptiedAt(b.clk, i) => EmptiedAt(a.clk, i) = EmptiedAt(b.clk, i)
    <3>1. \A i \in Buckets : ToSet(a.vectors[i]) # {} => a.clk <= EmptiedAt(b.clk, i)
      BY <1>1, <2>4 DEF Ahead, SameListed
    <3> QED BY <1>1, <1>2, <2>2, <3>1, StillOnTime DEF SameListed
  <2>6. Forwardable(s, a)
    <3>1. \A i \in Ahead(s, a) : a.next_expiry <= EmptiedAt(a.clk, i)
      BY <1>1, <2>1, <2>3, <2>4, <2>5 DEF Ahead
    <3>2. a.next_expiry <= a.clk + NEXT_TIMER_MAX_DELTA
      BY <1>0, <1>1, <2>1, <2>2, LinuxWheelAssumption
    <3> QED BY <1>1, <2>2, <3>1, <3>2 DEF Forwardable
  <2>7. Near(s, a, j)
    <3> SUFFICES ASSUME s.hotplug = {} PROVE j - a.clk <= s.lag BY DEF Near
    <3>1. j - b.clk <= s.lag \/ j - b.next_expiry <= s.lag BY <1>2 DEF Close, Near
    <3> QED BY <1>0, <1>1, <1>4, <2>1, <2>2, <3>1
  <2>8. a.is_idle => a.must_forward_clk BY <1>1, <1>4
  <2> QED BY <1>1, <2>2, <2>5, <2>6, <2>7, <2>8 DEF Timely, Forward, Close
<1> QED BY <1>3, <1>4

\* What a forwarded clock is asked for is within reach of its wheel.
LEMMA ReachedIsInWheel ==
  ASSUME NEW s, s.lag \in Nat, NEW j \in Nat, NEW b \in timer_base, Near(s, b, j),
         NEW e \in Nat, Reached(s, e, j)
  PROVE  InWheel(e, b.clk)
<1>1. PICK k \in Int : k = LVL_START(LVL_DEPTH - 1)
  <2>1. (LVL_DEPTH - 1) - 1 \in Nat BY LinuxWheelAssumption
  <2>2. PICK l \in Nat : l = (LVL_DEPTH - 1) - 1 BY <2>1
  <2>3. l * LVL_CLK_SHIFT \in Nat BY LinuxWheelAssumption
  <2>4. PICK g \in Nat : g = 2 ^ (l * LVL_CLK_SHIFT) BY <2>3, PowerIsPositive
  <2>5. PICK n \in Int : n = LVL_SIZE - 1 BY Sizes
  <2>6. n * g \in Int OBVIOUS
  <2>7. LVL_START(LVL_DEPTH - 1) = n * g BY <2>2, <2>4, <2>5 DEF LVL_START
  <2> QED BY <2>6, <2>7
<1>2. b.clk \in Nat BY DEF timer_base
<1>3. CASE e < WHEEL_TIMEOUT_CUTOFF BY <1>3 DEF InWheel
<1>4. CASE s.hotplug = {} /\ e - j + s.lag < k
  <2>1. j - b.clk <= s.lag BY <1>4 DEF Near
  <2>2. e - b.clk < k BY <1>2, <1>4, <2>1
  <2> QED BY <1>1, <2>2 DEF InWheel
<1> QED BY <1>1, <1>3, <1>4 DEF Reached

\* a is base b with timer x, of expiry e, in bucket idx; an idle base is told of
\* an earlier timer.
BucketGets(a, b, x, e, idx) ==
  /\ \A i \in Buckets : ToSet(a.vectors[i]) =
       IF i = idx THEN ToSet(b.vectors[i]) \cup {x} ELSE ToSet(b.vectors[i])
  /\ a.pending_map = b.pending_map \cup {idx}
  /\ a.clk = b.clk /\ a.is_idle = b.is_idle /\ a.must_forward_clk = b.must_forward_clk
  /\ a.next_expiry = IF b.is_idle /\ e < b.next_expiry THEN e ELSE b.next_expiry

LEMMA AddInTime ==
  ASSUME NEW s, s.lag \in Nat, NEW j \in Nat, NEW b \in timer_base, NEW a \in timer_base,
         NEW timer, NEW table, NEW x, NEW e \in Nat, e = timer[x].expires,
         Timely(s, b, timer, j), Forward(s, b, j), Reached(s, e, j), b.is_idle => j < e,
         NEW idx, idx = calc_wheel_index(e, b.clk), BucketGets(a, b, x, e, idx),
         \A i \in Buckets : \A y \in ToSet(a.vectors[i]) : table[y].expires = timer[y].expires
  PROVE  Timely(s, a, table, j) /\ Forward(s, a, j)
<1> USE DEF BucketGets
<1>0. b.clk \in Nat /\ b.next_expiry \in Nat BY DEF timer_base
<1>1. /\ idx \in Buckets /\ EmptiedAt(b.clk, idx) >= e
      /\ EmptiedAt(b.clk, idx) <= e + LVL_GRAN(idx \div LVL_SIZE) \/ EmptiedAt(b.clk, idx) = b.clk
  <2>1. InWheel(e, b.clk) BY ReachedIsInWheel DEF Forward
  <2> QED BY <1>0, <2>1, PlacedInTime
<1>2. OnTime(a, table)
  <2> SUFFICES ASSUME NEW i \in Buckets, NEW y \in ToSet(a.vectors[i])
               PROVE  /\ EmptiedAt(b.clk, i) >= timer[y].expires
                      /\ \/ EmptiedAt(b.clk, i) <= timer[y].expires + LVL_GRAN(i \div LVL_SIZE)
                         \/ EmptiedAt(b.clk, i) = b.clk
    BY DEF OnTime
  <2>1. CASE y \in ToSet(b.vectors[i]) BY <2>1 DEF Timely, OnTime
  <2>2. CASE y \notin ToSet(b.vectors[i])
    <3>1. i = idx /\ y = x BY <2>2
    <3> QED BY <1>1, <3>1
  <2> QED BY <2>1, <2>2
<1>3. Ahead(s, a) \subseteq Ahead(s, b) \cup {idx} BY DEF Ahead
<1>4. Forwardable(s, a)
  <2> SUFFICES ASSUME b.must_forward_clk
               PROVE  /\ b.clk <= a.next_expiry /\ a.next_expiry <= b.clk + NEXT_TIMER_MAX_DELTA
                      /\ \A i \in Ahead(s, b) \cup {idx} : a.next_expiry <= EmptiedAt(b.clk, i)
    BY <1>3 DEF Forwardable
  <2>1. b.is_idle /\ j < e BY DEF Forward
  <2>2. /\ b.clk <= b.next_expiry /\ b.next_expiry <= b.clk + NEXT_TIMER_MAX_DELTA
        /\ \A i \in Ahead(s, b) : b.next_expiry <= EmptiedAt(b.clk, i)
    BY DEF Timely, Forwardable
  <2>3. b.clk <= e BY <1>0, <2>1 DEF Timely
  <2>4. a.next_expiry \in Nat /\ a.next_expiry <= b.next_expiry /\ a.next_expiry <= e
        /\ b.clk <= a.next_expiry
    BY <1>0, <2>1, <2>2, <2>3
  <2>5. \A i \in Buckets : EmptiedAt(b.clk, i) \in Nat BY <1>0, EmptiedAtStays
  <2>6. \A i \in Ahead(s, b) : a.next_expiry <= EmptiedAt(b.clk, i)
    <3> SUFFICES ASSUME NEW i \in Ahead(s, b) PROVE a.next_expiry <= EmptiedAt(b.clk, i) OBVIOUS
    <3>1. EmptiedAt(b.clk, i) \in Nat BY <2>5 DEF Ahead
    <3> QED BY <1>0, <2>2, <2>4, <3>1
  <2>7. a.next_expiry <= EmptiedAt(b.clk, idx) BY <1>1, <2>4, <2>5
  <2>8. a.next_expiry <= b.clk + NEXT_TIMER_MAX_DELTA
    BY <1>0, <2>2, <2>4, LinuxWheelAssumption
  <2> QED BY <2>4, <2>6, <2>7, <2>8
<1>5. Near(s, a, j) BY DEF Forward, Near
<1> QED BY <1>2, <1>4, <1>5 DEF Timely, Forward, Close

\* The buckets that __collect_expired_timers empties.
Due(b) == {BucketAt(b.clk, l) : l \in DueLvls(b)}

\* A bucket that is due is one of them.
LEMMA DueIsCollected ==
  ASSUME NEW b \in timer_base, NEW i \in b.pending_map, EmptiedAt(b.clk, i) = b.clk
  PROVE  i \in Due(b)
<1>0. b.clk \in Nat /\ i \in Buckets BY DEF timer_base
<1>1. PICK l \in Lvls : l = i \div LVL_SIZE BY <1>0, BucketFields
<1>2. PICK g \in Nat \ {0} : g = LVL_GRAN(l) BY Sizes
<1>3. PICK n : FirstTick(b.clk, i, n) /\ b.clk = n * g BY <1>0, <1>1, <1>2, FirstTickFacts
<1>4. n \in Nat /\ n % LVL_SIZE = i - LVL_OFFS(l) BY <1>1, <1>3 DEF FirstTick
<1>5. b.clk % g = 0 /\ b.clk \div g = n
  <2>1. n * g = g * n + 0 /\ n * g \in Nat BY <1>4
  <2>2. (n * g) % g = 0 /\ (n * g) \div g = n BY <1>4, <2>1
  <2> QED BY <1>3, <2>2
<1>6. BucketAt(b.clk, l) = i
  <2>1. LVL_OFFS(l) \in Nat /\ i \in Nat BY <1>0, BucketFields, Sizes DEF LVL_OFFS
  <2>2. BucketAt(b.clk, l) = LVL_OFFS(l) + (i - LVL_OFFS(l)) BY <1>2, <1>4, <1>5 DEF BucketAt
  <2> QED BY <2>1, <2>2
<1>7. l \in DueLvls(b) BY <1>2, <1>5, <1>6 DEF DueLvls
<1> QED BY <1>6, <1>7 DEF Due

LEMMA CollectFields ==
  ASSUME NEW b \in timer_base, NEW a, a = __collect_expired_timers(b)
  PROVE  /\ SameClock(a, b) /\ a.pending_map = b.pending_map \ Due(b)
         /\ \A i \in Buckets : a.vectors[i] = IF i \in Due(b) THEN <<>> ELSE b.vectors[i]
BY DEF Due, __collect_expired_timers, SameClock, timer_base

\* The bit of a bucket with timers is set.
LEMMA FitsBits ==
  ASSUME NEW V \in Wheels, NEW c \in Cpu, NEW b, Fits(V, c, b)
  PROVE  /\ b \in timer_base
         /\ \A i \in Buckets : ToSet(b.vectors[i]) \subseteq Timer
         /\ \A i \in Buckets : ToSet(b.vectors[i]) # {} => i \in b.pending_map
<1>1. b \in timer_base BY DEF Fits
<1>2. \A i \in Buckets : ToSet(b.vectors[i]) \subseteq Timer
  <2> SUFFICES ASSUME NEW i \in Buckets PROVE ToSet(b.vectors[i]) \subseteq Timer OBVIOUS
  <2>1. b.vectors[i] \in Seq(Timer) BY <1>1 DEF timer_base
  <2> QED BY <2>1 DEF ToSet
<1>3. PICK U : U = [V EXCEPT !.base[c] = b] OBVIOUS
<1>4. U.base[c] = b BY <1>1, <1>3 DEF Wheels
<1>5. \A x \in Timer : InVectors(U, x) BY <1>3 DEF Fits, Placed
<1>6. \A x \in Timer, i \in Buckets : x \in ToSet(b.vectors[i]) => i \in b.pending_map
  BY <1>4, <1>5 DEF InVectors
<1> QED BY <1>1, <1>2, <1>6

Behind(b, m) ==
  /\ m <= b.clk + NEXT_TIMER_MAX_DELTA
  /\ \A i \in b.pending_map : m <= EmptiedAt(b.clk, i)

\* A turn of __run_timers skips no bucket and catches up.
LEMMA TurnInTime ==
  ASSUME NEW V \in Wheels, NEW c \in Cpu, NEW b, Fits(V, c, b), NEW now \in Nat, NEW timer,
         OnTime(b, timer), b.clk <= now, b.heads = NoHeads,
         NEW a, a = Turn(now)[b]
  PROVE  /\ OnTime(a, timer) /\ b.clk < a.clk /\ a.clk <= now + 1
         /\ a.is_idle = b.is_idle /\ a.must_forward_clk = b.must_forward_clk
         /\ \A m \in Nat : Behind(b, m) => m < a.clk \/ now - a.clk <= 1
<1>0. /\ b \in timer_base /\ b.clk \in Nat
      /\ \A i \in Buckets : ToSet(b.vectors[i]) # {} => i \in b.pending_map
  <2>1. /\ b \in timer_base
        /\ \A i \in Buckets : ToSet(b.vectors[i]) # {} => i \in b.pending_map
    BY FitsBits
  <2> QED BY <2>1 DEF timer_base
<1>1. PICK next : next = __next_timer_interrupt(b) OBVIOUS
<1>2. /\ next \in Nat /\ b.clk <= next
      /\ \A i \in b.pending_map : next <= EmptiedAt(b.clk, i)
      /\ \A m \in Nat : Behind(b, m) => m <= next
  BY <1>0, <1>1, NextInterruptFacts DEF Behind
<1>3. PICK e : e = collect_expired_timers(b, now) OBVIOUS
<1>4. a = [e EXCEPT !.clk = @ + 1] BY <1>0, <1>3 DEF Turn
<1>5. a \in timer_base
  <2>1. Fits(V, c, a) BY TurnFits
  <2> QED BY <2>1 DEF Fits
<1>6. \A i \in Buckets : EmptiedAt(b.clk, i) \in Nat /\ b.clk <= EmptiedAt(b.clk, i)
  BY <1>0, EmptiedAtStays
<1>7. \A i \in b.pending_map : i \in Buckets BY <1>0 DEF timer_base
<1>8. ASSUME NEW k \in Nat, b.clk <= k, k <= now, e = __collect_expired_timers([b EXCEPT !.clk = k]),
             \A i \in b.pending_map : k <= EmptiedAt(b.clk, i)
      PROVE  OnTime(a, timer) /\ a.clk = k + 1 /\ a.is_idle = b.is_idle
             /\ a.must_forward_clk = b.must_forward_clk
  <2>1. PICK bk : bk = [b EXCEPT !.clk = k] OBVIOUS
  <2>2. /\ bk \in timer_base /\ SameListed(bk, b) /\ bk.clk = k
        /\ bk.is_idle = b.is_idle /\ bk.must_forward_clk = b.must_forward_clk
    BY <1>0, <2>1 DEF timer_base, SameListed
  <2>3. OnTime(bk, timer)
    <3>1. \A i \in Buckets : ToSet(b.vectors[i]) # {} => k <= EmptiedAt(b.clk, i) BY <1>0, <1>8
    <3>2. bk.vectors = b.vectors /\ b.clk <= bk.clk BY <1>8, <2>2 DEF SameListed
    <3> QED BY <1>0, <2>2, <3>1, <3>2, StillOnTime
  <2>4. e = __collect_expired_timers(bk) BY <1>8, <2>1
  <2>5. /\ SameClock(e, bk)
        /\ \A i \in Buckets : e.vectors[i] = IF i \in Due(bk) THEN <<>> ELSE bk.vectors[i]
    BY <2>2, <2>4, CollectFields
  <2>6. /\ a.clk = k + 1 /\ a.vectors = e.vectors
        /\ a.is_idle = e.is_idle /\ a.must_forward_clk = e.must_forward_clk
    <3>1. Fits(V, c, bk) BY <2>2, OtherFieldsFit DEF SameListed
    <3>2. bk.heads = NoHeads BY <2>2 DEF SameListed
    <3>3. Fits(V, c, e) /\ e.clk = k
      BY <2>2, <2>4, <3>1, <3>2, CollectFits
    <3>4. e \in timer_base BY <3>3 DEF Fits
    <3> QED BY <1>4, <3>3, <3>4 DEF timer_base
  <2>7. \A i \in Buckets : ToSet(a.vectors[i]) \subseteq ToSet(bk.vectors[i])
    BY <2>5, <2>6, EmptyList
  <2>8. ASSUME NEW i \in Buckets, ToSet(a.vectors[i]) # {} PROVE k + 1 <= EmptiedAt(bk.clk, i)
    <3>1. i \notin Due(bk) BY <2>5, <2>6, <2>8, EmptyList
    <3>2. i \in bk.pending_map BY <1>0, <2>2, <2>7, <2>8 DEF SameListed
    <3>3. EmptiedAt(bk.clk, i) # bk.clk BY <2>2, <3>1, <3>2, DueIsCollected
    <3>4. EmptiedAt(bk.clk, i) \in Nat /\ bk.clk <= EmptiedAt(bk.clk, i) BY <2>2, EmptiedAtStays
    <3> QED BY <2>2, <3>3, <3>4
  <2>9. OnTime(a, timer)
    <3>1. bk.clk <= a.clk BY <1>8, <2>2, <2>6
    <3>2. \A i \in Buckets : ToSet(a.vectors[i]) # {} => a.clk <= EmptiedAt(bk.clk, i) BY <2>6, <2>8
    <3> QED BY <1>5, <2>2, <2>3, <2>7, <3>1, <3>2, StillOnTime
  <2> QED BY <2>2, <2>5, <2>6, <2>9 DEF SameClock
<1>9. CASE now - b.clk <= 2
  <2>1. e = __collect_expired_timers([b EXCEPT !.clk = b.clk])
    <3>1. b = [b EXCEPT !.clk = b.clk] BY <1>0 DEF timer_base
    <3> QED BY <1>3, <1>9, <3>1 DEF collect_expired_timers
  <2>2. /\ OnTime(a, timer) /\ a.clk = b.clk + 1 /\ a.is_idle = b.is_idle
        /\ a.must_forward_clk = b.must_forward_clk
    BY <1>0, <1>6, <1>7, <1>8, <2>1
  <2> QED BY <1>0, <1>9, <2>2
<1>10. CASE ~(now - b.clk <= 2) /\ next > now
  <2>1. e = [b EXCEPT !.clk = now] BY <1>1, <1>3, <1>10 DEF collect_expired_timers
  <2>2. /\ a.vectors = b.vectors /\ a.clk = now + 1
        /\ a.is_idle = b.is_idle /\ a.must_forward_clk = b.must_forward_clk
    BY <1>0, <1>4, <2>1 DEF timer_base
  <2>3. \A i \in Buckets : ToSet(a.vectors[i]) # {} => a.clk <= EmptiedAt(b.clk, i)
    <3> SUFFICES ASSUME NEW i \in Buckets, ToSet(b.vectors[i]) # {} PROVE now + 1 <= EmptiedAt(b.clk, i)
      BY <2>2
    <3>1. next <= EmptiedAt(b.clk, i) /\ EmptiedAt(b.clk, i) \in Nat BY <1>0, <1>2, <1>6
    <3> QED BY <1>2, <1>10, <3>1
  <2>4. OnTime(a, timer)
    <3>1. b.clk <= a.clk BY <1>0, <2>2
    <3> QED BY <1>0, <1>5, <2>2, <2>3, <3>1, StillOnTime
  <2> QED BY <1>0, <2>2, <2>4
<1>11. CASE ~(now - b.clk <= 2) /\ ~(next > now)
  <2>1. e = __collect_expired_timers([b EXCEPT !.clk = next])
    BY <1>1, <1>3, <1>11 DEF collect_expired_timers
  <2>2. next <= now BY <1>2, <1>11
  <2>3. /\ OnTime(a, timer) /\ a.clk = next + 1 /\ a.is_idle = b.is_idle
        /\ a.must_forward_clk = b.must_forward_clk
    BY <1>2, <1>8, <2>1, <2>2
  <2>4. \A m \in Nat : Behind(b, m) => m < a.clk BY <1>2, <2>3
  <2> QED BY <1>0, <1>2, <2>2, <2>3, <2>4
<1> QED BY <1>9, <1>10, <1>11

\* After the loop of __run_timers the clock has caught up; before it, it may
\* lag behind as far as next_expiry if nothing has been collected yet.
Caught(s, b, timer, now) ==
  /\ b.clk <= now + 1 /\ OnTime(b, timer) /\ Near(s, b, now)
  /\ ~b.must_forward_clk /\ ~b.is_idle

CatchesUp(s, b, now) ==
  \/ Near(s, b, now)
  \/ /\ b.heads = NoHeads /\ b.clk <= now
     /\ \E m \in Nat : Behind(b, m) /\ now - m <= s.lag

LEMMA TurnCatchesUp ==
  ASSUME NEW s, s.lag \in Nat \ {0}, NEW V \in Wheels, NEW c \in Cpu, NEW b, Fits(V, c, b),
         NEW now \in Nat, NEW timer, b.clk <= now + 1, OnTime(b, timer),
         ~b.must_forward_clk, ~b.is_idle, CatchesUp(s, b, now)
  PROVE  Fits(V, c, Turn(now)[b]) /\ Caught(s, Turn(now)[b], timer, now)
<1>0. b \in timer_base /\ b.clk \in Nat BY DEF Fits, timer_base
<1>1. PICK a : a = Turn(now)[b] OBVIOUS
<1>2. Fits(V, c, a) BY <1>1, TurnFits
<1>3. CASE b.heads # NoHeads \/ now < b.clk
  <2>1. a = b BY <1>0, <1>1, <1>3 DEF Turn
  <2>2. Near(s, b, now) BY <1>0, <1>3 DEF CatchesUp
  <2> QED BY <1>1, <1>2, <2>1, <2>2 DEF Caught
<1>4. CASE b.heads = NoHeads /\ ~(now < b.clk)
  <2>1. b.clk <= now BY <1>0, <1>4
  <2>2. /\ OnTime(a, timer) /\ b.clk < a.clk /\ a.clk <= now + 1
        /\ a.is_idle = b.is_idle /\ a.must_forward_clk = b.must_forward_clk
        /\ \A m \in Nat : Behind(b, m) => m < a.clk \/ now - a.clk <= 1
    BY <1>1, <1>4, <2>1, TurnInTime
  <2>3. a.clk \in Nat BY <1>2 DEF Fits, timer_base
  <2>4. Near(s, a, now)
    <3> SUFFICES ASSUME s.hotplug = {} PROVE now - a.clk <= s.lag BY DEF Near
    <3>1. CASE now - b.clk <= s.lag BY <1>0, <2>2, <2>3, <3>1
    <3>2. CASE \E m \in Nat : Behind(b, m) /\ now - m <= s.lag
      <4>1. PICK m \in Nat : Behind(b, m) /\ now - m <= s.lag BY <3>2
      <4>2. m < a.clk \/ now - a.clk <= 1 BY <2>2, <4>1
      <4> QED BY <2>3, <4>1, <4>2
    <3> QED BY <3>1, <3>2 DEF CatchesUp, Near
  <2> QED BY <1>1, <1>2, <2>2, <2>4 DEF Caught
<1> QED BY <1>3, <1>4

LEMMA CollectedInTime ==
  ASSUME NEW s, s.lag \in Nat \ {0}, NEW V \in Wheels, NEW c \in Cpu, NEW b, Fits(V, c, b),
         NEW now \in Nat, NEW timer, b.clk <= now + 1, OnTime(b, timer),
         ~b.must_forward_clk, ~b.is_idle, CatchesUp(s, b, now),
         NEW a, a = Collected(b, now)
  PROVE  Timely(s, a, timer, now) /\ ~a.must_forward_clk /\ ~a.is_idle
<1> DEFINE L == {y \in timer_base : Fits(V, c, y) /\ Caught(s, y, timer, now)}
<1>0. b \in timer_base /\ b.clk \in Nat BY DEF Fits, timer_base
<1>1. ASSUME NEW y, Fits(V, c, y), Caught(s, y, timer, now)
      PROVE  Timely(s, y, timer, now) /\ ~y.must_forward_clk /\ ~y.is_idle
  BY <1>1 DEF Caught, Timely, Forwardable, Close
<1>2. CASE now < b.clk
  <2>1. a = b BY <1>2 DEF Collected
  <2>2. Near(s, b, now) BY <1>0, <1>2 DEF CatchesUp
  <2>3. Caught(s, b, timer, now) BY <2>2 DEF Caught
  <2> QED BY <1>1, <2>1, <2>3
<1>3. CASE ~(now < b.clk)
  <2>1. PICK n \in Nat \ {0} : n = now - b.clk + 1 BY <1>0, <1>3
  <2> DEFINE P == [k \in Nat |-> IF k = 0 THEN {b} ELSE L]
  <2>2. Turn(now)[b] \in L
    <3>1. Fits(V, c, Turn(now)[b]) /\ Caught(s, Turn(now)[b], timer, now) BY TurnCatchesUp
    <3> QED BY <3>1 DEF Fits
  <2>3. ASSUME NEW y \in L PROVE Turn(now)[y] \in L
    <3>1. CatchesUp(s, y, now) /\ y.clk <= now + 1 /\ OnTime(y, timer) /\ ~y.must_forward_clk /\ ~y.is_idle
      BY DEF Caught, CatchesUp
    <3>2. Fits(V, c, Turn(now)[y]) /\ Caught(s, Turn(now)[y], timer, now) BY <3>1, TurnCatchesUp
    <3> QED BY <3>2 DEF Fits
  <2>4. b \in P[0] /\ P[n] = L OBVIOUS
  <2>5. \A k \in 0 .. (n - 1) : \A y \in P[k] : Turn(now)[y] \in P[k + 1]
    <3> SUFFICES ASSUME NEW k \in 0 .. (n - 1), NEW y \in P[k] PROVE Turn(now)[y] \in P[k + 1] OBVIOUS
    <3>1. P[k + 1] = L OBVIOUS
    <3>2. y = b \/ y \in L OBVIOUS
    <3> HIDE DEF P, L
    <3> QED BY <2>2, <2>3, <3>1, <3>2
  <2> HIDE DEF P, L
  <2>6. Iterate(Turn(now), b, n) \in L BY <2>4, <2>5, IteratesThrough
  <2>7. a \in L BY <1>3, <2>1, <2>6 DEF Collected
  <2> QED BY <1>1, <2>7 DEF L
<1> QED BY <1>2, <1>3

(***************************************************************************)
(* An idle CPU.                                                             *)
(***************************************************************************)
LEMMA InterruptFields ==
  ASSUME NEW b \in timer_base, NEW j \in Nat, NEW a, a = get_next_timer_interrupt(b, j),
         NEW n, n = __next_timer_interrupt(b)
  PROVE  /\ a \in timer_base /\ SameListed(a, b) /\ a.next_expiry = n
         /\ a.clk \in Nat /\ b.clk <= a.clk /\ a.clk <= n /\ (a.clk <= b.clk \/ a.clk <= j)
         /\ a.is_idle => n > j /\ (b.is_idle \/ n > j + 1)
         /\ a.must_forward_clk <=> b.must_forward_clk \/ n > j + 1
<1>1. n \in Nat /\ b.clk <= n /\ b.clk \in Nat BY NextInterruptFacts DEF timer_base
<1>2. b.is_idle \in BOOLEAN /\ b.must_forward_clk \in BOOLEAN BY DEF timer_base
<1>3. Max({n, b.clk}) \in {n, b.clk} /\ Max({n, b.clk}) = n
  <2>1. \E m \in {n, b.clk} : \A y \in {n, b.clk} : m >= y BY <1>1
  <2>2. Max({n, b.clk}) \in {n, b.clk} /\ \A y \in {n, b.clk} : Max({n, b.clk}) >= y BY <2>1 DEF Max
  <2> QED BY <1>1, <2>2
<1>4. PICK k \in Nat : k = IF j <= b.clk THEN b.clk ELSE IF n > j THEN j ELSE n BY <1>1
<1>5. PICK i \in BOOLEAN : i = IF n <= j THEN FALSE ELSE b.is_idle \/ n > j + 1 BY <1>2
<1>6. PICK f \in BOOLEAN : f = (b.must_forward_clk \/ n > j + 1) BY <1>2
<1>7. a = [b EXCEPT !.next_expiry = n, !.clk = k, !.is_idle = i, !.must_forward_clk = f]
  BY <1>3, <1>4, <1>5, <1>6 DEF get_next_timer_interrupt
<1>8. /\ a \in timer_base /\ SameListed(a, b) /\ a.next_expiry = n
      /\ a.clk = k /\ a.is_idle = i /\ a.must_forward_clk = f
  BY <1>1, <1>7 DEF timer_base, SameListed
<1>9. b.clk <= k /\ k <= n /\ (k <= b.clk \/ k <= j) BY <1>1, <1>4
<1>10. i => n > j /\ (b.is_idle \/ n > j + 1)
  <2>1. CASE n <= j
    <3>1. i = FALSE BY <1>5, <2>1
    <3> QED BY <3>1
  <2>2. CASE ~(n <= j)
    <3>1. n > j BY <1>1, <2>2
    <3>2. i = (b.is_idle \/ n > j + 1) BY <1>5, <2>2
    <3> QED BY <1>2, <3>1, <3>2
  <2> QED BY <2>1, <2>2
<1> QED BY <1>6, <1>8, <1>9, <1>10

LEMMA InterruptInTime ==
  ASSUME NEW s, NEW j \in Nat, NEW b \in timer_base, NEW timer, Timely(s, b, timer, j), s.lag \in Nat,
         \A i \in Buckets : ToSet(b.vectors[i]) # {} => i \in b.pending_map,
         NEW a, a = get_next_timer_interrupt(b, j)
  PROVE  Timely(s, a, timer, j)
<1>0. b.clk \in Nat /\ b.next_expiry \in Nat BY DEF timer_base
<1>1. PICK n : n = __next_timer_interrupt(b) OBVIOUS
<1>2. /\ n \in Nat /\ b.clk <= n /\ n <= b.clk + NEXT_TIMER_MAX_DELTA
      /\ \A i \in b.pending_map : n <= EmptiedAt(b.clk, i)
      /\ \A m \in Nat : Behind(b, m) => m <= n
  BY <1>1, NextInterruptFacts DEF Behind
<1>3. /\ a \in timer_base /\ SameListed(a, b) /\ a.next_expiry = n
      /\ a.clk \in Nat /\ b.clk <= a.clk /\ a.clk <= n /\ (a.clk <= b.clk \/ a.clk <= j)
      /\ a.is_idle => n > j /\ (b.is_idle \/ n > j + 1)
      /\ a.must_forward_clk <=> b.must_forward_clk \/ n > j + 1
  BY <1>1, InterruptFields
<1>4. /\ b.clk <= j + 1 /\ OnTime(b, timer) /\ Forwardable(s, b) /\ Close(s, b, j)
      /\ b.is_idle => b.must_forward_clk
  BY DEF Timely
<1>5. \A i \in b.pending_map : i \in Buckets /\ a.clk <= EmptiedAt(b.clk, i)
  <2> SUFFICES ASSUME NEW i \in b.pending_map PROVE i \in Buckets /\ a.clk <= EmptiedAt(b.clk, i) OBVIOUS
  <2>1. i \in Buckets BY DEF timer_base
  <2>2. EmptiedAt(b.clk, i) \in Nat BY <1>0, <2>1, EmptiedAtStays
  <2> QED BY <1>2, <1>3, <2>1, <2>2
<1>6. /\ OnTime(a, timer)
      /\ \A i \in Buckets : a.clk <= EmptiedAt(b.clk, i) => EmptiedAt(a.clk, i) = EmptiedAt(b.clk, i)
  <2>1. \A i \in Buckets : ToSet(a.vectors[i]) # {} => a.clk <= EmptiedAt(b.clk, i)
    BY <1>3, <1>5 DEF SameListed
  <2> QED BY <1>3, <1>4, <2>1, StillOnTime DEF SameListed
<1>7. Forwardable(s, a)
  <2>1. Ahead(s, a) \subseteq b.pending_map BY <1>3 DEF Ahead, SameListed
  <2>2. \A i \in Ahead(s, a) : n <= EmptiedAt(a.clk, i) BY <1>2, <1>5, <1>6, <2>1
  <2>3. n <= a.clk + NEXT_TIMER_MAX_DELTA BY <1>0, <1>2, <1>3, LinuxWheelAssumption
  <2> QED BY <1>3, <2>2, <2>3 DEF Forwardable
<1>8. Close(s, a, j)
  <2>1. CASE Near(s, b, j)
    <3>1. Near(s, a, j) BY <1>0, <1>3, <2>1 DEF Near
    <3> QED BY <3>1 DEF Close
  <2>2. CASE s.hotplug = {} /\ b.must_forward_clk /\ j - b.next_expiry <= s.lag
    <3>1. Behind(b, b.next_expiry)
      <4>1. b.pending_map \subseteq Ahead(s, b) BY <1>5, <2>2 DEF Ahead
      <4> QED BY <1>4, <2>2, <4>1 DEF Forwardable, Behind
    <3>2. b.next_expiry <= n BY <1>0, <1>2, <3>1
    <3>3. j - n <= s.lag BY <1>0, <1>2, <2>2, <3>2
    <3> QED BY <1>3, <2>2, <3>3 DEF Close
  <2> QED BY <1>4, <2>1, <2>2 DEF Close, Near
<1>9. a.is_idle => a.must_forward_clk BY <1>3, <1>4
<1>10. a.clk <= j + 1 BY <1>0, <1>3, <1>4
<1> QED BY <1>6, <1>7, <1>8, <1>9, <1>10 DEF Timely

(***************************************************************************)
(* What is done to the bases of all CPUs keeps them in time.                *)
(***************************************************************************)
LEMMA ListsAreOfTimers ==
  ASSUME NEW b \in timer_base
  PROVE  \A i \in Buckets : ToSet(b.vectors[i]) \subseteq Timer
<1> SUFFICES ASSUME NEW i \in Buckets PROVE ToSet(b.vectors[i]) \subseteq Timer OBVIOUS
<1>1. b.vectors[i] \in Seq(Timer) BY DEF timer_base
<1> QED BY <1>1 DEF ToSet

\* U is V with base a in place of the base of CPU c.
WithBase(U, V, c, a) ==
  /\ U \in Wheels /\ U.timer = V.timer /\ U.kick = V.kick
  /\ \A d \in Cpu : U.base[d] = IF d = c THEN a ELSE V.base[d]

\* Base c of U is in time; the other bases are as in V.
BaseIsInTime(s, U, c, timer, j, wakes, where) ==
  /\ c \in s.cpus => Timely(s, U.base[c], timer, j)
  /\ Sleeps(U.base[c], c \in U.kick, wakes[c]) /\ Settled(U.base[c], where[c])

SameElsewhere(U, V, c, wakes2, wakes, where2, where) ==
  /\ U.timer = V.timer
  /\ \A d \in Cpu \ {c} : /\ U.base[d] = V.base[d] /\ (d \in U.kick <=> d \in V.kick)
                          /\ wakes2[d] = wakes[d] /\ where2[d] = where[d]

LEMMA BaseInTime ==
  ASSUME NEW s, NEW j, NEW V, NEW wakes, NEW where, InTime(s, V, j, wakes, where),
         NEW U, NEW wakes2, NEW where2, NEW c \in Cpu,
         SameElsewhere(U, V, c, wakes2, wakes, where2, where),
         BaseIsInTime(s, U, c, V.timer, j, wakes2, where2)
  PROVE  InTime(s, U, j, wakes2, where2)
<1>1. ASSUME NEW d \in Cpu, d # c
      PROVE  /\ d \in s.cpus => Timely(s, U.base[d], U.timer, j)
             /\ Sleeps(U.base[d], d \in U.kick, wakes2[d]) /\ Settled(U.base[d], where2[d])
  <2>1. /\ d \in s.cpus => Timely(s, V.base[d], V.timer, j)
        /\ Sleeps(V.base[d], d \in V.kick, wakes[d]) /\ Settled(V.base[d], where[d])
    BY DEF InTime
  <2>2. /\ U.timer = V.timer /\ U.base[d] = V.base[d] /\ (d \in U.kick <=> d \in V.kick)
        /\ wakes2[d] = wakes[d] /\ where2[d] = where[d]
    BY <1>1 DEF SameElsewhere
  <2>3. Sleeps(U.base[d], d \in U.kick, wakes2[d]) BY <2>1, <2>2 DEF Sleeps
  <2> QED BY <2>1, <2>2, <2>3
<1>2. /\ c \in s.cpus => Timely(s, U.base[c], U.timer, j)
      /\ Sleeps(U.base[c], c \in U.kick, wakes2[c]) /\ Settled(U.base[c], where2[c])
  BY DEF BaseIsInTime, SameElsewhere
<1>3. \A x \in Timer : Reached(s, U.timer[x].expires, j) /\ U.timer[x].cpu \in s.cpus
  BY DEF InTime, SameElsewhere
<1> QED BY <1>1, <1>2, <1>3 DEF InTime

LEMMA ForwardWheel ==
  ASSUME NEW V \in Wheels, NEW c \in Cpu, NEW j \in Nat, NEW U, U = forward_timer_base(V, c, j),
         NEW a, a = ForwardedBase(V.base[c], j)
  PROVE  WithBase(U, V, c, a)
<1>1. U \in Wheels /\ U.timer = V.timer BY ForwardFacts
<1>2. CASE ~V.base[c].must_forward_clk
  BY <1>1, <1>2 DEF forward_timer_base, ForwardedBase, WithBase
<1>3. CASE V.base[c].must_forward_clk
  <2>1. U = [V EXCEPT !.base = [@ EXCEPT ![c] = a]]
    BY <1>3 DEF forward_timer_base, ForwardedBase
  <2> QED BY <1>1, <2>1 DEF Wheels, WithBase
<1> QED BY <1>2, <1>3

LEMMA WheelForwardInTime ==
  ASSUME NEW s, s.lag \in Nat \ {0}, NEW j \in Nat, NEW V \in Wheels, NEW wakes, NEW where,
         InTime(s, V, j, wakes, where), NEW c \in Cpu, NEW U, U = forward_timer_base(V, c, j)
  PROVE  /\ InTime(s, U, j, wakes, where)
         /\ c \in s.cpus => Forward(s, U.base[c], j)
         /\ U.base[c].is_idle = V.base[c].is_idle
<1>1. PICK a : a = ForwardedBase(V.base[c], j) OBVIOUS
<1>2. WithBase(U, V, c, a) BY <1>1, ForwardWheel
<1>3. V.base[c] \in timer_base BY WheelFields
<1>4. /\ a \in timer_base /\ SameListed(a, V.base[c])
      /\ a.next_expiry = V.base[c].next_expiry /\ a.is_idle = V.base[c].is_idle
      /\ a.must_forward_clk <=> V.base[c].must_forward_clk /\ V.base[c].is_idle
  BY <1>1, <1>3, ForwardedFields
<1>5. c \in s.cpus => Timely(s, a, V.timer, j) /\ Forward(s, a, j)
  BY <1>1, <1>3, ForwardInTime DEF InTime
<1>6. Sleeps(a, c \in V.kick, wakes[c]) BY <1>4 DEF InTime, Sleeps
<1>7. Settled(a, where[c]) BY <1>4 DEF InTime, Settled, SameListed
<1>8. InTime(s, U, j, wakes, where)
  <2>1. SameElsewhere(U, V, c, wakes, wakes, where, where) BY <1>2 DEF WithBase, SameElsewhere
  <2>2. BaseIsInTime(s, U, c, V.timer, j, wakes, where) BY <1>2, <1>5, <1>6, <1>7 DEF WithBase, BaseIsInTime
  <2> QED BY <2>1, <2>2, BaseInTime
<1> QED BY <1>2, <1>4, <1>5, <1>8 DEF WithBase

\* U is V with timers taken off their lists.
Thinned(U, V) ==
  /\ \A c \in Cpu :
       /\ SameClock(U.base[c], V.base[c]) /\ U.base[c].pending_map \subseteq V.base[c].pending_map
       /\ \A i \in Buckets : ToSet(U.base[c].vectors[i]) \subseteq ToSet(V.base[c].vectors[i])
       /\ V.base[c].heads = NoHeads => U.base[c].heads = NoHeads
  /\ \A x \in Timer : U.timer[x].expires = V.timer[x].expires /\ U.timer[x].cpu = V.timer[x].cpu
  /\ U.kick = V.kick

LEMMA ThinnedInTime ==
  ASSUME NEW s, NEW j \in Nat, NEW V \in Wheels, NEW wakes, NEW where, InTime(s, V, j, wakes, where),
         NEW U \in Wheels, Thinned(U, V)
  PROVE  InTime(s, U, j, wakes, where)
<1>1. ASSUME NEW c \in Cpu, c \in s.cpus PROVE Timely(s, U.base[c], U.timer, j)
  <2>1. U.base[c] \in timer_base /\ V.base[c] \in timer_base BY WheelFields
  <2>2. \A i \in Buckets : \A x \in ToSet(U.base[c].vectors[i]) : U.timer[x].expires = V.timer[x].expires
    BY <2>1, ListsAreOfTimers DEF Thinned
  <2>3. Timely(s, V.base[c], V.timer, j) BY <1>1 DEF InTime
  <2> QED BY <2>1, <2>2, <2>3, FewerTimers DEF Thinned
<1>2. ASSUME NEW c \in Cpu
      PROVE  Sleeps(U.base[c], c \in U.kick, wakes[c]) /\ Settled(U.base[c], where[c])
  BY DEF InTime, Thinned, Sleeps, Settled, SameClock
<1>3. \A x \in Timer : Reached(s, U.timer[x].expires, j) /\ U.timer[x].cpu \in s.cpus
  BY DEF InTime, Thinned
<1> QED BY <1>1, <1>2, <1>3 DEF InTime

LEMMA DetachThins ==
  ASSUME NEW V \in Wheels, NEW c \in Cpu, NEW x \in Timer, NEW clear \in BOOLEAN, Once(V),
         NEW U, U = detach_timer(V, c, x, clear)
  PROVE  U \in Wheels /\ Thinned(U, V)
<1> DEFINE b == V.base[c]
           idx == V.timer[x].idx
           q == RemoveFirst(b.vectors[idx], x)
           h == [l \in Lvls |-> RemoveFirst(b.heads[l], x)]
           b1 == [b EXCEPT !.vectors = [@ EXCEPT ![idx] = q], !.heads = h]
           t1 == [V.timer[x] EXCEPT !.pending = @ /\ ~clear]
<1>1. /\ b \in timer_base /\ V.timer[x] \in timer_list /\ idx \in Buckets
      /\ b.vectors[idx] \in Seq(Timer) /\ IsInjective(b.vectors[idx])
  BY WheelFields DEF Once
<1>2. ToSet(q) \subseteq ToSet(b.vectors[idx]) BY <1>1, RemoveFirstFacts
<1>3. b.heads = NoHeads => h = NoHeads
  <2>1. RemoveFirst(<<>>, x) = <<>> BY DEF RemoveFirst
  <2> QED BY <2>1 DEF NoHeads
<1>4. U = [V EXCEPT !.base = [@ EXCEPT ![c] = b1], !.timer = [@ EXCEPT ![x] = t1]]
  BY DEF detach_timer, Wheels
<1> HIDE DEF q, h
<1>5. /\ SameClock(b1, b) /\ b1.heads = h /\ b1.pending_map = b.pending_map
      /\ \A i \in Buckets : b1.vectors[i] = IF i = idx THEN q ELSE b.vectors[i]
  BY <1>1 DEF timer_base, SameClock
<1>6. t1.cpu = V.timer[x].cpu /\ t1.expires = V.timer[x].expires BY <1>1 DEF timer_list
<1> HIDE DEF b1, t1
<1>7. /\ \A d \in Cpu : U.base[d] = IF d = c THEN b1 ELSE V.base[d]
      /\ \A y \in Timer : U.timer[y] = IF y = x THEN t1 ELSE V.timer[y]
      /\ U.kick = V.kick
  BY <1>4 DEF Wheels
<1>8. U \in Wheels BY DetachTimerFacts
<1>9. Thinned(U, V)
  <2>1. ASSUME NEW d \in Cpu
        PROVE  /\ SameClock(U.base[d], V.base[d]) /\ U.base[d].pending_map \subseteq V.base[d].pending_map
               /\ \A i \in Buckets : ToSet(U.base[d].vectors[i]) \subseteq ToSet(V.base[d].vectors[i])
               /\ V.base[d].heads = NoHeads => U.base[d].heads = NoHeads
    <3>1. CASE d = c BY <1>2, <1>3, <1>5, <1>7, <3>1
    <3>2. CASE d # c BY <1>7, <3>2 DEF SameClock
    <3> QED BY <3>1, <3>2
  <2>2. \A y \in Timer : U.timer[y].expires = V.timer[y].expires /\ U.timer[y].cpu = V.timer[y].cpu
    BY <1>6, <1>7
  <2> QED BY <1>7, <2>1, <2>2 DEF Thinned
<1> QED BY <1>8, <1>9

LEMMA ThinnedTwice ==
  ASSUME NEW U, NEW V, NEW T, Thinned(U, V), Thinned(V, T) PROVE Thinned(U, T)
BY DEF Thinned, SameClock

LEMMA DetachIfPendingThins ==
  ASSUME NEW V \in Wheels, NEW x \in Timer, NEW c \in Cpu, Once(V),
         NEW clear \in BOOLEAN, NEW U, U = detach_if_pending(V, c, x, clear)
  PROVE  U \in Wheels /\ Thinned(U, V)
<1>0. V.base[c] \in timer_base BY WheelFields
<1>1. CASE ~V.timer[x].pending
  <2>1. U = V BY <1>1 DEF detach_if_pending
  <2> QED BY <2>1 DEF Thinned, SameClock
<1>2. CASE V.timer[x].pending
  <2> DEFINE idx == V.timer[x].idx
             map == IF V.base[c].vectors[idx] = <<x>> THEN V.base[c].pending_map \ {idx} ELSE V.base[c].pending_map
             b1 == [V.base[c] EXCEPT !.pending_map = map]
             V1 == [V EXCEPT !.base[c] = b1]
  <2>1. U = detach_timer(V1, c, x, clear) BY <1>2 DEF detach_if_pending, Wheels
  <2>2. /\ b1 \in timer_base /\ SameClock(b1, V.base[c])
        /\ b1.vectors = V.base[c].vectors /\ b1.heads = V.base[c].heads
        /\ b1.pending_map \subseteq V.base[c].pending_map
    BY <1>0 DEF timer_base, SameClock
  <2> HIDE DEF b1
  <2>3. /\ V1 \in Wheels /\ V1.timer = V.timer /\ V1.kick = V.kick
        /\ \A d \in Cpu : V1.base[d] = IF d = c THEN b1 ELSE V.base[d]
    BY <1>0, <2>2 DEF Wheels
  <2> HIDE DEF V1
  <2>4. Thinned(V1, V) BY <2>2, <2>3 DEF Thinned, SameClock
  <2>5. Once(V1) BY <2>2, <2>3 DEF Once
  <2>6. U \in Wheels /\ Thinned(U, V1) BY <2>1, <2>3, <2>5, DetachThins
  <2> QED BY <2>4, <2>6, ThinnedTwice
<1> QED BY <1>1, <1>2

\* A timer that is on no list may be given an expiry within reach.
LEMMA FreeTimerInTime ==
  ASSUME NEW s, NEW j \in Nat, NEW V \in Wheels, NEW wakes, NEW where, InTime(s, V, j, wakes, where),
         NEW x \in Timer, Placed(V, x), NEW U \in Wheels, U.base = V.base, U.kick = V.kick,
         \A y \in Timer \ {x} : U.timer[y] = V.timer[y],
         Reached(s, U.timer[x].expires, j), U.timer[x].cpu \in s.cpus
  PROVE  InTime(s, U, j, wakes, where)
<1>1. ASSUME NEW c \in Cpu, c \in s.cpus PROVE Timely(s, U.base[c], U.timer, j)
  <2>1. V.base[c] \in timer_base BY WheelFields
  <2>2. \A i \in Buckets : \A y \in ToSet(V.base[c].vectors[i]) : U.timer[y].expires = V.timer[y].expires
    <3> SUFFICES ASSUME NEW i \in Buckets, NEW y \in ToSet(V.base[c].vectors[i])
                 PROVE  U.timer[y].expires = V.timer[y].expires
      OBVIOUS
    <3>1. y \in Timer BY <2>1, ListsAreOfTimers
    <3>2. y # x BY DEF Placed, Listed
    <3> QED BY <3>1, <3>2
  <2>3. Timely(s, V.base[c], V.timer, j) BY <1>1 DEF InTime
  <2>4. SameClock(V.base[c], V.base[c]) BY DEF SameClock
  <2> QED BY <2>1, <2>2, <2>3, <2>4, FewerTimers
<1>2. \A y \in Timer : Reached(s, U.timer[y].expires, j) /\ U.timer[y].cpu \in s.cpus
  BY DEF InTime
<1> QED BY <1>1, <1>2 DEF InTime

\* What enqueue_timer leaves alone.
LEMMA EnqueueClock ==
  ASSUME NEW V \in Wheels, NEW c \in Cpu, NEW x \in Timer, NEW idx \in Buckets,
         NEW U, U = enqueue_timer(V, c, x, idx)
  PROVE  /\ SameClock(U.base[c], V.base[c]) /\ U.kick = V.kick
         /\ \A d \in Cpu \ {c} : U.base[d] = V.base[d]
         /\ \A y \in Timer : U.timer[y].expires = V.timer[y].expires /\ U.timer[y].cpu = V.timer[y].cpu
<1> DEFINE b == V.base[c]
           q == <<x>> \o b.vectors[idx]
           b1 == [b EXCEPT !.vectors = [@ EXCEPT ![idx] = q], !.pending_map = @ \cup {idx}]
           t1 == [V.timer[x] EXCEPT !.idx = idx, !.pending = TRUE]
<1>1. b \in timer_base /\ V.timer[x] \in timer_list BY WheelFields
<1>2. U = [V EXCEPT !.base = [@ EXCEPT ![c] = b1], !.timer = [@ EXCEPT ![x] = t1]]
  BY DEF enqueue_timer, Wheels
<1> HIDE DEF q
<1>3. SameClock(b1, b) BY <1>1 DEF timer_base, SameClock
<1>4. t1.expires = V.timer[x].expires /\ t1.cpu = V.timer[x].cpu BY <1>1 DEF timer_list
<1> HIDE DEF b1, t1
<1>5. /\ \A d \in Cpu : U.base[d] = IF d = c THEN b1 ELSE V.base[d]
      /\ \A y \in Timer : U.timer[y] = IF y = x THEN t1 ELSE V.timer[y]
      /\ U.kick = V.kick
  BY <1>2 DEF Wheels
<1> QED BY <1>3, <1>4, <1>5

\* An idle base is told of an earlier timer, and its CPU is woken.
Told(b, e) == b.is_idle /\ e < b.next_expiry

LEMMA TriggerClock ==
  ASSUME NEW V \in Wheels, NEW c \in Cpu, NEW x \in Timer, NEW e, e = V.timer[x].expires,
         NEW U, U = trigger_dyntick_cpu(V, c, x)
  PROVE  /\ U.base[c].clk = V.base[c].clk /\ U.base[c].is_idle = V.base[c].is_idle
         /\ U.base[c].must_forward_clk = V.base[c].must_forward_clk
         /\ U.base[c].next_expiry = IF Told(V.base[c], e) THEN e ELSE V.base[c].next_expiry
         /\ Told(V.base[c], e) => U.kick = V.kick \cup {c}
         /\ ~Told(V.base[c], e) => U.kick = V.kick
         /\ \A d \in Cpu \ {c} : U.base[d] = V.base[d]
<1>1. CASE ~Told(V.base[c], e) BY <1>1 DEF trigger_dyntick_cpu, Told
<1>2. CASE Told(V.base[c], e)
  <2> DEFINE b == V.base[c]
             b1 == [b EXCEPT !.next_expiry = e]
  <2>1. b \in timer_base BY WheelFields
  <2>2. U = [V EXCEPT !.base = [@ EXCEPT ![c] = b1], !.kick = @ \cup {c}]
    BY <1>2 DEF trigger_dyntick_cpu, Told
  <2>3. /\ b1.clk = b.clk /\ b1.is_idle = b.is_idle /\ b1.must_forward_clk = b.must_forward_clk
        /\ b1.next_expiry = e
    BY <2>1 DEF timer_base
  <2> HIDE DEF b1
  <2>4. /\ \A d \in Cpu : U.base[d] = IF d = c THEN b1 ELSE V.base[d]
        /\ U.kick = V.kick \cup {c}
    BY <2>2 DEF Wheels
  <2> QED BY <1>2, <2>3, <2>4
<1> QED BY <1>1, <1>2

\* A free timer is queued: internal_add_timer.
LEMMA AddWheelInTime ==
  ASSUME NEW s, s.lag \in Nat \ {0}, NEW j \in Nat, NEW V \in Wheels, NEW wakes, NEW where,
         InTime(s, V, j, wakes, where), NEW c \in Cpu, c \in s.cpus, NEW x \in Timer, Placed(V, x),
         Forward(s, V.base[c], j), V.base[c].is_idle => j < V.timer[x].expires,
         NEW U, U = internal_add_timer(V, c, x)
  PROVE  /\ InTime(s, U, j, wakes, where) /\ Forward(s, U.base[c], j)
         /\ U.base[c].is_idle = V.base[c].is_idle
         /\ \A d \in Cpu \ {c} : U.base[d] = V.base[d]
<1>0. PICK e \in Nat : e = V.timer[x].expires BY WheelFields
<1>1. PICK idx : idx = calc_wheel_index(e, V.base[c].clk) OBVIOUS
<1>2. idx \in Buckets
  <2>1. V.base[c].clk \in Nat BY WheelFields
  <2> QED BY <1>1, <2>1, calc_wheel_indexIsBucket
<1>3. PICK E : E = enqueue_timer(V, c, x, idx) OBVIOUS
<1>4. U = trigger_dyntick_cpu(E, c, x) BY <1>0, <1>1, <1>3 DEF internal_add_timer
<1>5. E \in Wheels /\ Enqueued(E, V, c, x, idx) BY <1>2, <1>3, EnqueueFacts
<1>6. /\ SameClock(E.base[c], V.base[c]) /\ E.kick = V.kick
      /\ \A d \in Cpu \ {c} : E.base[d] = V.base[d]
      /\ \A y \in Timer : E.timer[y].expires = V.timer[y].expires /\ E.timer[y].cpu = V.timer[y].cpu
  BY <1>2, <1>3, EnqueueClock
<1>7. U \in Wheels /\ SameLists(U, E) /\ U.timer = E.timer BY <1>4, <1>5, TriggerFacts
<1>8. PICK b : b = V.base[c] OBVIOUS
<1>9. PICK a : a = U.base[c] OBVIOUS
<1>10. /\ a.clk = E.base[c].clk /\ a.is_idle = E.base[c].is_idle
       /\ a.must_forward_clk = E.base[c].must_forward_clk
       /\ a.next_expiry = IF Told(E.base[c], e) THEN e ELSE E.base[c].next_expiry
       /\ Told(E.base[c], e) => U.kick = E.kick \cup {c}
       /\ ~Told(E.base[c], e) => U.kick = E.kick
       /\ \A d \in Cpu \ {c} : U.base[d] = E.base[d]
  <2>1. e = E.timer[x].expires BY <1>0, <1>6
  <2> QED BY <1>4, <1>5, <1>9, <2>1, TriggerClock
<1>11. Told(E.base[c], e) <=> Told(b, e) BY <1>6, <1>8 DEF Told, SameClock
<1>12. /\ a.clk = b.clk /\ a.is_idle = b.is_idle /\ a.must_forward_clk = b.must_forward_clk
       /\ a.next_expiry = IF Told(b, e) THEN e ELSE b.next_expiry
       /\ Told(b, e) => U.kick = V.kick \cup {c}
       /\ ~Told(b, e) => U.kick = V.kick
       /\ \A d \in Cpu \ {c} : U.base[d] = V.base[d]
  BY <1>6, <1>8, <1>10, <1>11 DEF SameClock
<1>13. /\ a \in timer_base /\ b \in timer_base BY <1>7, <1>8, <1>9, WheelFields
<1>14. /\ a.vectors = E.base[c].vectors /\ a.heads = b.heads /\ a.pending_map = b.pending_map \cup {idx}
  BY <1>5, <1>7, <1>8, <1>9 DEF SameLists, Enqueued
<1>15. ASSUME NEW i \in Buckets
       PROVE  ToSet(a.vectors[i]) = IF i = idx THEN ToSet(b.vectors[i]) \cup {x} ELSE ToSet(b.vectors[i])
  <2>1. b.vectors[i] \in Seq(Timer) /\ IsInjective(b.vectors[i]) /\ x \notin ToSet(b.vectors[i])
    BY <1>8, WheelFields DEF Placed, Once, Listed
  <2>2. CASE i = idx
    <3>1. a.vectors[i] = <<x>> \o b.vectors[i] BY <1>5, <1>8, <1>14, <2>2 DEF Enqueued
    <3> QED BY <2>1, <2>2, <3>1, ConsFacts
  <2>3. CASE i # idx BY <1>5, <1>8, <1>14, <2>3 DEF Enqueued
  <2> QED BY <2>2, <2>3
<1>16. \A i \in Buckets : \A y \in ToSet(a.vectors[i]) : U.timer[y].expires = V.timer[y].expires
  BY <1>6, <1>7, <1>13, ListsAreOfTimers
<1>17. Timely(s, b, V.timer, j) /\ Reached(s, e, j) BY <1>0, <1>8 DEF InTime
<1>18. Timely(s, a, U.timer, j) /\ Forward(s, a, j)
  <2>1. BucketGets(a, b, x, e, idx) BY <1>12, <1>14, <1>15 DEF Told, BucketGets
  <2>2. s.lag \in Nat /\ Forward(s, b, j) /\ (b.is_idle => j < e) BY <1>0, <1>8
  <2>3. e = V.timer[x].expires /\ idx = calc_wheel_index(e, b.clk) BY <1>0, <1>1, <1>8
  <2> QED BY <1>13, <1>16, <1>17, <2>1, <2>2, <2>3, AddInTime
<1>19. Sleeps(b, c \in V.kick, wakes[c]) /\ Settled(b, where[c]) BY <1>8 DEF InTime
<1>20. Sleeps(a, c \in U.kick, wakes[c])
  <2>1. CASE Told(b, e) BY <1>12, <1>19, <2>1 DEF Sleeps
  <2>2. CASE ~Told(b, e) BY <1>12, <1>19, <2>2 DEF Sleeps
  <2> QED BY <2>1, <2>2
<1>21. Settled(a, where[c]) BY <1>12, <1>14, <1>19 DEF Settled
<1>22. ASSUME NEW d \in Cpu, d # c
       PROVE  /\ d \in s.cpus => Timely(s, U.base[d], U.timer, j)
              /\ Sleeps(U.base[d], d \in U.kick, wakes[d]) /\ Settled(U.base[d], where[d])
  <2>1. U.base[d] = V.base[d] /\ (d \in U.kick <=> d \in V.kick) BY <1>12, <1>22
  <2>2. V.base[d] \in timer_base BY WheelFields
  <2>3. \A i \in Buckets : \A y \in ToSet(V.base[d].vectors[i]) : U.timer[y].expires = V.timer[y].expires
    BY <1>6, <1>7, <2>2, ListsAreOfTimers
  <2>4. d \in s.cpus => Timely(s, V.base[d], V.timer, j) BY DEF InTime
  <2>5. SameClock(V.base[d], V.base[d]) BY DEF SameClock
  <2>6. d \in s.cpus => Timely(s, V.base[d], U.timer, j) BY <2>2, <2>3, <2>4, <2>5, FewerTimers
  <2>7. Sleeps(V.base[d], d \in V.kick, wakes[d]) /\ Settled(V.base[d], where[d]) BY DEF InTime
  <2>8. Sleeps(V.base[d], d \in U.kick, wakes[d]) BY <2>1, <2>7 DEF Sleeps
  <2> QED BY <2>1, <2>6, <2>7, <2>8
<1>23. \A y \in Timer : Reached(s, U.timer[y].expires, j) /\ U.timer[y].cpu \in s.cpus
  BY <1>6, <1>7 DEF InTime
<1>24. InTime(s, U, j, wakes, where) BY <1>9, <1>18, <1>20, <1>21, <1>22, <1>23 DEF InTime
<1> QED BY <1>8, <1>9, <1>12, <1>18, <1>24

\* A queued timer may be given an expiry for which its bucket is right.
LEMMA ExpiryInBucket ==
  ASSUME NEW s, s.lag \in Nat \ {0}, NEW j \in Nat, NEW V \in Wheels, NEW wakes, NEW where,
         InTime(s, V, j, wakes, where), NEW x \in Timer, Placed(V, NoTimer),
         NEW c \in Cpu, c = V.timer[x].cpu, Forward(s, V.base[c], j),
         NEW e \in Nat, Reached(s, e, j), calc_wheel_index(e, V.base[c].clk) = V.timer[x].idx,
         NEW U, U = [V EXCEPT !.timer[x].expires = e]
  PROVE  InTime(s, U, j, wakes, where)
<1> DEFINE t == [V.timer[x] EXCEPT !.expires = e]
<1>1. V.timer[x] \in timer_list BY WheelFields
<1>2. t \in timer_list /\ t.cpu = V.timer[x].cpu /\ t.expires = e BY <1>1 DEF timer_list
<1>3. U = [V EXCEPT !.timer = [@ EXCEPT ![x] = t]] OBVIOUS
<1> HIDE DEF t
<1>4. /\ U.base = V.base /\ U.kick = V.kick
      /\ \A y \in Timer : U.timer[y] = IF y = x THEN t ELSE V.timer[y]
  BY <1>2, <1>3 DEF Wheels
<1>5. PICK idx : idx = V.timer[x].idx OBVIOUS
<1>6. /\ EmptiedAt(V.base[c].clk, idx) >= e
      /\ EmptiedAt(V.base[c].clk, idx) <= e + LVL_GRAN(idx \div LVL_SIZE)
           \/ EmptiedAt(V.base[c].clk, idx) = V.base[c].clk
  <2>1. V.base[c] \in timer_base /\ V.base[c].clk \in Nat BY WheelFields
  <2>2. Near(s, V.base[c], j) /\ s.lag \in Nat BY DEF Forward
  <2>3. InWheel(e, V.base[c].clk) BY <2>1, <2>2, ReachedIsInWheel
  <2>4. idx = calc_wheel_index(e, V.base[c].clk) BY <1>5
  <2> QED BY <2>1, <2>3, <2>4, PlacedInTime
<1>7. ASSUME NEW d \in Cpu, d \in s.cpus PROVE Timely(s, V.base[d], U.timer, j)
  <2>1. Timely(s, V.base[d], V.timer, j) BY <1>7 DEF InTime
  <2>2. ASSUME NEW i \in Buckets, NEW y \in ToSet(V.base[d].vectors[i])
        PROVE  /\ EmptiedAt(V.base[d].clk, i) >= U.timer[y].expires
               /\ \/ EmptiedAt(V.base[d].clk, i) <= U.timer[y].expires + LVL_GRAN(i \div LVL_SIZE)
                  \/ EmptiedAt(V.base[d].clk, i) = V.base[d].clk
    <3>1. V.base[d] \in timer_base BY WheelFields
    <3>2. y \in Timer BY <3>1, ListsAreOfTimers
    <3>3. CASE y = x
      <4>1. V.timer[x].cpu = d /\ V.timer[x].idx = i BY <2>2, <3>3 DEF Placed, InVectors
      <4>2. U.timer[y].expires = e BY <1>2, <1>4, <3>3
      <4> QED BY <1>5, <1>6, <4>1, <4>2
    <3>4. CASE y # x
      <4>1. U.timer[y] = V.timer[y] BY <1>4, <3>2, <3>4
      <4> QED BY <2>1, <4>1 DEF Timely, OnTime
    <3> QED BY <3>3, <3>4
  <2>3. OnTime(V.base[d], U.timer) BY <2>2 DEF OnTime
  <2> QED BY <2>1, <2>3 DEF Timely
<1>8. \A y \in Timer : Reached(s, U.timer[y].expires, j) /\ U.timer[y].cpu \in s.cpus
  BY <1>2, <1>4 DEF InTime
<1> QED BY <1>4, <1>7, <1>8 DEF InTime

(***************************************************************************)
(* TimeInv: initial states, and what most steps share.                      *)
(***************************************************************************)
LEMMA CutoffFacts ==
  /\ WHEEL_TIMEOUT_CUTOFF \in Nat \ {0}
  /\ LVL_START(LVL_DEPTH - 1) \in Nat
<1>1. ASSUME NEW n \in Nat \ {0} PROVE LVL_START(n) \in Nat \ {0}
  <2>1. PICK b \in Nat : LVL_BITS = b + 1
    <3>1. LVL_BITS - 1 \in Nat /\ LVL_BITS = (LVL_BITS - 1) + 1 BY LinuxWheelAssumption
    <3> QED BY <3>1
  <2>2. PICK h \in Nat \ {0} : h = 2 ^ b BY PowerIsPositive
  <2>3. LVL_SIZE = 2 * h BY <2>1, <2>2, PowerDoubles DEF LVL_SIZE
  <2>4. PICK s \in Nat \ {0} : s = LVL_SIZE - 1 BY <2>2, <2>3
  <2>5. (n - 1) * LVL_CLK_SHIFT \in Nat
    <3>1. n - 1 \in Nat BY <1>1
    <3> QED BY <3>1, LinuxWheelAssumption
  <2>6. PICK g \in Nat \ {0} : g = 2 ^ ((n - 1) * LVL_CLK_SHIFT) BY <2>5, PowerIsPositive
  <2>7. s * g \in Nat /\ s * g >= g
    <3>1. 1 * g <= s * g BY TimesOrder
    <3> QED BY <3>1
  <2>8. LVL_START(n) = s * g BY <2>4, <2>6 DEF LVL_START
  <2> QED BY <2>7, <2>8
<1>2. LVL_DEPTH \in Nat \ {0} /\ LVL_DEPTH - 1 \in Nat \ {0} BY LinuxWheelAssumption
<1> QED BY <1>1, <1>2 DEF WHEEL_TIMEOUT_CUTOFF

LEMMA NoCallInTime == ASSUME NEW s, NEW j PROVE CallInTime(s, NoCall, j)
BY DEF CallInTime, Sets, NoCall, Arming

LEMMA InitInTime == ASSUME Init PROVE TimeInv
<1>1. /\ scenario \in Scenarios /\ scenario.cpus \subseteq Cpu /\ scenario.cpus # {}
      /\ scenario.maxj \in Nat /\ scenario.lag \in Nat \ {0}
  BY ScenariosAssumption DEF Init
<1>2. PICK c \in scenario.cpus : c = CHOOSE d \in scenario.cpus : TRUE BY <1>1
<1>3. /\ jiffies = 0 /\ online = scenario.cpus /\ asleep = [d \in Cpu |-> -1] /\ soft = [d \in Cpu |-> "idle"]
      /\ call = [p \in Proc |-> NoCall]
      /\ W.base = [d \in Cpu |-> init_timer_cpu(0)] /\ W.timer = [x \in Timer |-> do_init_timer(c)]
  BY <1>2 DEF Init
<1>4. ASSUME NEW d \in Cpu
      PROVE  /\ Timely(scenario, W.base[d], W.timer, 0)
             /\ Sleeps(W.base[d], d \in W.kick, asleep[d]) /\ Settled(W.base[d], soft[d])
  <2>1. /\ W.base[d].clk = 0 /\ ~W.base[d].is_idle /\ ~W.base[d].must_forward_clk
        /\ W.base[d].heads = NoHeads /\ \A i \in Buckets : W.base[d].vectors[i] = <<>>
    BY <1>3 DEF init_timer_cpu
  <2>2. OnTime(W.base[d], W.timer) BY <2>1, EmptyList DEF OnTime
  <2>3. Near(scenario, W.base[d], 0) BY <1>1, <2>1 DEF Near
  <2>4. Timely(scenario, W.base[d], W.timer, 0) BY <2>1, <2>2, <2>3 DEF Timely, Forwardable, Close
  <2>5. asleep[d] = -1 BY <1>3
  <2> QED BY <2>1, <2>4, <2>5 DEF Sleeps, Settled
<1>5. ASSUME NEW x \in Timer PROVE Reached(scenario, W.timer[x].expires, 0) /\ W.timer[x].cpu \in scenario.cpus
  <2>1. W.timer[x].expires = 0 /\ W.timer[x].cpu = c BY <1>3 DEF do_init_timer
  <2> QED BY <1>2, <2>1, CutoffFacts DEF Reached
<1>6. InTime(scenario, W, jiffies, asleep, soft) BY <1>3, <1>4, <1>5 DEF InTime
<1>7. \A p \in Proc : CallInTime(scenario, call[p], jiffies) BY <1>3, NoCallInTime
<1>8. jiffies <= scenario.maxj BY <1>1, <1>3
<1>9. asleep \in [Cpu -> Int] /\ \A d \in Cpu : asleep[d] < 0 BY <1>3
<1> QED BY <1>1, <1>3, <1>6, <1>7, <1>8, <1>9 DEF TimeInv

LEMMA TimeFacts ==
  ASSUME LinuxInv, TimeInv
  PROVE  /\ scenario \in Scenarios /\ scenario.lag \in Nat \ {0} /\ scenario.maxj \in Nat /\ jiffies \in Nat
         /\ scenario.cpus \subseteq Cpu /\ online \subseteq scenario.cpus
         /\ W \in Wheels /\ Placed(W, NoTimer) /\ InTime(scenario, W, jiffies, asleep, soft)
         /\ call \in [Proc -> Calls] /\ asleep \in [Cpu -> Int]
         /\ \A c \in Cpu : c \notin online => asleep[c] < 0
         /\ \A p \in Proc : CallInTime(scenario, call[p], jiffies)
BY ScenariosAssumption DEF LinuxInv, Typed, TimeInv

\* The calls of all processes stay in time when one of them goes on with k.
LEMMA CallTimeStep ==
  ASSUME LinuxInv, TimeInv, NEW p \in Proc, NEW k, call' = [call EXCEPT ![p] = k],
         CallInTime(scenario, k, jiffies), InTime(scenario, W', jiffies, asleep, soft),
         UNCHANGED <<scenario, jiffies, soft, asleep, online>>
  PROVE  TimeInv'
<1>1. call'[p] = k /\ \A q \in Proc : q # p => call'[q] = call[q] BY TimeFacts
<1>2. \A q \in Proc : CallInTime(scenario, call'[q], jiffies) BY <1>1, TimeFacts
<1> QED BY <1>2 DEF TimeInv

\* The CPUs change, the calls do not.
LEMMA CpuTimeStep ==
  ASSUME LinuxInv, TimeInv, InTime(scenario, W', jiffies, asleep', soft'), asleep' \in [Cpu -> Int],
         \A c \in Cpu : c \notin online' => asleep'[c] < 0, scenario.hotplug = {} => online' = scenario.cpus,
         UNCHANGED <<scenario, jiffies, call>>
  PROVE  TimeInv'
BY DEF TimeInv

LEMMA TickTime == ASSUME LinuxInv, TimeInv, Tick PROVE TimeInv'
<1>1. /\ scenario.lag \in Nat \ {0} /\ scenario.maxj \in Nat /\ jiffies \in Nat /\ W \in Wheels
      /\ InTime(scenario, W, jiffies, asleep, soft) /\ asleep \in [Cpu -> Int] /\ call \in [Proc -> Calls]
      /\ online \subseteq scenario.cpus /\ scenario.cpus \subseteq Cpu
  BY TimeFacts
<1>2. PICK j \in Nat : j = jiffies BY <1>1
<1>3. /\ jiffies' = j + 1 /\ j < scenario.maxj /\ UNCHANGED <<scenario, W, soft, call, asleep, online>>
      /\ \A c \in online : Lag(c) < scenario.lag
      /\ \A e \in Setting : j + 1 < e
  BY <1>2 DEF Tick
<1>4. \A e \in Nat : Reached(scenario, e, j) => Reached(scenario, e, j + 1)
  BY <1>1, CutoffFacts DEF Reached
<1>5. ASSUME NEW c \in scenario.cpus PROVE Timely(scenario, W.base[c], W.timer, j + 1)
  <2>1. PICK b : b = W.base[c] OBVIOUS
  <2>2. b \in timer_base /\ b.clk \in Nat /\ b.next_expiry \in Nat BY <1>1, <2>1, WheelFields DEF timer_base
  <2>3. Timely(scenario, b, W.timer, j) /\ Sleeps(b, c \in W.kick, asleep[c]) BY <1>1, <1>2, <2>1 DEF InTime
  <2>4. Close(scenario, b, j + 1)
    <3>1. CASE scenario.hotplug # {} BY <3>1 DEF Close, Near
    <3>2. CASE scenario.hotplug = {}
      <4>1. c \in online BY <3>2 DEF TimeInv
      <4>2. j - (IF asleep[c] >= 0 THEN b.next_expiry ELSE b.clk) < scenario.lag
        BY <1>2, <1>3, <2>1, <4>1 DEF Lag
      <4>3. asleep[c] >= 0 => b.must_forward_clk BY <2>3 DEF Sleeps, Timely
      <4>4. CASE asleep[c] >= 0
        <5>1. b.must_forward_clk /\ (j + 1) - b.next_expiry <= scenario.lag
          BY <1>1, <2>2, <4>2, <4>3, <4>4
        <5> QED BY <5>1 DEF Close
      <4>5. CASE ~(asleep[c] >= 0)
        <5>1. (j + 1) - b.clk <= scenario.lag BY <1>1, <2>2, <4>2, <4>5
        <5> QED BY <5>1 DEF Close, Near
      <4> QED BY <4>4, <4>5
    <3> QED BY <3>1, <3>2
  <2>5. b.clk <= (j + 1) + 1 BY <2>2, <2>3 DEF Timely
  <2> QED BY <2>1, <2>3, <2>4, <2>5 DEF Timely
<1>6. ASSUME NEW x \in Timer
      PROVE  Reached(scenario, W.timer[x].expires, j + 1) /\ W.timer[x].cpu \in scenario.cpus
  <2>1. W.timer[x].expires \in Nat BY <1>1, WheelFields
  <2> QED BY <1>1, <1>2, <1>4, <2>1 DEF InTime
<1>7. InTime(scenario, W, j + 1, asleep, soft) BY <1>1, <1>5, <1>6 DEF InTime
<1>8. ASSUME NEW p \in Proc PROVE CallInTime(scenario, call[p], j + 1)
  <2>1. CallInTime(scenario, call[p], j) BY <1>2 DEF TimeInv
  <2>2. call[p].expires \in Nat BY <1>1 DEF Calls
  <2>3. Sets(call[p]) => call[p].expires \in Setting BY DEF Sets, Setting
  <2> QED BY <1>3, <1>4, <2>1, <2>2, <2>3 DEF CallInTime
<1> QED BY <1>1, <1>3, <1>7, <1>8 DEF TimeInv

(***************************************************************************)
(* Calls that begin.                                                        *)
(***************************************************************************)
\* What a call begins with.
Begins(k, op, x, e, to) == k.op = op /\ k.x = x /\ k.expires = e /\ k.to = to /\ k.pc \in {"lock", "locked"}

LEMMA BeginFields ==
  ASSUME LinuxInv, NEW p \in Proc, NEW x \in Timer, NEW e \in Nat, NEW to \in SUBSET Cpu,
         NEW op \in {"mod", "pending", "reduce", "on", "msleep", "del", "sync"},
         call' = Called(p, op, x, e, to)
  PROVE  \E k : Begins(k, op, x, e, to) /\ call' = [call EXCEPT ![p] = k]
<1>1. W \in Wheels BY DEF LinuxInv, Typed
<1>2. /\ W.timer[x].cpu \in Cpu /\ W.timer[x].idx \in Buckets /\ W.timer[x].migrating \in BOOLEAN
      /\ W.timer[x].pending \in BOOLEAN
  BY <1>1, WheelFields
<1>3. PICK tf \in Flags : tf = flags(x) BY <1>2 DEF flags, Flags
<1>4. PICK seen : seen = W.timer[x].pending OBVIOUS
<1>5. PICK pc \in {"lock", "locked"} : pc = IF W.timer[x].migrating THEN "lock" ELSE "locked" OBVIOUS
<1>6. PICK k : k = FreshCall(op, x, e, to, seen, tf, pc) OBVIOUS
<1>7. k = CallRecord(op, x, e, to, seen, tf, pc) BY <1>6, FreshCallIsRecord
<1>8. Begins(k, op, x, e, to) BY <1>7 DEF CallRecord, Begins
<1>9. call' = [call EXCEPT ![p] = k] BY <1>3, <1>4, <1>5, <1>6, Zenon DEF Called, FreshCall
<1> QED BY <1>8, <1>9

\* Expiries are set for later, and within reach.
LEMMA DelayInTime ==
  ASSUME Punctual, LinuxInv, TimeInv, NEW d \in scenario.delays \cup scenario.rearm, InReach(jiffies + d)
  PROVE  /\ jiffies + d \in Nat /\ jiffies + d > jiffies
         /\ Reached(scenario, jiffies + d, jiffies)
<1>1. /\ scenario \in Scenarios /\ jiffies \in Nat /\ scenario.maxj \in Nat /\ scenario.lag \in Nat
      /\ jiffies <= scenario.maxj
  BY TimeFacts DEF TimeInv
<1>2. scenario.delays \subseteq Nat /\ scenario.rearm \subseteq Nat BY <1>1, ScenariosAssumption
<1>3. d \in Nat /\ d # 0 BY <1>1, <1>2 DEF Punctual
<1>4. scenario.hotplug = {} \/ scenario.maxj + d < WHEEL_TIMEOUT_CUTOFF BY <1>1 DEF Punctual
<1>5. Reached(scenario, jiffies + d, jiffies)
  <2>1. CASE jiffies + d < WHEEL_TIMEOUT_CUTOFF BY <2>1 DEF Reached
  <2>2. CASE ~(jiffies + d < WHEEL_TIMEOUT_CUTOFF)
    <3>1. scenario.hotplug = {} BY <1>1, <1>3, <1>4, <2>2, CutoffFacts
    <3> QED BY <2>2, <3>1 DEF InReach, Reached
  <2> QED BY <2>1, <2>2
<1> QED BY <1>1, <1>3, <1>5

LEMMA BeginTime ==
  ASSUME LinuxInv, TimeInv, NEW p \in Proc, NEW x \in Timer, NEW e \in Nat, NEW to, to \subseteq scenario.cpus,
         NEW op \in {"mod", "pending", "reduce", "on", "msleep", "del", "sync"},
         op \in Arming => e > jiffies /\ Reached(scenario, e, jiffies),
         call' = Called(p, op, x, e, to), UNCHANGED <<scenario, jiffies, W, soft, asleep, online>>
  PROVE  TimeInv'
<1>1. to \in SUBSET Cpu BY TimeFacts
<1>2. PICK k : Begins(k, op, x, e, to) /\ call' = [call EXCEPT ![p] = k] BY <1>1, BeginFields
<1>3. CallInTime(scenario, k, jiffies) BY <1>2 DEF Begins, CallInTime, Sets
<1>4. InTime(scenario, W', jiffies, asleep, soft) BY TimeFacts
<1> QED BY <1>2, <1>3, <1>4, CallTimeStep

LEMMA BeginModTime ==
  ASSUME Punctual, LinuxInv, TimeInv, NEW p \in Proc, NEW op \in {"mod", "pending", "reduce"}, NEW x \in Timer,
         NEW d \in scenario.delays \cup scenario.rearm, BeginMod(p, op, x, jiffies + d)
  PROVE  TimeInv'
<1>1. /\ InReach(jiffies + d) /\ call' = Called(p, op, x, jiffies + d, {})
      /\ UNCHANGED <<scenario, jiffies, W, soft, asleep, online>>
  BY DEF BeginMod
<1>2. jiffies + d \in Nat /\ jiffies + d > jiffies /\ Reached(scenario, jiffies + d, jiffies)
  BY <1>1, DelayInTime
<1>3. {} \subseteq scenario.cpus OBVIOUS
<1> QED BY <1>1, <1>2, <1>3, BeginTime

LEMMA CallOfTime == ASSUME Punctual, LinuxInv, TimeInv, NEW p \in Task, CallOf(p) PROVE TimeInv'
<1>0. /\ p \in Proc /\ scenario.timers \subseteq Timer /\ online \subseteq scenario.cpus
      /\ {} \subseteq scenario.cpus
  BY ScenarioFacts, TimeFacts DEF Proc
<1>1. ASSUME NEW x \in scenario.timers, NEW d \in scenario.delays,
             NEW op \in scenario.ops[p] \cap {"mod", "pending", "reduce"}, BeginMod(p, op, x, jiffies + d)
      PROVE  TimeInv'
  BY <1>0, <1>1, BeginModTime
<1>2. ASSUME NEW x \in scenario.timers, NEW d \in scenario.delays, NEW c \in online,
             BeginAddOn(p, x, jiffies + d, c)
      PROVE  TimeInv'
  <2>1. /\ call' = Called(p, "on", x, jiffies + d, {c}) /\ InReach(jiffies + d)
        /\ UNCHANGED <<scenario, jiffies, W, soft, asleep, online>>
    BY <1>2 DEF BeginAddOn
  <2>2. jiffies + d \in Nat /\ jiffies + d > jiffies /\ Reached(scenario, jiffies + d, jiffies)
    BY <2>1, DelayInTime
  <2>3. {c} \subseteq scenario.cpus /\ x \in Timer BY <1>0
  <2> QED BY <1>0, <2>1, <2>2, <2>3, BeginTime
<1>3. ASSUME NEW x \in scenario.timers, NEW d \in scenario.delays, BeginMsleep(p, x, jiffies + d)
      PROVE  TimeInv'
  <2>1. /\ call' = Called(p, "msleep", x, jiffies + d, {}) /\ InReach(jiffies + d)
        /\ UNCHANGED <<scenario, jiffies, W, soft, asleep, online>>
    BY <1>3 DEF BeginMsleep
  <2>2. jiffies + d \in Nat /\ jiffies + d > jiffies /\ Reached(scenario, jiffies + d, jiffies)
    BY <2>1, DelayInTime
  <2> QED BY <1>0, <2>1, <2>2, BeginTime
<1>4. ASSUME NEW x \in scenario.timers, NEW op \in {"del", "sync"}, call' = Called(p, op, x, 0, {}),
             UNCHANGED <<scenario, jiffies, W, soft, asleep, online>>
      PROVE  TimeInv'
  <2>1. op \notin Arming BY DEF Arming
  <2> QED BY <1>0, <1>4, <2>1, BeginTime
<1>5. ASSUME NEW x \in scenario.timers, BeginDel(p, x) \/ BeginSync(p, x) PROVE TimeInv'
  BY <1>4, <1>5 DEF BeginDel, BeginSync
<1> QED BY <1>1, <1>2, <1>3, <1>5 DEF CallOf

LEMMA RearmTime == ASSUME Punctual, LinuxInv, TimeInv, NEW c \in Cpu, Rearm(c) PROVE TimeInv'
<1>1. PICK d \in scenario.rearm : BeginMod(c, "mod", W.base[c].running, jiffies + d) BY DEF Rearm
<1>2. W.base[c].running \in Timer BY DEF Rearm, LinuxInv, HandlersAtHome
<1>3. c \in Proc BY DEF Proc
<1> QED BY <1>1, <1>2, <1>3, BeginModTime

(***************************************************************************)
(* Calls that go on.                                                        *)
(***************************************************************************)
\* A call whose timer is still to be set, and the timer's base, under its lock.
LEMMA HeldTime ==
  ASSUME LinuxInv, TimeInv, NEW p \in Proc, NEW pc \in {"locked", "del"}, Holds(p, pc)
  PROVE  /\ call[p] \in Calls /\ call[p].x \in Timer /\ call[p].expires \in Nat /\ call[p].pc = pc
         /\ call[p].tf[1] = W.timer[call[p].x].cpu /\ call[p].tf[1] \in Cpu
         /\ call[p].tf[1] \in scenario.cpus
         /\ CallInTime(scenario, call[p], jiffies)
<1>1. /\ call[p].x \in Timer /\ call[p].tf[1] = W.timer[call[p].x].cpu /\ call[p] \in Calls
      /\ call[p].tf[1] \in Cpu
  BY HoldsFacts
<1>2. call[p].expires \in Nat BY <1>1 DEF Calls
<1>3. call[p].tf[1] \in scenario.cpus BY <1>1, TimeFacts DEF InTime
<1> QED BY <1>1, <1>2, <1>3, TimeFacts DEF Holds

LEMMA ArmedTime ==
  ASSUME LinuxInv, TimeInv, NEW p \in Proc
  PROVE  \E k : CallInTime(scenario, k, jiffies) /\ Armed(p) = [call EXCEPT ![p] = k]
<1> DEFINE k == IF call[p].op = "msleep" THEN [call[p] EXCEPT !.pc = "asleep", !.to = {}] ELSE NoCall
<1>1. call[p] \in Calls /\ call \in [Proc -> Calls] /\ CallInTime(scenario, call[p], jiffies) BY TimeFacts
<1>2. Armed(p) = [call EXCEPT ![p] = k] BY <1>1 DEF Armed
<1>3. CASE call[p].op = "msleep"
  <2>1. k.op = call[p].op /\ k.pc = "asleep" /\ k.expires = call[p].expires /\ k.to = {}
    BY <1>1, <1>3 DEF Calls
  <2>2. CallInTime(scenario, k, jiffies) BY <1>1, <2>1 DEF CallInTime, Sets
  <2> QED BY <1>2, <2>2
<1>4. CASE call[p].op # "msleep" BY <1>2, <1>4, NoCallInTime
<1> QED BY <1>3, <1>4

\* A call that goes on with its timer set.
LEMMA ArmedTimeStep ==
  ASSUME LinuxInv, TimeInv, NEW p \in Proc, call' = Armed(p), InTime(scenario, W', jiffies, asleep, soft),
         UNCHANGED <<scenario, jiffies, soft, asleep, online>>
  PROVE  TimeInv'
<1>1. PICK k : CallInTime(scenario, k, jiffies) /\ Armed(p) = [call EXCEPT ![p] = k] BY ArmedTime
<1> QED BY <1>1, CallTimeStep

LEMMA RereadTime == ASSUME LinuxInv, TimeInv, NEW p \in Proc, Reread(p) PROVE TimeInv'
<1> DEFINE k == [call[p] EXCEPT !.tf = flags(call[p].x), !.pc = IF @ = "lock" THEN "locked" ELSE @]
<1>1. /\ call[p] \in Calls /\ call \in [Proc -> Calls] /\ CallInTime(scenario, call[p], jiffies)
      /\ InTime(scenario, W, jiffies, asleep, soft)
  BY TimeFacts
<1>2. call' = [call EXCEPT ![p] = k] BY <1>1 DEF Reread, Calls
<1>3. /\ k.op = call[p].op /\ k.to = call[p].to /\ k.expires = call[p].expires
      /\ k.pc = IF call[p].pc = "lock" THEN "locked" ELSE call[p].pc
  BY <1>1 DEF Calls
<1> HIDE DEF k
<1>4. CallInTime(scenario, k, jiffies) BY <1>1, <1>3 DEF CallInTime, Sets
<1>5. UNCHANGED <<scenario, jiffies, W, soft, asleep, online>> BY DEF Reread
<1> QED BY <1>1, <1>2, <1>4, <1>5, CallTimeStep

LEMMA WokenTime == ASSUME LinuxInv, TimeInv, NEW p \in Proc, Woken(p) PROVE TimeInv'
<1> DEFINE k == [call[p] EXCEPT !.pc = "del", !.tf = flags(call[p].x)]
<1>1. /\ call[p] \in Calls /\ call \in [Proc -> Calls] /\ CallInTime(scenario, call[p], jiffies)
      /\ InTime(scenario, W, jiffies, asleep, soft)
  BY TimeFacts
<1>2. call' = [call EXCEPT ![p] = k] BY <1>1 DEF Woken, Calls
<1>3. k.op = call[p].op /\ k.to = call[p].to /\ k.expires = call[p].expires /\ k.pc = "del"
  BY <1>1 DEF Calls
<1> HIDE DEF k
<1>4. CallInTime(scenario, k, jiffies) BY <1>1, <1>3 DEF CallInTime, Sets
<1>5. UNCHANGED <<scenario, jiffies, W, soft, asleep, online>> BY DEF Woken
<1> QED BY <1>1, <1>2, <1>4, <1>5, CallTimeStep

\* The clock of the base is forwarded.
LEMMA ForwardedTime ==
  ASSUME LinuxInv, TimeInv, NEW c \in Cpu, NEW F, F = forward_timer_base(W, c, jiffies)
  PROVE  /\ F \in Wheels /\ Placed(F, NoTimer) /\ F.timer = W.timer
         /\ InTime(scenario, F, jiffies, asleep, soft)
         /\ c \in scenario.cpus => Forward(scenario, F.base[c], jiffies)
<1>1. /\ scenario.lag \in Nat \ {0} /\ jiffies \in Nat /\ W \in Wheels
      /\ InTime(scenario, W, jiffies, asleep, soft)
  BY TimeFacts
<1>2. /\ InTime(scenario, F, jiffies, asleep, soft)
      /\ c \in scenario.cpus => Forward(scenario, F.base[c], jiffies)
  BY <1>1, WheelForwardInTime
<1>3. F \in Wheels /\ Placed(F, NoTimer) /\ F.timer = W.timer BY ForwardedFacts
<1> QED BY <1>2, <1>3

LEMMA ForwardOnlyTime ==
  ASSUME LinuxInv, TimeInv, NEW p \in Proc, Holds(p, "locked"), W' = Forwarded(p),
         call' = [call EXCEPT ![p] = NoCall], UNCHANGED <<scenario, jiffies, soft, asleep, online>>
  PROVE  TimeInv'
<1>1. PICK F : F = Forwarded(p) OBVIOUS
<1>2. call[p].tf[1] \in Cpu BY HeldTime
<1>3. InTime(scenario, F, jiffies, asleep, soft) BY <1>1, <1>2, ForwardedTime DEF Forwarded
<1> QED BY <1>1, <1>3, NoCallInTime, CallTimeStep

LEMMA ModKeepsExpiryTime == ASSUME LinuxInv, TimeInv, NEW p \in Proc, ModKeepsExpiry(p) PROVE TimeInv'
BY ForwardOnlyTime DEF ModKeepsExpiry

LEMMA ModNotPendingTime == ASSUME LinuxInv, TimeInv, NEW p \in Proc, ModNotPending(p) PROVE TimeInv'
BY ForwardOnlyTime DEF ModNotPending

\* The bucket of the timer is right for the new expiry also if the timer has
\* left it: it is on no list then.
LEMMA ModInBucketTime == ASSUME LinuxInv, TimeInv, NEW p \in Proc, ModInBucket(p) PROVE TimeInv'
<1>0. PICK x : x = call[p].x OBVIOUS
<1>1. PICK c : c = call[p].tf[1] OBVIOUS
<1>2. PICK F : F = Forwarded(p) OBVIOUS
<1>3. PICK e : e = call[p].expires OBVIOUS
<1>4. /\ x \in Timer /\ c = W.timer[x].cpu /\ c \in Cpu /\ c \in scenario.cpus /\ e \in Nat
      /\ CallInTime(scenario, call[p], jiffies)
  BY <1>0, <1>1, <1>3, HeldTime DEF ModInBucket
<1>5. /\ F \in Wheels /\ Placed(F, NoTimer) /\ F.timer = W.timer
      /\ InTime(scenario, F, jiffies, asleep, soft) /\ Forward(scenario, F.base[c], jiffies)
  BY <1>1, <1>2, <1>4, ForwardedTime DEF Forwarded
<1>6. /\ call[p].op \in {"mod", "pending", "reduce", "msleep"}
      /\ calc_wheel_index(e, F.base[c].clk) = F.timer[x].idx
  BY <1>0, <1>1, <1>2, <1>3, <1>5 DEF ModInBucket, SameBucket
<1>7. Reached(scenario, e, jiffies) BY <1>3, <1>4, <1>6 DEF CallInTime, Arming
<1>8. /\ call' = Armed(p) /\ UNCHANGED <<scenario, jiffies, soft, asleep, online>>
  BY DEF ModInBucket
<1>9. PICK f : f = IF call[p].op = "reduce" /\ F.timer[x].expires <= e THEN F.timer[x].expires ELSE e
  OBVIOUS
<1>10. W' = [F EXCEPT !.timer[x].expires = f]
  BY <1>0, <1>2, <1>3, <1>4, <1>5, <1>9 DEF ModInBucket, Wheels, timer_list
<1>11. CASE f = F.timer[x].expires
  <2>1. W' = F BY <1>4, <1>5, <1>10, <1>11 DEF Wheels, timer_list
  <2> QED BY <1>5, <1>8, <2>1, ArmedTimeStep
<1>12. CASE f = e
  <2>1. PICK U : U = [F EXCEPT !.timer[x].expires = e] OBVIOUS
  <2>2. W' = U BY <1>10, <1>12, <2>1
  <2>3. scenario.lag \in Nat \ {0} /\ jiffies \in Nat BY TimeFacts
  <2>4. c = F.timer[x].cpu BY <1>4, <1>5
  <2>5. InTime(scenario, U, jiffies, asleep, soft)
    BY <1>4, <1>5, <1>6, <1>7, <2>1, <2>3, <2>4, ExpiryInBucket
  <2> QED BY <1>8, <2>2, <2>5, ArmedTimeStep
<1> QED BY <1>9, <1>11, <1>12

(***************************************************************************)
(* Timers that change their bucket or their base.                           *)
(***************************************************************************)
WithExpiry(V, x, e) == [V EXCEPT !.timer[x].expires = e]

LEMMA FreeExpiryTime ==
  ASSUME NEW s, NEW j \in Nat, NEW V \in Wheels, NEW wakes, NEW where, InTime(s, V, j, wakes, where),
         NEW x \in Timer, Placed(V, x), NEW e \in Nat, Reached(s, e, j),
         NEW U, U = WithExpiry(V, x, e)
  PROVE  /\ U \in Wheels /\ Placed(U, x) /\ U.base = V.base /\ U.timer[x].expires = e
         /\ InTime(s, U, j, wakes, where)
<1> DEFINE t == [V.timer[x] EXCEPT !.expires = e]
<1>1. V.timer[x] \in timer_list BY WheelFields
<1>2. t \in timer_list /\ t.cpu = V.timer[x].cpu /\ t.expires = e BY <1>1 DEF timer_list
<1>3. U = [V EXCEPT !.timer = [@ EXCEPT ![x] = t]] BY DEF WithExpiry
<1> HIDE DEF t
<1>4. /\ U \in Wheels /\ U.base = V.base /\ U.kick = V.kick /\ U.timer[x] = t
      /\ \A y \in Timer \ {x} : U.timer[y] = V.timer[y]
  BY <1>2, <1>3 DEF Wheels
<1>5. Placed(U, x) BY FreeExpiry DEF WithExpiry
<1>6. Reached(s, U.timer[x].expires, j) /\ U.timer[x].cpu \in s.cpus BY <1>2, <1>4 DEF InTime
<1>7. InTime(s, U, j, wakes, where) BY <1>4, <1>6, FreeTimerInTime
<1> QED BY <1>2, <1>4, <1>5, <1>7

LEMMA MarkedTime ==
  ASSUME NEW s, NEW j \in Nat, NEW V \in Wheels, NEW wakes, NEW where, InTime(s, V, j, wakes, where),
         NEW x \in Timer, Placed(V, x), NEW U, U = Marked(V, x)
  PROVE  InTime(s, U, j, wakes, where)
<1> DEFINE t == [V.timer[x] EXCEPT !.migrating = TRUE]
<1>1. V.timer[x] \in timer_list BY WheelFields
<1>2. t \in timer_list /\ t.cpu = V.timer[x].cpu /\ t.expires = V.timer[x].expires BY <1>1 DEF timer_list
<1>3. U = [V EXCEPT !.timer = [@ EXCEPT ![x] = t]] BY DEF Marked
<1> HIDE DEF t
<1>4. /\ U \in Wheels /\ U.base = V.base /\ U.kick = V.kick /\ U.timer[x] = t
      /\ \A y \in Timer \ {x} : U.timer[y] = V.timer[y]
  BY <1>2, <1>3 DEF Wheels
<1>5. Reached(s, V.timer[x].expires, j) /\ V.timer[x].cpu \in s.cpus BY DEF InTime
<1> QED BY <1>2, <1>4, <1>5, FreeTimerInTime

\* The timer of a call is queued on base c, whose clock has been forwarded.
LEMMA QueuedTime ==
  ASSUME LinuxInv, TimeInv, NEW p \in Proc, NEW x \in Timer, NEW c \in Cpu, c \in scenario.cpus, Sets(call[p]),
         NEW E \in Wheels, Placed(E, x), E.timer[x].expires = call[p].expires,
         InTime(scenario, E, jiffies, asleep, soft), Forward(scenario, E.base[c], jiffies),
         Added(W', E, c, x), call' = Armed(p), UNCHANGED <<scenario, jiffies, soft, asleep, online>>
  PROVE  TimeInv'
<1>1. PICK U : U = internal_add_timer(E, c, x) OBVIOUS
<1>2. scenario.lag \in Nat \ {0} /\ jiffies \in Nat BY TimeFacts
<1>3. jiffies < E.timer[x].expires
  <2>1. call[p].expires \in Nat BY TimeFacts DEF Calls
  <2>2. call[p].expires > jiffies BY TimeFacts DEF CallInTime
  <2> QED BY <1>2, <2>1, <2>2
<1>4. InTime(scenario, U, jiffies, asleep, soft) BY <1>1, <1>2, <1>3, AddWheelInTime
<1>5. W' = U BY <1>1 DEF Added
<1> QED BY <1>4, <1>5, ArmedTimeStep

\* The timer of a call leaves for another base.
LEMMA LeavesTime ==
  ASSUME LinuxInv, TimeInv, NEW p \in Proc, Sets(call[p]), NEW x \in Timer, NEW D \in Wheels, Placed(D, x),
         InTime(scenario, D, jiffies, asleep, soft), W' = Marked(D, x),
         NEW k, k.op = call[p].op, k.expires = call[p].expires, k.to \subseteq scenario.cpus,
         call' = [call EXCEPT ![p] = k], UNCHANGED <<scenario, jiffies, soft, asleep, online>>
  PROVE  TimeInv'
<1>1. PICK U : U = Marked(D, x) OBVIOUS
<1>2. InTime(scenario, U, jiffies, asleep, soft) BY <1>1, TimeFacts, MarkedTime
<1>3. CallInTime(scenario, call[p], jiffies) BY TimeFacts
<1>4. CallInTime(scenario, k, jiffies) BY <1>3 DEF CallInTime, Sets
<1> QED BY <1>1, <1>2, <1>4, CallTimeStep

LEMMA ModRequeueTime ==
  ASSUME LinuxInv, TimeInv, NEW p \in Proc, NEW new \in online, ModRequeue(p, new) PROVE TimeInv'
<1>0. PICK x : x = call[p].x OBVIOUS
<1>1. PICK c : c = call[p].tf[1] OBVIOUS
<1>2. PICK F : F = Forwarded(p) OBVIOUS
<1>3. PICK D : D = Lifted(F, c, x) OBVIOUS
<1>4. /\ x \in Timer /\ c = W.timer[x].cpu /\ c \in Cpu /\ c \in scenario.cpus /\ call[p] \in Calls
      /\ call[p].expires \in Nat /\ call[p].pc = "locked" /\ CallInTime(scenario, call[p], jiffies)
  BY <1>0, <1>1, HeldTime DEF ModRequeue
<1>5. call[p].op \in Arming /\ Sets(call[p]) BY <1>4 DEF ModRequeue, Arming, Sets
<1>6. /\ F \in Wheels /\ Placed(F, NoTimer) /\ F.timer = W.timer
      /\ InTime(scenario, F, jiffies, asleep, soft) /\ Forward(scenario, F.base[c], jiffies)
  BY <1>1, <1>2, <1>4, ForwardedTime DEF Forwarded
<1>7. D \in Wheels /\ Placed(D, x)
  <2>1. c = F.timer[x].cpu BY <1>4, <1>6
  <2> QED BY <1>3, <1>4, <1>6, <2>1, LiftedFacts
<1>8. Thinned(D, F)
  <2>1. PICK clear \in BOOLEAN : D = detach_if_pending(F, c, x, clear) BY <1>3, Zenon DEF Lifted
  <2>2. Once(F) BY <1>6 DEF Placed
  <2> QED BY <1>4, <1>6, <2>1, <2>2, DetachIfPendingThins
<1>9. InTime(scenario, D, jiffies, asleep, soft)
  <2>1. jiffies \in Nat BY TimeFacts
  <2> QED BY <1>6, <1>7, <1>8, <2>1, ThinnedInTime
<1>10. Forward(scenario, D.base[c], jiffies)
  BY <1>4, <1>6, <1>8 DEF Thinned, SameClock, Forward, Near
<1>11. UNCHANGED <<scenario, jiffies, soft, asleep, online>> BY DEF ModRequeue
<1>12. CASE new # c /\ MayLeave(c, x)
  <2> DEFINE k == [call[p] EXCEPT !.pc = "move", !.to = {new}]
  <2>1. W' = Marked(D, x) /\ call' = [call EXCEPT ![p].pc = "move", ![p].to = {new}]
    BY <1>0, <1>1, <1>2, <1>3, <1>12, Zenon DEF ModRequeue, Marked, Lifted
  <2>2. {new} \subseteq scenario.cpus BY TimeFacts
  <2>3. /\ k.op = call[p].op /\ k.expires = call[p].expires /\ k.to = {new}
        /\ call' = [call EXCEPT ![p] = k]
    BY <1>4, <2>1, TimeFacts DEF Calls
  <2> HIDE DEF k
  <2> QED BY <1>4, <1>5, <1>7, <1>9, <1>11, <2>1, <2>2, <2>3, LeavesTime
<1>13. CASE ~(new # c /\ MayLeave(c, x))
  <2>1. PICK e : e = call[p].expires OBVIOUS
  <2>2. PICK E : E = WithExpiry(D, x, e) OBVIOUS
  <2>3. Added(W', E, c, x) /\ call' = Armed(p)
    BY <1>0, <1>1, <1>2, <1>3, <1>13, <2>1, <2>2, Zenon DEF ModRequeue, Lifted, Added, WithExpiry
  <2>4. e \in Nat /\ Reached(scenario, e, jiffies) BY <1>4, <1>5, <2>1 DEF CallInTime
  <2>5. jiffies \in Nat BY TimeFacts
  <2>6. /\ E \in Wheels /\ Placed(E, x) /\ E.base = D.base /\ E.timer[x].expires = e
        /\ InTime(scenario, E, jiffies, asleep, soft)
    BY <1>4, <1>7, <1>9, <2>2, <2>4, <2>5, FreeExpiryTime
  <2>7. Forward(scenario, E.base[c], jiffies) /\ E.timer[x].expires = call[p].expires
    BY <1>10, <2>1, <2>6
  <2> QED BY <1>4, <1>5, <1>11, <2>3, <2>6, <2>7, QueuedTime
<1> QED BY <1>12, <1>13

LEMMA AddOnTime == ASSUME LinuxInv, TimeInv, NEW p \in Proc, AddOn(p) PROVE TimeInv'
<1>0. PICK x : x = call[p].x OBVIOUS
<1>1. PICK c : c = call[p].tf[1] OBVIOUS
<1>2. PICK e : e = call[p].expires OBVIOUS
<1>3. PICK E : E = WithExpiry(W, x, e) OBVIOUS
<1>4. /\ x \in Timer /\ c = W.timer[x].cpu /\ c \in Cpu /\ c \in scenario.cpus /\ call[p] \in Calls
      /\ e \in Nat /\ call[p].pc = "locked" /\ CallInTime(scenario, call[p], jiffies) /\ call[p].op = "on"
  BY <1>0, <1>1, <1>2, HeldTime DEF AddOn
<1>5. call[p].op \in Arming /\ Sets(call[p]) BY <1>4 DEF Arming, Sets
<1>6. Reached(scenario, e, jiffies) BY <1>2, <1>4, <1>5 DEF CallInTime
<1>7. /\ W \in Wheels /\ Placed(W, NoTimer) /\ InTime(scenario, W, jiffies, asleep, soft) /\ jiffies \in Nat
      /\ scenario.lag \in Nat \ {0}
  BY TimeFacts
<1>8. Placed(W, x)
  <2>1. ~W.timer[x].pending BY <1>0, <1>4, OnFacts
  <2> QED BY <1>4, <1>7, <2>1, PlacedIsFree
<1>9. /\ E \in Wheels /\ Placed(E, x) /\ E.timer[x].expires = e
      /\ InTime(scenario, E, jiffies, asleep, soft)
  BY <1>3, <1>4, <1>6, <1>7, <1>8, FreeExpiryTime
<1>10. UNCHANGED <<scenario, jiffies, soft, asleep, online>> BY DEF AddOn
<1>11. CASE call[p].to # {c}
  <2> DEFINE k == [call[p] EXCEPT !.pc = "move"]
  <2>1. W' = Marked(E, x) /\ call' = [call EXCEPT ![p].pc = "move"]
    BY <1>0, <1>1, <1>2, <1>3, <1>11, Zenon DEF AddOn, Marked, WithExpiry
  <2>2. /\ k.op = call[p].op /\ k.expires = call[p].expires /\ k.to = call[p].to
        /\ call' = [call EXCEPT ![p] = k]
    BY <1>4, <2>1, TimeFacts DEF Calls
  <2> HIDE DEF k
  <2>3. k.to \subseteq scenario.cpus BY <1>4, <2>2 DEF CallInTime
  <2> QED BY <1>4, <1>5, <1>9, <1>10, <2>1, <2>2, <2>3, LeavesTime
<1>12. CASE call[p].to = {c}
  <2>1. PICK F : F = forward_timer_base(E, c, jiffies) OBVIOUS
  <2>2. Added(W', F, c, x) /\ call' = Armed(p)
    BY <1>0, <1>1, <1>2, <1>3, <1>12, <2>1, Zenon DEF AddOn, Added, WithExpiry
  <2>3. F \in Wheels /\ SameLists(F, E) /\ F.timer = E.timer BY <1>4, <1>7, <1>9, <2>1, ForwardFacts
  <2>4. Placed(F, x) BY <1>9, <2>3, PlacedBySame
  <2>5. InTime(scenario, F, jiffies, asleep, soft) /\ Forward(scenario, F.base[c], jiffies)
    BY <1>4, <1>7, <1>9, <2>1, WheelForwardInTime
  <2>6. F.timer[x].expires = call[p].expires BY <1>2, <1>9, <2>3
  <2> QED BY <1>4, <1>5, <1>10, <2>2, <2>3, <2>4, <2>5, <2>6, QueuedTime
<1> QED BY <1>11, <1>12

LEMMA MovedTime == ASSUME LinuxInv, TimeInv, NEW p \in Proc, Moved(p) PROVE TimeInv'
<1>0. PICK x : x = call[p].x OBVIOUS
<1>1. PICK e : e = call[p].expires OBVIOUS
<1>2. PICK c \in Cpu : c = (CHOOSE n \in call[p].to : TRUE) /\ call[p].to = {c}
  BY DEF Moved, LinuxInv, Targets
<1>3. PICK F : F = forward_timer_base(W, c, jiffies) OBVIOUS
<1>4. /\ x \in Timer /\ W.timer[x].migrating /\ call[p] \in Calls /\ call[p].pc = "move"
      /\ call[p].op \in Arming /\ W \in Wheels /\ Placed(W, NoTimer) /\ jiffies \in Nat
      /\ CallInTime(scenario, call[p], jiffies)
  BY <1>0, TimeFacts DEF Moved, LinuxInv, Typed, CallsStand, OneMover
<1>5. /\ e \in Nat /\ Reached(scenario, e, jiffies) /\ c \in scenario.cpus /\ Sets(call[p])
  BY <1>1, <1>2, <1>4 DEF Calls, CallInTime, Sets
<1>6. /\ F \in Wheels /\ Placed(F, NoTimer) /\ F.timer = W.timer
      /\ InTime(scenario, F, jiffies, asleep, soft) /\ Forward(scenario, F.base[c], jiffies)
  BY <1>3, <1>5, ForwardedTime
<1>7. Placed(F, x) BY <1>4, <1>6, PlacedIsFree
<1> DEFINE t == [F.timer[x] EXCEPT !.cpu = c, !.migrating = FALSE, !.expires = e]
<1>8. PICK U : U = [F EXCEPT !.timer[x].cpu = c, !.timer[x].migrating = FALSE, !.timer[x].expires = e]
  OBVIOUS
<1>9. F.timer[x] \in timer_list BY <1>4, <1>6, WheelFields
<1>10. t \in timer_list /\ t.cpu = c /\ t.expires = e BY <1>5, <1>9 DEF timer_list
<1>11. U = [F EXCEPT !.timer = [@ EXCEPT ![x] = t]] BY <1>4, <1>6, <1>8 DEF Wheels
<1> HIDE DEF t
<1>12. /\ U \in Wheels /\ U.base = F.base /\ U.kick = F.kick /\ U.timer[x] = t
       /\ \A y \in Timer \ {x} : U.timer[y] = F.timer[y]
  BY <1>4, <1>6, <1>10, <1>11 DEF Wheels
<1>13. Placed(U, x)
  <2>1. SameLists(U, F) BY <1>12 DEF SameLists
  <2> QED BY <1>4, <1>6, <1>7, <1>12, <2>1, FreeTimerMayChange
<1>14. InTime(scenario, U, jiffies, asleep, soft)
  <2>1. Reached(scenario, U.timer[x].expires, jiffies) /\ U.timer[x].cpu \in scenario.cpus
    BY <1>5, <1>10, <1>12
  <2> QED BY <1>4, <1>6, <1>7, <1>12, <2>1, FreeTimerInTime
<1>15. Forward(scenario, U.base[c], jiffies) /\ U.timer[x].expires = call[p].expires
  BY <1>1, <1>6, <1>10, <1>12
<1>16. /\ Added(W', U, c, x) /\ call' = Armed(p)
  BY <1>0, <1>1, <1>2, <1>3, <1>8, Zenon DEF Moved, Added
<1>17. UNCHANGED <<scenario, jiffies, soft, asleep, online>> BY DEF Moved
<1> QED BY <1>4, <1>5, <1>12, <1>13, <1>14, <1>15, <1>16, <1>17, QueuedTime

\* A timer is deleted under the lock of its base.
LEMMA DeletedTime ==
  ASSUME LinuxInv, TimeInv, NEW p \in Proc, NEW pc \in {"locked", "del"}, Holds(p, pc),
         W' = Deleted(W, call[p].tf[1], call[p].x), NEW k, CallInTime(scenario, k, jiffies),
         call' = [call EXCEPT ![p] = k], UNCHANGED <<scenario, jiffies, soft, asleep, online>>
  PROVE  TimeInv'
<1>1. PICK x, c : x = call[p].x /\ c = call[p].tf[1] OBVIOUS
<1>2. x \in Timer /\ c \in Cpu BY <1>1, HeldTime
<1>3. PICK U : U = Deleted(W, c, x) OBVIOUS
<1>4. PICK clear \in BOOLEAN : U = detach_if_pending(W, c, x, clear) BY <1>3, Zenon DEF Deleted
<1>5. W \in Wheels /\ Once(W) /\ jiffies \in Nat /\ InTime(scenario, W, jiffies, asleep, soft)
  BY TimeFacts DEF Placed
<1>6. U \in Wheels /\ Thinned(U, W) BY <1>2, <1>4, <1>5, DetachIfPendingThins
<1>7. InTime(scenario, U, jiffies, asleep, soft) BY <1>5, <1>6, ThinnedInTime
<1> QED BY <1>1, <1>3, <1>7, CallTimeStep

LEMMA del_timerTime == ASSUME LinuxInv, TimeInv, NEW p \in Proc, del_timer(p) PROVE TimeInv'
<1>1. W' = Deleted(W, call[p].tf[1], call[p].x) BY Zenon DEF del_timer, Deleted
<1>2. /\ Holds(p, "locked") /\ call' = [call EXCEPT ![p] = NoCall]
      /\ UNCHANGED <<scenario, jiffies, soft, asleep, online>>
  BY DEF del_timer
<1> QED BY <1>1, <1>2, NoCallInTime, DeletedTime

LEMMA try_to_del_timer_syncTime ==
  ASSUME LinuxInv, TimeInv, NEW p \in Proc, try_to_del_timer_sync(p) PROVE TimeInv'
<1> DEFINE k == IF call[p].op = "msleep" /\ call[p].expires > jiffies
                THEN [call[p] EXCEPT !.pc = "locked", !.seen = FALSE, !.woken = FALSE] ELSE NoCall
<1>1. PICK pc \in {"locked", "del"} : Holds(p, pc) BY DEF try_to_del_timer_sync, DelLocked
<1>2. call[p] \in Calls /\ CallInTime(scenario, call[p], jiffies) BY <1>1, HeldTime
<1>3. call' = [call EXCEPT ![p] = k] BY <1>2 DEF try_to_del_timer_sync, LinuxInv, Typed, Calls
<1>4. CallInTime(scenario, k, jiffies)
  <2>1. CASE call[p].op = "msleep" /\ call[p].expires > jiffies
    <3>1. k.op = call[p].op /\ k.to = call[p].to /\ k.expires = call[p].expires BY <1>2, <2>1 DEF Calls
    <3> QED BY <1>2, <2>1, <3>1 DEF CallInTime
  <2>2. CASE ~(call[p].op = "msleep" /\ call[p].expires > jiffies) BY <2>2, NoCallInTime
  <2> QED BY <2>1, <2>2
<1> HIDE DEF k
<1>5. W' = Deleted(W, call[p].tf[1], call[p].x) BY Zenon DEF try_to_del_timer_sync, Deleted
<1>6. UNCHANGED <<scenario, jiffies, soft, asleep, online>> BY DEF try_to_del_timer_sync
<1> QED BY <1>1, <1>3, <1>4, <1>5, <1>6, DeletedTime

LEMMA ContinueTime == ASSUME LinuxInv, TimeInv, NEW p \in Proc, Continue(p) PROVE TimeInv'
BY RereadTime, ModKeepsExpiryTime, ModInBucketTime, ModNotPendingTime, ModRequeueTime, AddOnTime,
   MovedTime, del_timerTime, WokenTime, try_to_del_timer_syncTime DEF Continue

(***************************************************************************)
(* Steps of the CPUs.                                                       *)
(***************************************************************************)
\* The base of a CPU, and its softirq.
LEMMA CpuTime ==
  ASSUME LinuxInv, TimeInv, NEW c \in Cpu, NEW b, b = W.base[c]
  PROVE  /\ b \in timer_base /\ b.clk \in Nat /\ b.next_expiry \in Nat /\ Fits(W, c, b)
         /\ c \in scenario.cpus => Timely(scenario, b, W.timer, jiffies)
         /\ Sleeps(b, c \in W.kick, asleep[c]) /\ Settled(b, soft[c])
<1>1. W \in Wheels /\ Placed(W, NoTimer) /\ InTime(scenario, W, jiffies, asleep, soft) BY TimeFacts
<1>2. b \in timer_base /\ b.clk \in Nat /\ b.next_expiry \in Nat BY <1>1, WheelFields
<1>3. Fits(W, c, b) BY <1>1, <1>2 DEF Fits, Wheels
<1> QED BY <1>1, <1>2, <1>3 DEF InTime

\* The base of one CPU changes, and the calls do not.
LEMMA BaseTimeStep ==
  ASSUME LinuxInv, TimeInv, NEW c \in Cpu, NEW b, W'.timer = W.timer,
         \A d \in Cpu : W'.base[d] = IF d = c THEN b ELSE W.base[d],
         \A d \in Cpu \ {c} : /\ d \in W'.kick <=> d \in W.kick
                              /\ asleep'[d] = asleep[d] /\ soft'[d] = soft[d],
         c \in scenario.cpus => Timely(scenario, b, W.timer, jiffies),
         Sleeps(b, c \in W'.kick, asleep'[c]), Settled(b, soft'[c]),
         asleep' \in [Cpu -> Int], \A d \in Cpu : d \notin online' => asleep'[d] < 0,
         scenario.hotplug = {} => online' = scenario.cpus, UNCHANGED <<scenario, jiffies, call>>
  PROVE  TimeInv'
<1>1. PICK U, wakes, where : U = W' /\ wakes = asleep' /\ where = soft' OBVIOUS
<1>2. InTime(scenario, W, jiffies, asleep, soft) BY TimeFacts
<1>3. SameElsewhere(U, W, c, wakes, asleep, where, soft) BY <1>1 DEF SameElsewhere
<1>4. U.base[c] = b BY <1>1
<1>5. BaseIsInTime(scenario, U, c, W.timer, jiffies, wakes, where) BY <1>1, <1>4 DEF BaseIsInTime
<1>6. InTime(scenario, U, jiffies, wakes, where) BY <1>2, <1>3, <1>5, BaseInTime
<1> QED BY <1>1, <1>6, CpuTimeStep

LEMMA GoIdleTime == ASSUME LinuxInv, TimeInv, NEW c \in Cpu, GoIdle(c) PROVE TimeInv'
<1>1. PICK b, a : b = W.base[c] /\ a = get_next_timer_interrupt(b, jiffies) OBVIOUS
<1>2. /\ c \in online /\ c \in scenario.cpus /\ soft[c] = "idle"
      /\ W' = [W EXCEPT !.base = [@ EXCEPT ![c] = a]]
      /\ asleep' = [asleep EXCEPT ![c] = IF a.is_idle THEN a.next_expiry ELSE -1]
      /\ UNCHANGED <<scenario, jiffies, soft, call, online>>
  BY <1>1, TimeFacts DEF GoIdle
<1>3. /\ b \in timer_base /\ Fits(W, c, b) /\ Timely(scenario, b, W.timer, jiffies) /\ Settled(b, soft[c])
  BY <1>1, <1>2, CpuTime
<1>4. /\ W \in Wheels /\ jiffies \in Nat /\ scenario.lag \in Nat /\ asleep \in [Cpu -> Int]
      /\ \A d \in Cpu : d \notin online => asleep[d] < 0
  BY TimeFacts
<1>5. \A i \in Buckets : ToSet(b.vectors[i]) # {} => i \in b.pending_map BY <1>3, <1>4, FitsBits
<1>6. Timely(scenario, a, W.timer, jiffies) BY <1>1, <1>3, <1>4, <1>5, InterruptInTime
<1>7. a \in timer_base /\ a.heads = b.heads BY <1>1, <1>3, <1>4, InterruptFacts
<1>8. a.next_expiry \in Nat /\ a.is_idle \in BOOLEAN BY <1>7 DEF timer_base
<1>9. /\ W'.timer = W.timer /\ W'.kick = W.kick
      /\ \A d \in Cpu : W'.base[d] = IF d = c THEN a ELSE W.base[d]
  BY <1>2, <1>4 DEF Wheels
<1>10. /\ asleep' \in [Cpu -> Int] /\ \A d \in Cpu \ {c} : asleep'[d] = asleep[d]
       /\ asleep'[c] = IF a.is_idle THEN a.next_expiry ELSE -1
  BY <1>2, <1>4, <1>8
<1>11. Sleeps(a, c \in W'.kick, asleep'[c]) BY <1>8, <1>10 DEF Sleeps
<1>12. Settled(a, soft'[c]) BY <1>2, <1>3, <1>7 DEF Settled
<1>13. \A d \in Cpu : d \notin online' => asleep'[d] < 0 BY <1>2, <1>4, <1>10
<1>14. scenario.hotplug = {} => online' = scenario.cpus BY <1>2 DEF TimeInv
<1> QED BY <1>2, <1>6, <1>9, <1>10, <1>11, <1>12, <1>13, <1>14, BaseTimeStep

LEMMA timer_clear_idleTime == ASSUME LinuxInv, TimeInv, NEW c \in Cpu, timer_clear_idle(c) PROVE TimeInv'
<1>1. PICK b, a : b = W.base[c] /\ a = [b EXCEPT !.is_idle = FALSE] OBVIOUS
<1>2. /\ asleep[c] >= 0 /\ asleep' = [asleep EXCEPT ![c] = -1]
      /\ W' = [W EXCEPT !.base = [@ EXCEPT ![c] = a], !.kick = @ \ {c}]
      /\ UNCHANGED <<scenario, jiffies, soft, call, online>>
  BY <1>1 DEF timer_clear_idle
<1>3. /\ b \in timer_base /\ Settled(b, soft[c])
      /\ c \in scenario.cpus => Timely(scenario, b, W.timer, jiffies)
  BY <1>1, CpuTime
<1>4. /\ W \in Wheels /\ asleep \in [Cpu -> Int] /\ \A d \in Cpu : d \notin online => asleep[d] < 0
  BY TimeFacts
<1>5. /\ a.clk = b.clk /\ a.next_expiry = b.next_expiry /\ a.must_forward_clk = b.must_forward_clk
      /\ a.vectors = b.vectors /\ a.heads = b.heads /\ a.pending_map = b.pending_map /\ ~a.is_idle
  BY <1>1, <1>3 DEF timer_base
<1>6. c \in scenario.cpus => Timely(scenario, a, W.timer, jiffies)
  <2>1. Near(scenario, b, jiffies) => Near(scenario, a, jiffies) BY <1>5 DEF Near
  <2>2. Close(scenario, b, jiffies) => Close(scenario, a, jiffies) BY <1>5, <2>1 DEF Close
  <2>3. Forwardable(scenario, b) => Forwardable(scenario, a) BY <1>5 DEF Forwardable, Ahead
  <2>4. OnTime(b, W.timer) => OnTime(a, W.timer) BY <1>5 DEF OnTime
  <2> QED BY <1>3, <1>5, <2>2, <2>3, <2>4 DEF Timely
<1>7. /\ W'.timer = W.timer /\ W'.kick = W.kick \ {c}
      /\ \A d \in Cpu : W'.base[d] = IF d = c THEN a ELSE W.base[d]
  BY <1>2, <1>4 DEF Wheels
<1>8. /\ asleep' \in [Cpu -> Int] /\ \A d \in Cpu \ {c} : asleep'[d] = asleep[d]
      /\ asleep'[c] = -1
  BY <1>2, <1>4
<1>9. Sleeps(a, c \in W'.kick, asleep'[c]) BY <1>5, <1>8 DEF Sleeps
<1>10. Settled(a, soft'[c]) BY <1>2, <1>3, <1>5 DEF Settled
<1>11. \A d \in Cpu : d \notin online' => asleep'[d] < 0 BY <1>2, <1>4, <1>8
<1>12. scenario.hotplug = {} => online' = scenario.cpus BY <1>2 DEF TimeInv
<1>13. \A d \in Cpu \ {c} : d \in W'.kick <=> d \in W.kick BY <1>7
<1> QED BY <1>2, <1>6, <1>7, <1>8, <1>9, <1>10, <1>11, <1>12, <1>13, BaseTimeStep

LEMMA CpuOfflineTime == ASSUME LinuxInv, TimeInv, NEW c \in Cpu, CpuOffline(c) PROVE TimeInv'
<1>1. /\ scenario.hotplug # {} /\ asleep[c] < 0 /\ online' = online \ {c}
      /\ UNCHANGED <<scenario, jiffies, W, soft, call, asleep>>
  BY DEF CpuOffline
<1>2. \A d \in Cpu : d \notin online' => asleep[d] < 0 BY <1>1, TimeFacts
<1> QED BY <1>1, <1>2 DEF TimeInv

\* The clock of a CPU that comes on line is the current jiffy; it has no timers.
LEMMA timers_prepareTime == ASSUME LinuxInv, TimeInv, NEW c \in Cpu, timers_prepare(c) PROVE TimeInv'
<1>1. PICK b, a : b = W.base[c] /\ a = timers_prepare_cpu(b, jiffies) OBVIOUS
<1>2. /\ c \in scenario.cpus \ online /\ \A i \in Buckets : b.vectors[i] = <<>>
      /\ W' = [W EXCEPT !.base = [@ EXCEPT ![c] = a]] /\ online' = online \cup {c}
      /\ UNCHANGED <<scenario, jiffies, soft, call, asleep>>
  BY <1>1 DEF timers_prepare
<1>3. scenario.hotplug # {} BY <1>2 DEF TimeInv
<1>4. /\ W \in Wheels /\ asleep \in [Cpu -> Int] /\ jiffies \in Nat
      /\ \A d \in Cpu : d \notin online => asleep[d] < 0
  BY TimeFacts
<1>5. b \in timer_base /\ Settled(b, soft[c]) BY <1>1, CpuTime
<1>6. soft[c] = "idle" BY <1>2 DEF LinuxInv, HandlersAtHome
<1>7. PICK n \in Nat : n = jiffies + NEXT_TIMER_MAX_DELTA BY <1>4, LinuxWheelAssumption
<1>8. /\ a.clk = jiffies /\ a.next_expiry = n /\ ~a.is_idle /\ a.must_forward_clk
      /\ a.vectors = b.vectors /\ a.heads = b.heads
  BY <1>1, <1>5, <1>7 DEF timers_prepare_cpu, timer_base
<1>9. \A i \in Buckets : ToSet(a.vectors[i]) = {} BY <1>2, <1>8, EmptyList
<1>10. Timely(scenario, a, W.timer, jiffies)
  <2>1. OnTime(a, W.timer) BY <1>9 DEF OnTime
  <2>2. Ahead(scenario, a) = {} BY <1>3, <1>9 DEF Ahead
  <2>3. jiffies <= n /\ n <= jiffies + NEXT_TIMER_MAX_DELTA BY <1>4, <1>7, LinuxWheelAssumption
  <2>4. Forwardable(scenario, a) BY <1>8, <2>2, <2>3 DEF Forwardable
  <2>5. Close(scenario, a, jiffies) BY <1>3 DEF Close, Near
  <2>6. jiffies <= jiffies + 1 BY <1>4
  <2> QED BY <1>8, <2>1, <2>4, <2>5, <2>6 DEF Timely
<1>11. /\ W'.timer = W.timer /\ W'.kick = W.kick
       /\ \A d \in Cpu : W'.base[d] = IF d = c THEN a ELSE W.base[d]
  BY <1>2, <1>4 DEF Wheels
<1>12. asleep'[c] < 0 BY <1>2, <1>4
<1>13. Sleeps(a, c \in W'.kick, asleep'[c])
  <2>1. ~(asleep'[c] >= 0) BY <1>2, <1>4, <1>12
  <2> QED BY <1>8, <2>1 DEF Sleeps
<1>14. Settled(a, soft'[c]) BY <1>2, <1>5, <1>6, <1>8 DEF Settled
<1>15. \A d \in Cpu : d \notin online' => asleep'[d] < 0 BY <1>2, <1>4
<1> QED BY <1>2, <1>3, <1>4, <1>10, <1>11, <1>13, <1>14, <1>15, BaseTimeStep

LEMMA HandlerReturnsTime == ASSUME LinuxInv, TimeInv, NEW c \in Cpu, HandlerReturns(c) PROVE TimeInv'
<1>1. PICK b, a : b = W.base[c] /\ a = [b EXCEPT !.running = NoTimer] OBVIOUS
<1>2. /\ soft[c] = "fn" /\ soft' = [soft EXCEPT ![c] = "relock"]
      /\ W' = [W EXCEPT !.base = [@ EXCEPT ![c] = a]]
      /\ UNCHANGED <<scenario, jiffies, call, asleep, online>>
  BY <1>1 DEF HandlerReturns
<1>3. /\ b \in timer_base /\ Settled(b, soft[c]) /\ Sleeps(b, c \in W.kick, asleep[c])
      /\ c \in scenario.cpus => Timely(scenario, b, W.timer, jiffies)
  BY <1>1, CpuTime
<1>4. /\ W \in Wheels /\ asleep \in [Cpu -> Int] /\ \A d \in Cpu : d \notin online => asleep[d] < 0
      /\ jiffies \in Nat /\ soft \in [Cpu -> {"idle", "fn", "relock"}]
  BY TimeFacts DEF LinuxInv, Typed
<1>5. a \in timer_base /\ SameClock(a, b) /\ a.vectors = b.vectors /\ a.pending_map = b.pending_map
  BY <1>1, <1>3 DEF timer_base, SameClock
<1>6. c \in scenario.cpus => Timely(scenario, a, W.timer, jiffies) BY <1>3, <1>4, <1>5, FewerTimers
<1>7. /\ W'.timer = W.timer /\ W'.kick = W.kick
      /\ \A d \in Cpu : W'.base[d] = IF d = c THEN a ELSE W.base[d]
  BY <1>2, <1>4 DEF Wheels
<1>8. Sleeps(a, c \in W'.kick, asleep'[c]) BY <1>2, <1>3, <1>5, <1>7 DEF Sleeps, SameClock
<1>9. soft'[c] = "relock" /\ \A d \in Cpu \ {c} : soft'[d] = soft[d] BY <1>2, <1>4
<1>10. Settled(a, soft'[c]) BY <1>2, <1>3, <1>5, <1>9 DEF Settled, SameClock
<1>11. scenario.hotplug = {} => online' = scenario.cpus BY <1>2 DEF TimeInv
<1> QED BY <1>2, <1>4, <1>6, <1>7, <1>8, <1>9, <1>10, <1>11, BaseTimeStep

\* __run_timers, of a base whose clock catches up.
LEMMA RunningThins ==
  ASSUME NEW V \in Wheels, NEW c \in Cpu, NEW r, NEW U, U = WithRunning(V, c, r)
  PROVE  Thinned(U, V)
<1> DEFINE b == [V.base[c] EXCEPT !.running = r]
<1>1. V.base[c] \in timer_base BY WheelFields
<1>2. /\ SameClock(b, V.base[c]) /\ b.vectors = V.base[c].vectors /\ b.heads = V.base[c].heads
      /\ b.pending_map = V.base[c].pending_map
  BY <1>1 DEF timer_base, SameClock
<1>3. U = [V EXCEPT !.base = [@ EXCEPT ![c] = b]] BY DEF WithRunning
<1> HIDE DEF b
<1>4. U.timer = V.timer /\ U.kick = V.kick /\ \A d \in Cpu : U.base[d] = IF d = c THEN b ELSE V.base[d]
  BY <1>3 DEF Wheels
<1> QED BY <1>2, <1>4 DEF Thinned, SameClock

LEMMA __run_timersTime ==
  ASSUME LinuxInv, TimeInv, NEW c \in Cpu, NEW base, Fits(W, c, base), asleep[c] < 0,
         base.clk <= jiffies + 1, OnTime(base, W.timer), ~base.must_forward_clk, ~base.is_idle,
         CatchesUp(scenario, base, jiffies), __run_timers(c, base),
         UNCHANGED <<scenario, jiffies, asleep, online>>
  PROVE  TimeInv'
<1>0. /\ W \in Wheels /\ jiffies \in Nat /\ scenario.lag \in Nat \ {0} /\ asleep \in [Cpu -> Int]
      /\ call \in [Proc -> Calls] /\ soft \in [Cpu -> {"idle", "fn", "relock"}]
      /\ InTime(scenario, W, jiffies, asleep, soft)
  BY TimeFacts DEF LinuxInv, Typed
<1>1. PICK b : b = Collected(base, jiffies) OBVIOUS
<1>2. Fits(W, c, b) BY <1>0, <1>1, CollectedFits
<1>3. Timely(scenario, b, W.timer, jiffies) /\ ~b.must_forward_clk /\ ~b.is_idle
  BY <1>0, <1>1, CollectedInTime
<1>4. PICK V : V = [W EXCEPT !.base[c] = b] OBVIOUS
<1>5. /\ V \in Wheels /\ V.timer = W.timer /\ V.kick = W.kick /\ Placed(V, NoTimer)
      /\ \A d \in Cpu : V.base[d] = IF d = c THEN b ELSE W.base[d]
  <2>1. Placed(V, NoTimer) BY <1>2, <1>4 DEF Fits
  <2>2. b \in timer_base BY <1>2 DEF Fits
  <2>3. V = [W EXCEPT !.base = [@ EXCEPT ![c] = b]] BY <1>4
  <2> QED BY <1>0, <2>1, <2>2, <2>3 DEF Wheels
<1>6. Sleeps(b, c \in V.kick, asleep[c]) BY <1>0, <1>3 DEF Sleeps
<1>7. ASSUME NEW where, \A d \in Cpu \ {c} : where[d] = soft[d], where[c] = "idle" => b.heads = NoHeads
      PROVE  InTime(scenario, V, jiffies, asleep, where)
  <2>1. Settled(b, where[c]) BY <1>3, <1>7 DEF Settled
  <2>2. BaseIsInTime(scenario, V, c, W.timer, jiffies, asleep, where)
    BY <1>3, <1>5, <1>6, <2>1 DEF BaseIsInTime
  <2>3. SameElsewhere(V, W, c, asleep, asleep, where, soft) BY <1>5, <1>7 DEF SameElsewhere
  <2> QED BY <1>0, <2>2, <2>3, BaseInTime
<1>8. InTime(scenario, W', jiffies, asleep, soft')
  <2>1. PICK where : where = soft' OBVIOUS
  <2>2. CASE V.base[c].heads = NoHeads
    <3>1. W' = V /\ soft' = [soft EXCEPT ![c] = "idle"] BY <1>1, <1>4, <2>2 DEF __run_timers
    <3>2. b.heads = NoHeads BY <1>5, <2>2
    <3>3. \A d \in Cpu \ {c} : where[d] = soft[d] BY <1>0, <2>1, <3>1
    <3>4. InTime(scenario, V, jiffies, asleep, where) BY <1>7, <3>2, <3>3
    <3> QED BY <2>1, <3>1, <3>4
  <2>3. CASE V.base[c].heads # NoHeads
    <3>1. PICK x : x = NextHead(V.base[c]) OBVIOUS
    <3>2. PICK D : D = Expired(V, c, x) OBVIOUS
    <3>3. W' = WithRunning(D, c, x) /\ soft' = [soft EXCEPT ![c] = "fn"]
      BY <1>1, <1>4, <2>3, <3>1, <3>2, Zenon DEF __run_timers, Expired, WithRunning
    <3>4. x \in Timer /\ c = V.timer[x].cpu BY <1>5, <2>3, <3>1, NextHeadFacts
    <3>5. D \in Wheels /\ Placed(D, NoTimer) BY <1>5, <3>2, <3>4, ExpiredFacts
    <3>6. Thinned(D, V)
      <4>1. PICK clear \in BOOLEAN : D = detach_timer(V, c, x, clear) BY <3>2, Zenon DEF Expired
      <4>2. Once(V) BY <1>5 DEF Placed
      <4> QED BY <1>5, <3>4, <4>1, <4>2, DetachThins
    <3>7. PICK U : U = WithRunning(D, c, x) OBVIOUS
    <3>8. U \in Wheels /\ Thinned(U, D) BY <3>4, <3>5, <3>7, RunningFacts, RunningThins
    <3>9. \A d \in Cpu \ {c} : where[d] = soft[d] BY <1>0, <2>1, <3>3
    <3>10. where[c] = "fn" BY <1>0, <2>1, <3>3
    <3>11. InTime(scenario, V, jiffies, asleep, where) BY <1>7, <3>9, <3>10
    <3>12. InTime(scenario, D, jiffies, asleep, where) BY <1>0, <1>5, <3>5, <3>6, <3>11, ThinnedInTime
    <3>13. InTime(scenario, U, jiffies, asleep, where) BY <1>0, <3>5, <3>8, <3>12, ThinnedInTime
    <3> QED BY <2>1, <3>3, <3>7, <3>13
  <2> QED BY <2>2, <2>3
<1>9. ASSUME NEW p \in Proc PROVE CallInTime(scenario, call'[p], jiffies)
  <2>1. CallInTime(scenario, call[p], jiffies) /\ call[p] \in Calls BY <1>0, TimeFacts
  <2>2. \/ call' = call
        \/ \E x : call' = [q \in Proc |->
                     [call[q] EXCEPT !.woken = @ \/ (call[q].op = "msleep" /\ call[q].x = x)]]
    BY Zenon DEF __run_timers
  <2>3. CASE call' = call BY <2>1, <2>3
  <2>4. ASSUME NEW x, call' = [q \in Proc |->
                     [call[q] EXCEPT !.woken = @ \/ (call[q].op = "msleep" /\ call[q].x = x)]]
        PROVE  CallInTime(scenario, call'[p], jiffies)
    <3>1. /\ call'[p].op = call[p].op /\ call'[p].pc = call[p].pc
          /\ call'[p].to = call[p].to /\ call'[p].expires = call[p].expires
      BY <2>1, <2>4 DEF Calls
    <3> QED BY <2>1, <3>1 DEF CallInTime, Sets
  <2> QED BY <2>2, <2>3, <2>4
<1> QED BY <1>8, <1>9 DEF TimeInv

\* The clock of the base is due; if it is far behind, no bucket before
\* next_expiry has a timer.
LEMMA run_timer_softirqTime ==
  ASSUME LinuxInv, TimeInv, NEW c \in Cpu, run_timer_softirq(c) PROVE TimeInv'
<1>1. PICK b, base : b = W.base[c] /\ base = [b EXCEPT !.must_forward_clk = FALSE] OBVIOUS
<1>2. /\ soft[c] = "idle" /\ c \in online /\ asleep[c] < 0 /\ jiffies >= b.clk
      /\ __run_timers(c, base) /\ UNCHANGED <<scenario, jiffies, asleep, online>>
  BY <1>1 DEF run_timer_softirq
<1>3. /\ b \in timer_base /\ b.clk \in Nat /\ b.next_expiry \in Nat /\ Fits(W, c, b)
      /\ Timely(scenario, b, W.timer, jiffies) /\ Sleeps(b, c \in W.kick, asleep[c]) /\ Settled(b, soft[c])
  BY <1>1, <1>2, CpuTime, TimeFacts
<1>4. /\ base \in timer_base /\ base.vectors = b.vectors /\ base.heads = b.heads
      /\ base.pending_map = b.pending_map /\ base.running = b.running
      /\ base.clk = b.clk /\ base.is_idle = b.is_idle /\ ~base.must_forward_clk
  BY <1>1, <1>3 DEF timer_base
<1>5. W \in Wheels /\ jiffies \in Nat /\ asleep \in [Cpu -> Int] BY TimeFacts
<1>6. Fits(W, c, base) BY <1>3, <1>4, <1>5, OtherFieldsFit
<1>7. OnTime(base, W.timer) BY <1>3, <1>4 DEF Timely, OnTime
<1>8. ~base.is_idle
  <2>1. ~(asleep[c] >= 0) BY <1>2, <1>5
  <2> QED BY <1>3, <1>4, <2>1 DEF Sleeps
<1>9. CatchesUp(scenario, base, jiffies)
  <2>1. Close(scenario, b, jiffies) BY <1>3 DEF Timely
  <2>2. CASE Near(scenario, b, jiffies)
    <3>1. Near(scenario, base, jiffies) BY <1>4, <2>2 DEF Near
    <3> QED BY <3>1 DEF CatchesUp
  <2>3. CASE ~Near(scenario, b, jiffies)
    <3>1. scenario.hotplug = {} BY <2>3 DEF Near
    <3>2. b.must_forward_clk /\ jiffies - b.next_expiry <= scenario.lag BY <2>1, <2>3 DEF Close
    <3>3. Forwardable(scenario, b) BY <1>3 DEF Timely
    <3>4. /\ b.next_expiry <= b.clk + NEXT_TIMER_MAX_DELTA
          /\ \A i \in b.pending_map : b.next_expiry <= EmptiedAt(b.clk, i)
      <4>1. b.pending_map \subseteq Buckets BY <1>3 DEF timer_base
      <4>2. b.pending_map \subseteq Ahead(scenario, b) BY <3>1, <4>1 DEF Ahead
      <4> QED BY <3>2, <3>3, <4>2 DEF Forwardable
    <3>5. Behind(base, b.next_expiry) BY <1>4, <3>4 DEF Behind
    <3>6. base.heads = NoHeads /\ base.clk <= jiffies BY <1>2, <1>3, <1>4, <1>5 DEF Settled
    <3> QED BY <1>3, <3>2, <3>5, <3>6 DEF CatchesUp
  <2> QED BY <2>2, <2>3
<1>10. base.clk <= jiffies + 1 BY <1>3, <1>4 DEF Timely
<1> QED BY <1>2, <1>4, <1>6, <1>7, <1>8, <1>9, <1>10, __run_timersTime

LEMMA RelockTime == ASSUME LinuxInv, TimeInv, NEW c \in Cpu, Relock(c) PROVE TimeInv'
<1>1. PICK b : b = W.base[c] OBVIOUS
<1>2. /\ soft[c] = "relock" /\ __run_timers(c, b) /\ UNCHANGED <<scenario, jiffies, asleep, online>>
  BY <1>1 DEF Relock
<1>3. c \in online /\ c \in scenario.cpus BY <1>2, TimeFacts DEF LinuxInv, HandlersAtHome
<1>4. /\ b \in timer_base /\ b.clk \in Nat /\ Fits(W, c, b)
      /\ Timely(scenario, b, W.timer, jiffies) /\ Sleeps(b, c \in W.kick, asleep[c]) /\ Settled(b, soft[c])
  BY <1>1, <1>3, CpuTime
<1>5. ~b.must_forward_clk BY <1>2, <1>4 DEF Settled
<1>6. ~b.is_idle BY <1>4, <1>5 DEF Timely
<1>7. asleep[c] < 0
  <2>1. asleep[c] \in Int BY TimeFacts
  <2>2. ~(asleep[c] >= 0) BY <1>4, <1>6 DEF Sleeps
  <2> QED BY <2>1, <2>2
<1>8. CatchesUp(scenario, b, jiffies) BY <1>4, <1>5 DEF Timely, Close, CatchesUp
<1>9. OnTime(b, W.timer) /\ b.clk <= jiffies + 1 BY <1>4 DEF Timely
<1> QED BY <1>2, <1>4, <1>5, <1>6, <1>7, <1>8, <1>9, __run_timersTime

\* A turn of migrate_timer_list, to a base whose clock has been forwarded.
Receives(s, V, new, j, wakes, where) ==
  /\ V \in Wheels /\ Placed(V, NoTimer) /\ InTime(s, V, j, wakes, where)
  /\ Forward(s, V.base[new], j) /\ ~V.base[new].is_idle

LEMMA MigrateTurnTime ==
  ASSUME NEW s, s.lag \in Nat \ {0}, NEW j \in Nat, NEW wakes, NEW where, NEW old \in Cpu, NEW new \in Cpu,
         new \in s.cpus, NEW V, Receives(s, V, new, j, wakes, where)
  PROVE  Receives(s, migrate_timer_list(old, new)[V], new, j, wakes, where)
<1>0. /\ V \in Wheels /\ Placed(V, NoTimer) /\ InTime(s, V, j, wakes, where)
      /\ Forward(s, V.base[new], j) /\ ~V.base[new].is_idle
  BY DEF Receives
<1> DEFINE full == {i \in Buckets : V.base[old].vectors[i] # <<>>}
<1>1. CASE full = {}
  <2>1. migrate_timer_list(old, new)[V] = V BY <1>0, <1>1, Zenon DEF migrate_timer_list
  <2> QED BY <2>1
<1>2. CASE full # {}
  <2>1. PICK i \in full : i = Min(full)
    <3>1. full \subseteq Nat BY Sizes DEF Buckets, WHEEL_SIZE
    <3> HIDE DEF full
    <3> QED BY <1>2, <3>1, MinIsMember
  <2>2. PICK x : x = Head(V.base[old].vectors[i]) OBVIOUS
  <2>3. PICK D : D = Unlinked(V, old, x) OBVIOUS
  <2>4. PICK E : E = GivenTo(D, x, new) OBVIOUS
  <2>5. PICK N : N = internal_add_timer(E, new, x) OBVIOUS
  <2>6. migrate_timer_list(old, new)[V] = N
    BY <1>0, <1>2, <2>1, <2>2, <2>3, <2>4, <2>5, Zenon DEF migrate_timer_list, Unlinked, GivenTo
  <2>7. i \in Buckets /\ V.base[old].vectors[i] \in Seq(Timer) /\ V.base[old].vectors[i] # <<>>
    BY <1>0, <2>1, WheelFields
  <2>8. x \in Timer /\ x \in ToSet(V.base[old].vectors[i]) BY <2>2, <2>7, HeadIsListed
  <2>9. V.timer[x].pending /\ ~V.timer[x].migrating /\ V.timer[x].cpu = old
    BY <1>0, <2>7, <2>8 DEF Placed, InVectors
  <2>10. /\ D \in Wheels /\ Placed(D, x) /\ D.timer[x].migrating = V.timer[x].migrating
    BY <1>0, <2>3, <2>8, <2>9, UnlinkedFacts
  <2>11. Thinned(D, V)
    <3>1. PICK clear \in BOOLEAN : D = detach_timer(V, old, x, clear) BY <2>3, Zenon DEF Unlinked
    <3>2. Once(V) BY <1>0 DEF Placed
    <3> QED BY <1>0, <2>8, <3>1, <3>2, DetachThins
  <2>12. InTime(s, D, j, wakes, where) BY <1>0, <2>10, <2>11, ThinnedInTime
  <2>13. /\ E \in Wheels /\ Placed(E, x) /\ E.timer[x].cpu = new /\ E.timer[x].migrating = D.timer[x].migrating
         /\ \A y \in Timer \ {x} : E.timer[y] = D.timer[y]
    BY <2>4, <2>8, <2>10, GivenToFacts
  <2>14. E.base = D.base /\ E.kick = D.kick /\ E.timer[x].expires = D.timer[x].expires
    BY <2>4, <2>8, <2>10 DEF GivenTo, Wheels, timer_list
  <2>15. Reached(s, E.timer[x].expires, j) /\ E.timer[x].cpu \in s.cpus
    BY <2>8, <2>12, <2>13, <2>14 DEF InTime
  <2>16. InTime(s, E, j, wakes, where) BY <2>8, <2>10, <2>12, <2>13, <2>14, <2>15, FreeTimerInTime
  <2>17. Forward(s, E.base[new], j) /\ ~E.base[new].is_idle
    BY <1>0, <2>11, <2>14 DEF Thinned, SameClock, Forward, Near
  <2>18. InTime(s, N, j, wakes, where) /\ Forward(s, N.base[new], j) /\ ~N.base[new].is_idle
    BY <2>5, <2>8, <2>13, <2>16, <2>17, AddWheelInTime
  <2>19. N \in Wheels /\ Placed(N, NoTimer)
    <3>1. ~E.timer[x].migrating BY <2>9, <2>10, <2>13
    <3>2. QueuedOn(N, E, new, x) BY <2>5, <2>8, <2>13, <3>1, AddFacts
    <3> QED BY <3>2 DEF QueuedOn
  <2> QED BY <2>6, <2>18, <2>19 DEF Receives
<1> QED BY <1>1, <1>2

LEMMA timers_deadTime ==
  ASSUME LinuxInv, TimeInv, NEW c \in Cpu, NEW new \in online, timers_dead(c, new) PROVE TimeInv'
<1>1. /\ new \in Cpu /\ new \in scenario.cpus /\ asleep[new] < 0 /\ W' = timers_dead_cpu(W, c, new, jiffies)
      /\ UNCHANGED <<scenario, jiffies, soft, call, asleep, online>>
  BY TimeFacts DEF timers_dead
<1>2. /\ W \in Wheels /\ Placed(W, NoTimer) /\ InTime(scenario, W, jiffies, asleep, soft) /\ jiffies \in Nat
      /\ scenario.lag \in Nat \ {0} /\ asleep \in [Cpu -> Int]
      /\ \A d \in Cpu : d \notin online => asleep[d] < 0
  BY TimeFacts
<1> DEFINE P == {V \in Wheels : Receives(scenario, V, new, jiffies, asleep, soft)}
<1>3. PICK F : F = forward_timer_base(W, new, jiffies) OBVIOUS
<1>4. F \in P
  <2>1. /\ F \in Wheels /\ Placed(F, NoTimer) /\ InTime(scenario, F, jiffies, asleep, soft)
        /\ Forward(scenario, F.base[new], jiffies)
    BY <1>1, <1>3, ForwardedTime
  <2>2. ~W.base[new].is_idle
    <3>1. Sleeps(W.base[new], new \in W.kick, asleep[new]) BY <1>1, <1>2 DEF InTime
    <3>2. ~(asleep[new] >= 0) BY <1>1, <1>2
    <3> QED BY <3>1, <3>2 DEF Sleeps
  <2>3. F.base[new].is_idle = W.base[new].is_idle BY <1>1, <1>2, <1>3, WheelForwardInTime
  <2> QED BY <2>1, <2>2, <2>3 DEF Receives
<1>5. \A V \in P : migrate_timer_list(c, new)[V] \in P
  <2> SUFFICES ASSUME NEW V \in P PROVE migrate_timer_list(c, new)[V] \in P OBVIOUS
  <2>1. Receives(scenario, migrate_timer_list(c, new)[V], new, jiffies, asleep, soft)
    BY <1>1, <1>2, MigrateTurnTime
  <2> QED BY <2>1 DEF Receives
<1>6. Cardinality(Timer) \in Nat BY LinuxWheelAssumption, FS_CardinalityType
<1>7. Iterate(migrate_timer_list(c, new), F, Cardinality(Timer)) \in P
  <2> HIDE DEF P
  <2> QED BY <1>4, <1>5, <1>6, Iterates
<1>8. PICK U : U = timers_dead_cpu(W, c, new, jiffies) OBVIOUS
<1>9. InTime(scenario, U, jiffies, asleep, soft) BY <1>3, <1>7, <1>8 DEF timers_dead_cpu, Receives
<1>10. InTime(scenario, W', jiffies, asleep', soft') BY <1>1, <1>8, <1>9
<1>11. scenario.hotplug = {} => online' = scenario.cpus BY <1>1 DEF TimeInv
<1> QED BY <1>1, <1>2, <1>10, <1>11, CpuTimeStep

(***************************************************************************)
(* The theorems about time.                                                 *)
(***************************************************************************)
LEMMA NextKeepsTime == ASSUME Punctual, LinuxInv, TimeInv, [Next]_vars PROVE TimeInv'
<1>0. scenario.cpus \subseteq Cpu /\ scenario.tasks \subseteq Task BY ScenarioFacts
<1>1. CASE Tick BY <1>1, TickTime
<1>2. ASSUME NEW c \in scenario.cpus, Softirq(c) PROVE TimeInv'
  BY <1>0, <1>2, run_timer_softirqTime, HandlerReturnsTime, RelockTime DEF Softirq
<1>3. ASSUME NEW c \in scenario.cpus,
             Rearm(c) \/ GoIdle(c) \/ timer_clear_idle(c) \/ CpuOffline(c) \/ timers_prepare(c)
      PROVE  TimeInv'
  BY <1>0, <1>3, RearmTime, GoIdleTime, timer_clear_idleTime, CpuOfflineTime, timers_prepareTime
<1>4. ASSUME NEW c \in scenario.cpus, NEW new \in online, timers_dead(c, new) PROVE TimeInv'
  BY <1>0, <1>4, timers_deadTime
<1>5. ASSUME NEW p \in scenario.tasks, Begin(p) PROVE TimeInv'
  BY <1>0, <1>5, CallOfTime DEF Begin
<1>6. ASSUME NEW p \in scenario.tasks \cup scenario.cpus, Continue(p) PROVE TimeInv'
  <2>1. p \in Proc BY <1>0 DEF Proc
  <2> QED BY <1>6, <2>1, ContinueTime
<1>7. CASE UNCHANGED vars BY <1>7 DEF vars, TimeInv
<1> QED BY <1>1, <1>2, <1>3, <1>4, <1>5, <1>6, <1>7 DEF Next

\* The inductive invariant of the clocks: a base that is not idle is at most
\* the scenario's lag behind jiffies, an idle one may be forwarded to
\* next_expiry and no bucket with timers is due before, and what a call carries
\* on its way is set for later.  The scenarios are Punctual: timers are set for
\* a later tick and, with hotplug, below the cutoff of calc_wheel_index.
THEOREM LinuxTimeInvariant == Punctual => (Spec => []TimeInv)
<1>1. Init => TimeInv BY InitInTime
<1>2. Punctual /\ LinuxInv /\ TimeInv /\ [Next]_vars => TimeInv' BY NextKeepsTime
<1> SUFFICES ASSUME Punctual PROVE Spec => []TimeInv
  OBVIOUS
<1>3. LinuxInv /\ TimeInv /\ [Next]_vars => TimeInv' BY <1>2
<1> QED BY <1>1, <1>3, LinuxInvariant, PTL DEF Spec

LEMMA BucketTimes == \A c, i : BucketTime(c, i) = EmptiedAt(W.base[c].clk, i)
BY DEF BucketTime, EmptiedAt

\* A queued timer's bucket is emptied at or after its expiry, and before a
\* whole tick of its level has passed since, or at once, whatever the clock of
\* its base skipped and wherever it was moved, in scenarios that are Punctual:
\* calc_wheel_index and forward_timer_base agree, also across idle periods and
\* hotplug.
THEOREM LinuxBucketsOnTime == Punctual => (Spec => []BucketsOnTime)
<1>1. ASSUME LinuxInv, TimeInv PROVE BucketsOnTime
  <2> SUFFICES ASSUME NEW c \in Cpu, NEW i \in Buckets, NEW x \in ToSet(W.base[c].vectors[i])
               PROVE  /\ BucketTime(c, i) >= W.timer[x].expires
                      /\ \/ BucketTime(c, i) <= W.timer[x].expires + LVL_GRAN(i \div LVL_SIZE)
                         \/ BucketTime(c, i) = W.base[c].clk
    BY DEF BucketsOnTime
  <2>1. W \in Wheels /\ Placed(W, NoTimer) /\ NoTimer \notin Timer
    BY <1>1, LinuxWheelAssumption DEF LinuxInv, Typed
  <2>2. x \in Timer BY <2>1, WheelFields, ListsAreOfTimers
  <2>3. W.timer[x].cpu = c BY <2>1, <2>2 DEF Placed, InVectors
  <2>4. c \in scenario.cpus BY <1>1, <2>2, <2>3 DEF TimeInv, InTime
  <2>5. OnTime(W.base[c], W.timer) BY <1>1, <2>4 DEF TimeInv, InTime, Timely
  <2> QED BY <2>5, BucketTimes DEF OnTime
<1> SUFFICES ASSUME Punctual PROVE Spec => []BucketsOnTime
  OBVIOUS
<1>2. Spec => []TimeInv BY LinuxTimeInvariant
<1> QED BY <1>1, <1>2, LinuxInvariant, PTL

\* A CPU whose tick is stopped, and that nobody has kicked, wakes no later than
\* the first of its buckets is due, also when other CPUs queued timers on its
\* base since: trigger_dyntick_cpu brings next_expiry forward and kicks it.  The
\* scenarios are Punctual.
THEOREM LinuxIdleCpuWakes == Punctual => (Spec => []IdleCpuWakesInTime)
<1>1. ASSUME LinuxInv, TimeInv PROVE IdleCpuWakesInTime
  <2> SUFFICES ASSUME NEW c \in Cpu, asleep[c] >= 0, c \notin W.kick,
                      NEW i \in Buckets, W.base[c].vectors[i] # <<>>
               PROVE  asleep[c] <= BucketTime(c, i)
    BY DEF IdleCpuWakesInTime
  <2>1. W \in Wheels /\ asleep \in [Cpu -> Int] /\ online \subseteq scenario.cpus
    BY <1>1, TimeFacts
  <2>2. PICK b : b = W.base[c] OBVIOUS
  <2>3. b \in timer_base /\ b.clk \in Nat /\ b.next_expiry \in Nat
    BY <2>1, <2>2, WheelFields DEF timer_base
  <2>4. asleep[c] \in Int /\ c \in online
    <3>1. asleep[c] \in Int BY <2>1
    <3>2. c \notin online => asleep[c] < 0 BY <1>1 DEF TimeInv
    <3> QED BY <3>1, <3>2
  <2>5. Timely(scenario, b, W.timer, jiffies) /\ Sleeps(b, c \in W.kick, asleep[c])
    BY <1>1, <2>1, <2>2, <2>4 DEF TimeInv, InTime
  <2>6. b.must_forward_clk /\ asleep[c] <= b.next_expiry BY <2>5 DEF Timely, Sleeps
  <2>7. i \in Ahead(scenario, b)
    <3>1. \E x : x \in ToSet(b.vectors[i]) BY <2>1, <2>2, WheelFields, HeadIsListed
    <3> QED BY <3>1 DEF Ahead
  <2>8. b.next_expiry <= EmptiedAt(b.clk, i) BY <2>5, <2>6, <2>7 DEF Timely, Forwardable
  <2>9. EmptiedAt(b.clk, i) \in Nat BY <2>3, EmptiedAtStays
  <2> QED BY <2>2, <2>3, <2>4, <2>6, <2>8, <2>9, BucketTimes
<1> SUFFICES ASSUME Punctual PROVE Spec => []IdleCpuWakesInTime
  OBVIOUS
<1>2. Spec => []TimeInv BY LinuxTimeInvariant
<1> QED BY <1>1, <1>2, LinuxInvariant, PTL
===============================================================================
