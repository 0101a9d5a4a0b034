------------------------------ MODULE LinuxWheel -----------------------------
(***************************************************************************)
(* article/src/c/wheel/kernel_impls/linux_kern_timer.c: the timer wheel of   *)
(* one CPU and what is done to it under its lock.  W holds                   *)
(*   base[c]   the struct timer_base of CPU c; heads are the lists, one per  *)
(*             level, that __run_timers has collected and not yet run        *)
(*   timer[x]  expires, and from flags the CPU, the bucket and MIGRATING;    *)
(*             pending is entry.pprev # NULL                                 *)
(*   kick      the CPUs that wake_up_nohz_cpu has to wake.                   *)
(* Configured with NO_HZ_COMMON and SMP, without PREEMPT_RT; deferrable      *)
(* timers (BASE_DEF) are left out.  jiffies does not wrap.                   *)
(***************************************************************************)
EXTENDS Iteration, Integers, Sequences, FiniteSets, SequencesExt, FiniteSetsExt

CONSTANTS
  Cpu, Timer,
  LVL_CLK_SHIFT, LVL_BITS, LVL_DEPTH,
  NEXT_TIMER_MAX_DELTA,
  NoTimer   \* a NULL running_timer

ASSUME LinuxWheelAssumption ==
  /\ LVL_CLK_SHIFT \in Nat \ {0} /\ LVL_BITS \in Nat \ {0} /\ LVL_DEPTH \in Nat \ {0, 1}
  /\ LVL_CLK_SHIFT < LVL_BITS
  /\ NEXT_TIMER_MAX_DELTA \in Nat
  /\ IsFiniteSet(Timer) /\ NoTimer \notin Timer

LVL_GRAN(n) == 2 ^ (n * LVL_CLK_SHIFT)
LVL_SIZE == 2 ^ LVL_BITS
LVL_START(n) == (LVL_SIZE - 1) * 2 ^ ((n - 1) * LVL_CLK_SHIFT)
LVL_OFFS(n) == n * LVL_SIZE
WHEEL_TIMEOUT_CUTOFF == LVL_START(LVL_DEPTH)
WHEEL_TIMEOUT_MAX == WHEEL_TIMEOUT_CUTOFF - LVL_GRAN(LVL_DEPTH - 1)
WHEEL_SIZE == LVL_SIZE * LVL_DEPTH
Lvls == 0 .. LVL_DEPTH - 1
Buckets == 0 .. WHEEL_SIZE - 1

NoHeads == [l \in Lvls |-> <<>>]

timer_base ==
  [clk : Nat, next_expiry : Nat, is_idle : BOOLEAN, must_forward_clk : BOOLEAN,
   pending_map : SUBSET Buckets, vectors : [Buckets -> Seq(Timer)],
   heads : [Lvls -> Seq(Timer)], running : Timer \cup {NoTimer}]

timer_list ==
  [expires : Nat, cpu : Cpu, idx : Buckets, migrating : BOOLEAN, pending : BOOLEAN]

Wheels == [base : [Cpu -> timer_base], timer : [Timer -> timer_list], kick : SUBSET Cpu]

init_timer_cpu(jiffies) ==
  [clk |-> jiffies, next_expiry |-> 0, is_idle |-> FALSE, must_forward_clk |-> FALSE,
   pending_map |-> {}, vectors |-> [i \in Buckets |-> <<>>], heads |-> NoHeads,
   running |-> NoTimer]

do_init_timer(cpu) ==
  [expires |-> 0, cpu |-> cpu, idx |-> 0, migrating |-> FALSE, pending |-> FALSE]

\* Rounded up, so that a bucket is not reached before the expiry.
calc_index(expires, lvl) ==
  LVL_OFFS(lvl) + (((expires + LVL_GRAN(lvl)) \div LVL_GRAN(lvl)) % LVL_SIZE)

\* The lowest level that reaches as far as expires, from clk.
calc_wheel_index(expires, clk) ==
  LET delta == expires - clk
      reach == {n \in 1 .. LVL_DEPTH - 1 : delta < LVL_START(n)}
  IN  IF delta < 0 THEN clk % LVL_SIZE
      ELSE IF reach # {} THEN calc_index(expires, Min(reach) - 1)
      ELSE calc_index(IF expires >= WHEEL_TIMEOUT_CUTOFF THEN WHEEL_TIMEOUT_MAX ELSE expires,
                      LVL_DEPTH - 1)

enqueue_timer(W, c, x, idx) ==
  [W EXCEPT !.base[c].vectors[idx] = <<x>> \o @,
            !.base[c].pending_map = @ \cup {idx},
            !.timer[x].idx = idx, !.timer[x].pending = TRUE]

trigger_dyntick_cpu_mutant(W, c, x) ==
  IF W.base[c].is_idle /\ W.timer[x].expires < W.base[c].next_expiry
  THEN [W EXCEPT !.base[c].next_expiry = W.timer[x].expires]
  ELSE W

\* An idle CPU is woken for a timer that is now its first.
trigger_dyntick_cpu(W, c, x) ==
  IF W.base[c].is_idle /\ W.timer[x].expires < W.base[c].next_expiry
  THEN [W EXCEPT !.base[c].next_expiry = W.timer[x].expires, !.kick = @ \cup {c}]
  ELSE W

internal_add_timer(W, c, x) ==
  trigger_dyntick_cpu(
    enqueue_timer(W, c, x, calc_wheel_index(W.timer[x].expires, W.base[c].clk)), c, x)

\* From whichever list the timer is on.
detach_timer(W, c, x, clear_pending) ==
  [W EXCEPT !.base[c].vectors[W.timer[x].idx] = RemoveFirst(@, x),
            !.base[c].heads = [l \in Lvls |-> RemoveFirst(@[l], x)],
            !.timer[x].pending = @ /\ ~clear_pending]

\* The bit of a bucket goes with its last timer; a timer that was collected is
\* on another list, and its bucket may have a new timer.
detach_if_pending(W, c, x, clear_pending) ==
  LET idx == W.timer[x].idx
  IN  IF ~W.timer[x].pending THEN W
      ELSE detach_timer([W EXCEPT !.base[c].pending_map =
                                     IF W.base[c].vectors[idx] = <<x>> THEN @ \ {idx} ELSE @],
                        c, x, clear_pending)

ForwardTo_mutant(next_expiry, jnow) == jnow

ForwardTo(next_expiry, jnow) == IF next_expiry > jnow THEN jnow ELSE next_expiry

forward_timer_base(W, c, jnow) ==
  LET b == W.base[c]
  IN  IF ~b.must_forward_clk THEN W
      ELSE [W EXCEPT !.base[c].must_forward_clk = b.is_idle,
                     !.base[c].clk = IF jnow - @ < 2 THEN @ ELSE ForwardTo(b.next_expiry, jnow)]

\* The bucket of a level that the clock is at.
BucketAt(clk, lvl) == LVL_OFFS(lvl) + ((clk \div LVL_GRAN(lvl)) % LVL_SIZE)

\* The levels whose clock ticks now and whose turn it is to empty a bucket.
DueLvls(b) == {l \in Lvls : b.clk % LVL_GRAN(l) = 0 /\ BucketAt(b.clk, l) \in b.pending_map}

\* One bucket of each due level is emptied into heads.
__collect_expired_timers(b) ==
  LET due == {BucketAt(b.clk, l) : l \in DueLvls(b)}
  IN  [b EXCEPT !.pending_map = @ \ due,
                !.vectors = [i \in Buckets |-> IF i \in due THEN <<>> ELSE @[i]],
                !.heads = [l \in Lvls |-> IF l \in DueLvls(b) THEN b.vectors[BucketAt(b.clk, l)]
                                                               ELSE <<>>]]

\* Distances from position clk of a level to its pending buckets, going round.
PendingAhead(b, lvl, clk) ==
  {(i - LVL_OFFS(lvl) + LVL_SIZE - clk) % LVL_SIZE :
     i \in {j \in b.pending_map : j \div LVL_SIZE = lvl}}

\* The next tick of a level's clock: shifted down, plus one if bits are lost.
LevelClk(clk, lvl) == (clk + LVL_GRAN(lvl) - 1) \div LVL_GRAN(lvl)

__next_timer_interrupt(b) ==
  Min({b.clk + NEXT_TIMER_MAX_DELTA} \cup
      UNION {{(LevelClk(b.clk, l) + pos) * LVL_GRAN(l) :
                pos \in PendingAhead(b, l, LevelClk(b.clk, l) % LVL_SIZE)} : l \in Lvls})

\* After a long sleep the clock jumps to the next pending bucket or to now.
collect_expired_timers(b, now) ==
  LET next == __next_timer_interrupt(b)
  IN  IF now - b.clk <= 2 THEN __collect_expired_timers(b)
      ELSE IF next > now THEN [b EXCEPT !.clk = now]
      ELSE __collect_expired_timers([b EXCEPT !.clk = next])

\* What a CPU that goes idle does to its base: the clock is forwarded, never
\* back, and the base is idle if the tick can stop for more than a jiffy.
get_next_timer_interrupt(b, basej) ==
  LET nextevt == __next_timer_interrupt(b)
      clk == IF basej <= b.clk THEN b.clk
             ELSE IF nextevt > basej THEN basej ELSE Max({nextevt, b.clk})
      stop == nextevt > basej + 1
  IN  [b EXCEPT !.next_expiry = nextevt, !.clk = clk,
                !.is_idle = IF nextevt <= basej THEN FALSE ELSE @ \/ stop,
                !.must_forward_clk = @ \/ stop]

timers_prepare_cpu(b, jiffies) ==
  [b EXCEPT !.clk = jiffies, !.next_expiry = jiffies + NEXT_TIMER_MAX_DELTA,
            !.is_idle = FALSE, !.must_forward_clk = TRUE]

\* One turn of migrate_timer_list on the first bucket that is not empty.
migrate_timer_list(old, new) ==
  [W \in Wheels |->
     LET full == {i \in Buckets : W.base[old].vectors[i] # <<>>}
         x == Head(W.base[old].vectors[Min(full)])
     IN  IF full = {} THEN W
         ELSE internal_add_timer([detach_timer(W, old, x, FALSE) EXCEPT !.timer[x].cpu = new],
                                 new, x)]

\* Bucket by bucket, each from its head; the old base keeps its bits.
timers_dead_cpu(W, old, new, jiffies) ==
  Iterate(migrate_timer_list(old, new), forward_timer_base(W, new, jiffies), Cardinality(Timer))
===============================================================================
