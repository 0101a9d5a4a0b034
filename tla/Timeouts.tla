------------------------------- MODULE Timeouts ------------------------------
(***************************************************************************)
(* article/src/c/wheel/timeout.c: a tickless hierarchical timing wheel.      *)
(* T is a struct timeouts together with the struct timeouts to[x] its client *)
(* owns.  wheel[w][s] and expired are the lists, pending[w] is the bit field *)
(* of the populated slots of a wheel, as a set.  to[x].pending is the list   *)
(* the timeout is on.  timeout_t has 2^WordLog bits.                         *)
(***************************************************************************)
EXTENDS Integers, Sequences, FiniteSets, SequencesExt, FiniteSetsExt, BitOps

CONSTANTS
  Timeout,    \* the struct timeouts of the client
  WHEEL_BIT, WHEEL_NUM,
  WordLog,    \* a word has 2^WordLog bits
  NoTimeout   \* a NULL struct timeout *

ASSUME TimeoutsAssumption ==
  /\ WHEEL_BIT \in Nat \ {0} /\ WHEEL_NUM \in Nat \ {0} /\ WordLog \in Nat
  /\ WHEEL_BIT * WHEEL_NUM <= 2 ^ WordLog /\ 2 ^ WHEEL_BIT <= 2 ^ WordLog
  /\ NoTimeout \notin Timeout

WHEEL_LEN == 2 ^ WHEEL_BIT
WHEEL_MAX == WHEEL_LEN - 1
TIMEOUT_MAX == 2 ^ (WHEEL_BIT * WHEEL_NUM) - 1
WordMax == 2 ^ (2 ^ WordLog) - 1
Wheels == 0 .. WHEEL_NUM - 1
Slots == 0 .. WHEEL_MAX

\* n >> (wheel * WHEEL_BIT), and its low bits
Shifted(n, wheel) == n \div 2 ^ (wheel * WHEEL_BIT)
SlotOf(n, wheel) == Shifted(n, wheel) % WHEEL_LEN

\* Bit fields.
Word(v) == FoldSet(LAMBDA b, n : 2 ^ b + n, 0, v)
rotl(v, c) == {(b + c) % WHEEL_LEN : b \in v}
rotr(v, c) == {(b + WHEEL_LEN - c) % WHEEL_LEN : b \in v}
fls(n) == 2 ^ WordLog - clz(WordLog, n)

\* to->pending: NULL, the expired queue, or a slot <<wheel, slot>>.
NULL == <<>>
Expired == <<WHEEL_NUM, 0>>

TIMEOUT_mHZ == 1000

timeout_init(flags) ==
  [flags |-> flags, expires |-> 0, pending |-> NULL, interval |-> 0, timeouts |-> FALSE]

\* A frequency of 0 stands for the default.
timeouts_init(to, hz) ==
  [wheel |-> [w \in Wheels |-> [s \in Slots |-> <<>>]], expired |-> <<>>,
   pending |-> [w \in Wheels |-> {}], curtime |-> 0,
   hertz |-> IF hz = 0 THEN TIMEOUT_mHZ ELSE hz, to |-> to]

Listed(T, list) == IF list = Expired THEN T.expired ELSE T.wheel[list[1]][list[2]]

Removed(list, x) == SelectSeq(list, LAMBDA y : y # x)

Freed(to) == [to EXCEPT !.pending = NULL, !.timeouts = FALSE]

\* Every list is emptied into one and its timeouts forget the wheel.
timeouts_reset(T) ==
  [x \in Timeout |-> IF T.to[x].pending = NULL THEN T.to[x] ELSE Freed(T.to[x])]

timeouts_del_mutant(T, x) ==
  LET list == T.to[x].pending
  IN  IF list = NULL THEN T
      ELSE IF list = Expired
      THEN [T EXCEPT !.expired = Removed(@, x), !.to[x] = Freed(@)]
      ELSE [T EXCEPT !.wheel[list[1]][list[2]] = Removed(@, x),
                     !.pending[list[1]] = @ \ {list[2]},
                     !.to[x] = Freed(@)]

\* A slot that becomes empty loses its bit; the expired queue has none.
timeouts_del(T, x) ==
  LET list == T.to[x].pending
  IN  IF list = NULL THEN T
      ELSE IF list = Expired
      THEN [T EXCEPT !.expired = Removed(@, x), !.to[x] = Freed(@)]
      ELSE [T EXCEPT !.wheel[list[1]][list[2]] = Removed(@, x),
                     !.pending[list[1]] =
                       IF Removed(Listed(T, list), x) = <<>> THEN @ \ {list[2]} ELSE @,
                     !.to[x] = Freed(@)]

timeout_rem(T, x) == T.to[x].expires - T.curtime

\* The wheel of the highest bit of the time that remains.
timeout_wheel(timeout) == (fls(Min({timeout, TIMEOUT_MAX})) - 1) \div WHEEL_BIT

\* A slot of a higher wheel is due when the one after it begins.
timeout_slot(wheel, expires) ==
  (Shifted(expires, wheel) + WHEEL_LEN - (IF wheel = 0 THEN 0 ELSE 1)) % WHEEL_LEN

timeouts_sched(T, x, expires) ==
  LET D == [timeouts_del(T, x) EXCEPT !.to[x].expires = expires, !.to[x].timeouts = TRUE]
      wheel == timeout_wheel(timeout_rem(D, x))
      slot == timeout_slot(wheel, expires)
  IN  IF expires > T.curtime
      THEN [D EXCEPT !.to[x].pending = <<wheel, slot>>,
                     !.wheel[wheel][slot] = Append(@, x),
                     !.pending[wheel] = @ \cup {slot}]
      ELSE [D EXCEPT !.to[x].pending = Expired, !.expired = Append(@, x)]

NextFiring_mutant(expires, interval, curtime) ==
  IF expires > curtime THEN expires ELSE curtime + interval

\* The next multiple of the interval after the last firing that is to come.
NextFiring(expires, interval, curtime) ==
  IF expires > curtime THEN expires
  ELSE curtime + (interval - ((curtime - expires) % interval))

timeouts_readd(T, x) ==
  timeouts_sched(T, x, NextFiring(T.to[x].expires + T.to[x].interval, T.to[x].interval, T.curtime))

timeouts_add(T, x, timeout) ==
  LET I == IF "INT" \in T.to[x].flags THEN [T EXCEPT !.to[x].interval = Max({1, timeout})] ELSE T
  IN  timeouts_sched(I, x, IF "ABS" \in T.to[x].flags THEN timeout ELSE T.curtime + timeout)

\* Seconds, a fraction f.num / f.den, as ticks: rather late than early.
timeouts_f2i(T, f) == (f.num * T.hertz + f.den - 1) \div f.den

timeouts_addf(T, x, f) == timeouts_add(T, x, timeouts_f2i(T, f))

\* The slots of a wheel that a move of the clock from old to new passes.
SlotsPassed(old, new, elapsed, wheel) ==
  LET ticks == Shifted(elapsed, wheel)
      fill == 0 .. ticks - 1
  IN  IF ticks > WHEEL_MAX THEN Slots
      ELSE rotl(fill, SlotOf(old, wheel))
             \cup rotr(rotl(fill, SlotOf(new, wheel)), ticks) \cup {SlotOf(new, wheel)}

ForcedTick_mutant(elapsed, wheel) == elapsed

\* A wheel that rolled over ticks the next one at least once.
ForcedTick(elapsed, wheel) == Max({elapsed, WHEEL_LEN * 2 ^ (wheel * WHEEL_BIT)})

\* One pass of timeouts_update's loop: the populated slots among those passed
\* are emptied, lowest first, and the loop ends unless slot 0 was passed.
TickWheel(u, wheel) ==
  LET passed == SlotsPassed(u.T.curtime, u.curtime, u.elapsed, wheel)
      due == passed \cap u.T.pending[wheel]
  IN  IF ~u.more THEN u
      ELSE [u EXCEPT
              !.T.wheel[wheel] = [s \in Slots |-> IF s \in due THEN <<>> ELSE @[s]],
              !.T.pending[wheel] = @ \ due,
              !.todo = @ \o FlattenSeq([i \in 1 .. Cardinality(due) |->
                                          u.T.wheel[wheel][SetToSortSeq(due, <)[i]]]),
              !.elapsed = ForcedTick(@, wheel),
              !.more = 0 \in passed]

\* The clock may also be set back: elapsed is then huge and everything is
\* scheduled anew.
timeouts_update(T, curtime) ==
  LET u == FoldLeft(TickWheel,
                    [T |-> T, curtime |-> curtime, todo |-> <<>>, more |-> TRUE,
                     elapsed |-> (curtime - T.curtime) % (WordMax + 1)],
                    [i \in 1 .. WHEEL_NUM |-> i - 1])
      resched(S, x) == timeouts_sched([S EXCEPT !.to[x].pending = NULL], x, S.to[x].expires)
  IN  FoldLeft(resched, [u.T EXCEPT !.curtime = curtime], u.todo)

timeouts_step(T, elapsed) == timeouts_update(T, T.curtime + elapsed)

timeouts_pending(T) == \E wheel \in Wheels : T.pending[wheel] # {}

timeouts_expired(T) == T.expired # <<>>

WheelTimeout_mutant(T, wheel) ==
  LET ahead == ctz(WordLog, Word(rotr(T.pending[wheel], SlotOf(T.curtime, wheel))))
  IN  (ahead + (IF wheel = 0 THEN 0 ELSE 1)) * 2 ^ (wheel * WHEEL_BIT)

\* What a populated wheel makes the caller wait at most: until its next slot
\* is due, less what the lower wheels have progressed.
WheelTimeout(T, wheel) ==
  LET ahead == ctz(WordLog, Word(rotr(T.pending[wheel], SlotOf(T.curtime, wheel))))
  IN  (ahead + (IF wheel = 0 THEN 0 ELSE 1)) * 2 ^ (wheel * WHEEL_BIT)
        - (T.curtime % (2 ^ (wheel * WHEEL_BIT)))

timeouts_int(T) ==
  Min({WordMax} \cup {WheelTimeout(T, wheel) : wheel \in {w \in Wheels : T.pending[w] # {}}})

timeouts_timeout(T) == IF timeouts_expired(T) THEN 0 ELSE timeouts_int(T)

\* The first expired timeout leaves the queue; an interval one starts again.
timeouts_get(T) ==
  LET x == Head(T.expired)
      R == [T EXCEPT !.expired = Tail(@), !.to[x] = Freed(@)]
  IN  IF "INT" \in T.to[x].flags /\ T.to[x].interval > 0 THEN timeouts_readd(R, x) ELSE R

timeouts_min(T) ==
  Min({T.to[x].expires : x \in {y \in Timeout : T.to[y].pending \notin {NULL, Expired}}})

timeouts_check(T) ==
  IF \E x \in Timeout : T.to[x].pending \notin {NULL, Expired}
  THEN LET left == timeouts_min(T) - T.curtime
       IN  left > 0 /\ timeouts_int(T) <= left /\ timeouts_timeout(T) <= left
  ELSE timeouts_timeout(T) = IF timeouts_expired(T) THEN 0 ELSE WordMax

timeout_pending(T, x) == T.to[x].pending \notin {NULL, Expired}

timeout_expired(T, x) == T.to[x].pending = Expired

\* An iterator: pc names the loop timeouts_next is in, at is the slot it looks
\* at (slots of all wheels numbered through) and to the timeout to yield next.
TIMEOUTS_IT(flags) == [flags |-> flags, pc |-> "start", at |-> -1, to |-> NoTimeout]

SlotAt(T, k) == T.wheel[k \div WHEEL_LEN][k % WHEEL_LEN]

After(list, x) ==
  LET i == CHOOSE j \in DOMAIN list : list[j] = x
  IN  IF i < Len(list) THEN list[i + 1] ELSE NoTimeout

Done(T, it) == [T |-> T, it |-> [it EXCEPT !.pc = "done"], yield |-> NoTimeout]

\* The loops over the wheels: the rest of this slot, then the next populated.
NextPending(T, it) ==
  LET ahead == {k \in it.at + 1 .. WHEEL_NUM * WHEEL_LEN - 1 : SlotAt(T, k) # <<>>}
      at == IF it.to # NoTimeout THEN it.at ELSE Min(ahead)
      x == IF it.to # NoTimeout THEN it.to ELSE Head(SlotAt(T, at))
  IN  IF "PENDING" \notin it.flags \/ (it.to = NoTimeout /\ ahead = {}) THEN Done(T, it)
      ELSE [T |-> T, yield |-> x,
            it |-> [it EXCEPT !.pc = "pending", !.at = at, !.to = After(SlotAt(T, at), x)]]

NextExpired_mutant(T, it) ==
  LET x == IF it.pc = "start" THEN Head(T.expired) ELSE it.to
  IN  IF "CLEAR" \in it.flags
      THEN IF T.expired = <<>> THEN NextPending(T, it)
           ELSE [T |-> timeouts_get(T), yield |-> Head(T.expired), it |-> [it EXCEPT !.pc = "expired"]]
      ELSE IF (it.pc = "start" /\ T.expired = <<>>) \/ (it.pc = "expired" /\ it.to = NoTimeout)
      THEN Done(T, it)
      ELSE [T |-> T, yield |-> x,
            it |-> [it EXCEPT !.pc = "expired", !.to = After(T.expired, x)]]

\* The loop over the expired queue, which TIMEOUTS_CLEAR empties.
NextExpired(T, it) ==
  LET x == IF it.pc = "start" THEN Head(T.expired) ELSE it.to
  IN  IF "CLEAR" \in it.flags
      THEN IF T.expired = <<>> THEN NextPending(T, it)
           ELSE [T |-> timeouts_get(T), yield |-> Head(T.expired), it |-> [it EXCEPT !.pc = "expired"]]
      ELSE IF (it.pc = "start" /\ T.expired = <<>>) \/ (it.pc = "expired" /\ it.to = NoTimeout)
      THEN NextPending(T, it)
      ELSE [T |-> T, yield |-> x,
            it |-> [it EXCEPT !.pc = "expired", !.to = After(T.expired, x)]]

timeouts_next(T, it) ==
  CASE it.pc = "done" -> Done(T, it)
    [] it.pc = "pending" -> NextPending(T, it)
    [] OTHER -> IF "EXPIRED" \in it.flags THEN NextExpired(T, it) ELSE NextPending(T, it)
===============================================================================
