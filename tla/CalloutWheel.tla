----------------------------- MODULE CalloutWheel ----------------------------
(***************************************************************************)
(* article/src/c/wheel/kernel_impls/bsd_kern_timeout.c: the callout wheels    *)
(* of the CPUs and what is done to them under a cc_lock.  K holds             *)
(*   co[x]  a struct callout: its CPU, time, precision and the flags          *)
(*          PENDING, PROCESSED, ACTIVE and DFRMIGRATION                       *)
(*   cc[c]  the struct callout_cpu of CPU c, with its two cc_exec entities,   *)
(*          0 for the softclock thread and 1 for direct callouts, and with    *)
(*          the locals of the softclock_call_cc that uses an entity (pc, x,   *)
(*          new) and of callout_process (scan).                               *)
(* Built with SMP and event timers; handlers and arguments are not told       *)
(* apart.                                                                     *)
(***************************************************************************)
EXTENDS Iteration, Integers, Sequences, FiniteSets, SequencesExt, FiniteSetsExt

CONSTANTS
  Cpu, Callout,
  None,             \* a NULL pointer
  CPUBLOCK,         \* c_cpu of a callout between two CPUs
  Locked, Direct,   \* the callouts with a c_lock, and the ones reset with C_DIRECT_EXEC
  BucketSpan,       \* time units per bucket, 2 ^ (32 - CC_HASH_SHIFT)
  callwheelsize,
  Lookahead,        \* Lookahead[n]: how far a scan looks that comes n buckets after the last
  SBT_MAX, tc_precexp

ASSUME CalloutWheelAssumption ==
  /\ IsFiniteSet(Callout)
  /\ Locked \subseteq Callout /\ Direct \subseteq Callout \ Locked
  /\ None \notin Callout /\ CPUBLOCK \notin Cpu
  /\ BucketSpan \in Nat \ {0} /\ callwheelsize \in Nat \ {0}
  /\ SBT_MAX \in Nat /\ tc_precexp \in Nat
  /\ \A n \in 0 .. 2 : Lookahead[n] \in 2 * BucketSpan .. (callwheelsize - 1) * BucketSpan

Entity == {0, 1}

Moves == [cpu : Cpu, time : Nat, prec : Int]   \* a deferred migration

cc_exec ==
  [curr : Callout \cup {None}, cancel : BOOLEAN, waiting : BOOLEAN, drain : BOOLEAN,
   migration : Moves \cup {None}, x : Callout \cup {None}, new : Moves \cup {None},
   pc : {"idle", "lock", "run", "finish", "drain", "wakeup", "switch", "relock"}]

\* The locals of callout_process.
Scans == [now : Nat, firstb : Nat, nowb : Int, lastb : Int, last : Int, max : Int,
          tmp : Callout \cup {None}]

callout_cpu ==
  [exec : [Entity -> cc_exec], next : Callout \cup {None}, bucket : Nat,
   wheel : [0 .. callwheelsize - 1 -> Seq(Callout)], expireq : Seq(Callout),
   firstevent : Int, lastscan : Nat, scan : Scans \cup {None}]

callout ==
  [cpu : Cpu \cup {CPUBLOCK}, time : Nat, prec : Int, pending : BOOLEAN, processed : BOOLEAN,
   active : BOOLEAN, dfr : BOOLEAN]

Kernel == [cc : [Cpu -> callout_cpu], co : [Callout -> callout]]

ASSUME NoneIsNeither == None \notin Moves \cup Scans

\* Where LIST_NEXT leads from x.
LIST_NEXT(list, x) ==
  LET i == CHOOSE k \in DOMAIN list : list[k] = x
  IN  IF i = Len(list) THEN None ELSE list[i + 1]

LIST_FIRST(list) == IF list = <<>> THEN None ELSE Head(list)

Without(list, x) == RemoveFirst(list, x)

cc_cce_cleanup(e) ==
  [e EXCEPT !.curr = None, !.cancel = FALSE, !.waiting = FALSE, !.migration = None]

callout_cpu_init ==
  [exec |-> [d \in Entity |-> [curr |-> None, cancel |-> FALSE, waiting |-> FALSE, drain |-> FALSE,
                               migration |-> None, pc |-> "idle", x |-> None, new |-> None]],
   next |-> None, bucket |-> 0, wheel |-> [b \in 0 .. callwheelsize - 1 |-> <<>>],
   expireq |-> <<>>, firstevent |-> SBT_MAX, lastscan |-> 0, scan |-> None]

callout_init(cpu) ==
  [cpu |-> cpu, time |-> 0, prec |-> 0, pending |-> FALSE, processed |-> FALSE,
   active |-> FALSE, dfr |-> FALSE]

callout_hash(sbt) == sbt \div BucketSpan
callout_get_bucket(sbt) == callout_hash(sbt) % callwheelsize

\* Of short timeouts, which count from the present time and not from the last
\* hardclock: the time, never past SBT_MAX, and the precision.
callout_when(now, sbt, precision) ==
  [time |-> IF SBT_MAX - now < sbt THEN SBT_MAX ELSE now + sbt,
   prec |-> Max({sbt \div 2 ^ tc_precexp, precision})]

\* Times before the last scan would be overlooked by the next.
ScannedNext(cc, sbt) == IF sbt < cc.lastscan THEN cc.lastscan ELSE sbt

\* The callout becomes the first of its bucket.  A scan that is in this bucket
\* goes on with it.
callout_cc_add(K, c, x, when) ==
  LET cc == K.cc[c]
      sbt == ScannedNext(cc, when.time)
      prec == IF SBT_MAX - sbt < when.prec THEN SBT_MAX - sbt ELSE when.prec
      b == callout_get_bucket(sbt)
      listed == [cc EXCEPT !.wheel[b] = <<x>> \o @, !.next = IF cc.bucket = b THEN x ELSE @,
                           !.firstevent = IF sbt + prec < @ THEN sbt + prec ELSE @]
      set == [K.co[x] EXCEPT !.pending = TRUE, !.processed = FALSE, !.active = TRUE,
                             !.time = sbt, !.prec = prec]
  IN  [K EXCEPT !.cc[c] = listed, !.co[x] = set]

NextAfter_mutant(K, c, x) == K.cc[c].next

\* cc_next moves on when its callout leaves the list.
NextAfter(K, c, x) ==
  IF K.cc[c].next = x THEN LIST_NEXT(K.cc[c].wheel[callout_get_bucket(K.co[x].time)], x)
  ELSE K.cc[c].next

\* A pending callout leaves the wheel, or the queue of those that are due.
Unlinked(K, c, x) ==
  IF K.co[x].processed
  THEN [K EXCEPT !.cc[c].expireq = Without(@, x)]
  ELSE [K EXCEPT !.cc[c].next = NextAfter(K, c, x),
                 !.cc[c].wheel[callout_get_bucket(K.co[x].time)] = Without(@, x)]

Idle(K, x) == [K EXCEPT !.co[x] = [@ EXCEPT !.pending = FALSE, !.active = FALSE]]

\* softclock_call_cc until it gives up the cc_lock.
Called(K, c, d, x) ==
  [K EXCEPT !.cc[c].exec[d] = [@ EXCEPT !.pc = IF x \in Locked THEN "lock" ELSE "run", !.x = x,
                                        !.curr = x, !.cancel = FALSE, !.drain = FALSE],
            !.co[x] = [@ EXCEPT !.pending = FALSE]]

(***************************************************************************)
(* callout_process: the buckets from the last scan to the present one, and on *)
(* for as long as events can be aggregated.  Callouts that are due go to the  *)
(* queue of softclock; a direct one is called, and the scan is suspended.     *)
(***************************************************************************)
InBucket(K, c, b) == K.cc[c].wheel[b % callwheelsize]

ScanFrom(cc, now) ==
  LET firstb == callout_hash(cc.lastscan)
      nowb == callout_hash(now)
      max == callout_hash(now + Lookahead[Min({nowb - firstb, 2})]) * BucketSpan
      lastb == callout_hash(max) - 1
      turn == firstb + callwheelsize - 1
  IN  [now |-> now, firstb |-> firstb, last |-> max, max |-> max,
       nowb |-> IF lastb > turn /\ nowb > turn THEN turn ELSE nowb,
       lastb |-> IF lastb > turn THEN turn ELSE lastb,
       tmp |-> LIST_FIRST(cc.wheel[firstb % callwheelsize])]

Aggregated_mutant(s, co) == [s EXCEPT !.lastb = IF co.time > s.last THEN s.nowb ELSE @]

\* What a callout that is not due yet does to the bounds of the scan.
Aggregated(s, co) ==
  IF co.time >= s.max THEN s
  ELSE IF co.time > s.last THEN [s EXCEPT !.lastb = s.nowb]
  ELSE [s EXCEPT !.last = Min({@, co.time + co.prec})]

\* One round of its loops: the next callout of the bucket, or the next bucket,
\* or the end of the scan.  Nothing, while a direct callout runs.
ScanRound(K, c) ==
  LET cc == K.cc[c]
      s == cc.scan
      x == s.tmp
      b == s.firstb % callwheelsize
      nxt == LIST_NEXT(cc.wheel[b], x)
      moved == [s EXCEPT !.firstb = s.firstb + 1, !.tmp = LIST_FIRST(InBucket(K, c, s.firstb + 1))]
      passed == [Aggregated(s, K.co[x]) EXCEPT !.tmp = nxt]
      left == [cc.wheel EXCEPT ![b] = Without(cc.wheel[b], x)]
      due == [cc EXCEPT !.wheel = left, !.expireq = Append(cc.expireq, x), !.scan = [s EXCEPT !.tmp = nxt]]
  IN  IF s = None \/ cc.exec[1].pc # "idle" THEN K
      ELSE IF x = None /\ s.firstb < s.lastb THEN [K EXCEPT !.cc[c] = [cc EXCEPT !.scan = moved]]
      ELSE IF x = None THEN [K EXCEPT !.cc[c] = [cc EXCEPT !.firstevent = s.last, !.scan = None]]
      ELSE IF K.co[x].time > s.now THEN [K EXCEPT !.cc[c] = [cc EXCEPT !.scan = passed]]
      ELSE IF x \in Direct
      THEN Called([K EXCEPT !.cc[c] = [cc EXCEPT !.next = nxt, !.bucket = b, !.wheel = left]], c, 1, x)
      ELSE [K EXCEPT !.cc[c] = due, !.co[x] = [K.co[x] EXCEPT !.processed = TRUE]]

\* Each round but the last goes to another bucket or leaves a callout behind.
Scan(K, c) == Iterate([V \in Kernel |-> ScanRound(V, c)], K, callwheelsize + Cardinality(Callout))

callout_process(K, c, now) ==
  Scan([K EXCEPT !.cc[c] = [K.cc[c] EXCEPT !.lastscan = now, !.scan = ScanFrom(K.cc[c], now)]], c)

(***************************************************************************)
(* What follows softclock_call_cc with the lock still held: softclock takes   *)
(* the next callout from its queue, callout_process goes on with its scan.    *)
(***************************************************************************)
softclock(K, c) ==
  IF K.cc[c].expireq = <<>> THEN [K EXCEPT !.cc[c].exec[0] = [@ EXCEPT !.pc = "idle", !.x = None]]
  ELSE Called([K EXCEPT !.cc[c] = [K.cc[c] EXCEPT !.expireq = Tail(K.cc[c].expireq)]],
              c, 0, Head(K.cc[c].expireq))

Returned(K, c, d) ==
  LET cc == K.cc[c]
      idle == [cc.exec EXCEPT ![1] = [cc.exec[1] EXCEPT !.pc = "idle", !.x = None]]
  IN  IF d = 0 THEN softclock(K, c)
      ELSE Scan([K EXCEPT !.cc[c] = [cc EXCEPT !.exec = idle, !.scan = [cc.scan EXCEPT !.tmp = cc.next],
                                               !.next = None]], c)

\* The end of softclock_call_cc: wake who waits for the callout, which cancels
\* a migration, or move the callout to the CPU it was reset to meanwhile, or
\* go on, with the lock held as when it has been taken again.
Finished(K, c, d) ==
  LET e == K.cc[c].exec[d]
      x == e.x
      o == K.co[x]
      migrating == e.migration # None
      left == IF migrating THEN cc_cce_cleanup(e) ELSE e
  IN  IF e.waiting
      THEN [K EXCEPT !.cc[c].exec[d] = [left EXCEPT !.waiting = FALSE, !.pc = "wakeup"],
                     !.co[x] = [o EXCEPT !.dfr = o.dfr /\ ~migrating]]
      ELSE IF migrating /\ o.dfr
      THEN [K EXCEPT !.cc[c].exec[d] = [left EXCEPT !.pc = "switch", !.new = e.migration],
                     !.co[x] = [o EXCEPT !.dfr = FALSE, !.cpu = CPUBLOCK]]
      ELSE Returned([K EXCEPT !.cc[c].exec[d] = [left EXCEPT !.pc = "relock"]], c, d)
===============================================================================
