------------------------------ MODULE LinuxTimer -----------------------------
(***************************************************************************)
(* linux_kern_timer.c on several CPUs: the softirq of each CPU that expires  *)
(* timers and drops the base lock around every handler, tasks and handlers   *)
(* that modify and delete timers, CPUs that stop their tick when idle and    *)
(* CPUs that go off line.  What happens under one lock is one step; the      *)
(* unlocked reads before it, and the gap while a timer moves between bases,  *)
(* are steps of their own.                                                   *)
(***************************************************************************)
EXTENDS LinuxWheel

CONSTANTS
  Task,       \* contexts that call the timer interface besides the handlers
  Scenarios   \* what happens in a behaviour: records of
              \*   cpus, timers, tasks   the ones that take part
              \*   ops      ops[p]: the calls task p makes
              \*   delays   how far ahead timers are set
              \*   rearm    the delays handlers set their own timer to again
              \*   maxj     bound on jiffies
              \*   calls    bound on the calls tasks make
              \*   lag      bound on how late the timer interrupt is served
              \*   idle, hotplug   the CPUs that stop their tick, that go off line

ASSUME ScenariosAssumption ==
  /\ Cpu \cap Task = {}
  /\ \A s \in Scenarios :
       /\ s.cpus \subseteq Cpu /\ s.cpus # {}
       /\ s.timers \subseteq Timer /\ s.tasks \subseteq Task
       /\ s.delays \subseteq Nat /\ s.rearm \subseteq Nat
       /\ s.maxj \in Nat /\ s.lag \in Nat \ {0}

VARIABLES
  scenario,
  jiffies,
  W,        \* bases, timers, CPUs to wake
  soft,     \* soft[c]: where run_timer_softirq of CPU c is
  call,     \* call[p]: the timer call p is in
  asleep,   \* asleep[c]: the jiffy the stopped tick of c wakes it, -1 if it ticks
  online,   \* CPUs on line
  made      \* the calls that tasks have made so far

vars == <<scenario, jiffies, W, soft, call, asleep, online, made>>

Proc == Cpu \cup Task
NoCall == [op |-> "none", x |-> NoTimer, expires |-> 0, pc |-> "none", tf |-> <<>>,
           seen |-> FALSE, to |-> {}, woken |-> FALSE]
Arming == {"mod", "pending", "reduce", "on", "msleep"}
Syncing == {"sync", "msleep"}

Init ==
  /\ scenario \in Scenarios
  /\ jiffies = 0
  /\ W = [base |-> [c \in Cpu |-> init_timer_cpu(0)],
          timer |-> [x \in Timer |-> do_init_timer(CHOOSE c \in scenario.cpus : TRUE)], kick |-> {}]
  /\ soft = [c \in Cpu |-> "idle"]
  /\ call = [p \in Proc |-> NoCall]
  /\ asleep = [c \in Cpu |-> -1]
  /\ online = scenario.cpus
  /\ made = 0

flags(x) == <<W.timer[x].cpu, W.timer[x].idx, W.timer[x].migrating>>

(***************************************************************************)
(* Time, the softirq and the idle CPU.                                      *)
(***************************************************************************)
\* How far jiffies is ahead of what CPU c has served, or is to wake for.
Lag(c) == jiffies - (IF asleep[c] >= 0 THEN W.base[c].next_expiry ELSE W.base[c].clk)

\* The expiries on their way into a base.
Setting == {call[p].expires : p \in {q \in Proc : call[q].op \in Arming /\ call[q].pc # "asleep"}}

\* Time passes, not past an expiry that a call is still to set: a base that
\* is asleep would put its clock back to it (forward_timer_base).
Tick ==
  /\ jiffies < scenario.maxj
  /\ \A c \in online : Lag(c) < scenario.lag
  /\ \A e \in Setting : jiffies + 1 < e
  /\ jiffies' = jiffies + 1
  /\ UNCHANGED <<scenario, W, soft, call, asleep, online, made>>

\* A turn of the loop of __run_timers: collect what is due, step the clock.
Turn(now) ==
  [b \in timer_base |-> IF b.heads # NoHeads \/ now < b.clk THEN b
                        ELSE [collect_expired_timers(b, now) EXCEPT !.clk = @ + 1]]

\* The turns up to the next one that collects a timer, or to the last.
Collected(b, now) == IF now < b.clk THEN b ELSE Iterate(Turn(now), b, now - b.clk + 1)

\* The levels are expired from the highest down.
NextHead(b) == Head(b.heads[Max({l \in Lvls : b.heads[l] # <<>>})])

\* __run_timers and expire_timers while the softirq holds the lock: the next
\* timer is detached and its handler called without the lock, or the loop
\* ends.  The handler of a sleeper's timer, process_timeout, wakes it.
__run_timers(c, base) ==
  LET V == [W EXCEPT !.base[c] = Collected(base, jiffies)]
      x == NextHead(V.base[c])
  IN  IF V.base[c].heads = NoHeads
      THEN /\ W' = V
           /\ soft' = [soft EXCEPT ![c] = "idle"]
           /\ call' = call
      ELSE /\ W' = [detach_timer(V, c, x, TRUE) EXCEPT !.base[c].running = x]
           /\ soft' = [soft EXCEPT ![c] = "fn"]
           /\ call' = [p \in Proc |->
                [call[p] EXCEPT !.woken = @ \/ (call[p].op = "msleep" /\ call[p].x = x)]]

\* run_local_timers raises the softirq only when the clock of the base is due.
run_timer_softirq(c) ==
  /\ soft[c] = "idle" /\ c \in online /\ asleep[c] < 0 /\ jiffies >= W.base[c].clk
  /\ __run_timers(c, [W.base[c] EXCEPT !.must_forward_clk = FALSE])
  /\ UNCHANGED <<scenario, jiffies, asleep, online, made>>

\* running_timer is cleared before the lock is taken again.
HandlerReturns(c) ==
  /\ soft[c] = "fn" /\ call[c] = NoCall
  /\ W' = [W EXCEPT !.base[c].running = NoTimer]
  /\ soft' = [soft EXCEPT ![c] = "relock"]
  /\ UNCHANGED <<scenario, jiffies, call, asleep, online, made>>

Relock(c) ==
  /\ soft[c] = "relock"
  /\ __run_timers(c, W.base[c])
  /\ UNCHANGED <<scenario, jiffies, asleep, online, made>>

\* A CPU with nothing to do asks for its next timer and, if that is more than
\* a jiffy away, stops its tick until then.
GoIdle(c) ==
  LET b == get_next_timer_interrupt(W.base[c], jiffies)
  IN  /\ c \in scenario.idle \cap online /\ soft[c] = "idle" /\ asleep[c] < 0
      /\ W' = [W EXCEPT !.base[c] = b]
      /\ asleep' = [asleep EXCEPT ![c] = IF b.is_idle THEN b.next_expiry ELSE -1]
      /\ UNCHANGED <<scenario, jiffies, soft, call, online, made>>

\* Its timer, a kick or any other interrupt wakes it.
timer_clear_idle(c) ==
  /\ asleep[c] >= 0
  /\ asleep' = [asleep EXCEPT ![c] = -1]
  /\ W' = [W EXCEPT !.base[c].is_idle = FALSE, !.kick = @ \ {c}]
  /\ UNCHANGED <<scenario, jiffies, soft, call, online, made>>

(***************************************************************************)
(* CPU hotplug.  A CPU goes off line in stop_machine: no call is between two *)
(* locks, none aims at it.                                                  *)
(***************************************************************************)
CpuOffline(c) ==
  /\ c \in scenario.hotplug \cap online /\ online # {c} /\ soft[c] = "idle" /\ asleep[c] < 0
  /\ \A p \in Proc : c \notin call[p].to
  /\ online' = online \ {c}
  /\ UNCHANGED <<scenario, jiffies, W, soft, call, asleep, made>>

timers_dead(c, new) ==
  /\ c \in scenario.cpus \ online /\ new \in online /\ asleep[new] < 0
  /\ \E i \in Buckets : W.base[c].vectors[i] # <<>>
  /\ W' = timers_dead_cpu(W, c, new, jiffies)
  /\ UNCHANGED <<scenario, jiffies, soft, call, asleep, online, made>>

timers_prepare(c) ==
  /\ c \in scenario.cpus \ online /\ \A i \in Buckets : W.base[c].vectors[i] = <<>>
  /\ W' = [W EXCEPT !.base[c] = timers_prepare_cpu(@, jiffies)]
  /\ online' = online \cup {c}
  /\ UNCHANGED <<scenario, jiffies, soft, call, asleep, made>>

(***************************************************************************)
(* Calls.  A call begins with what it reads without the lock: whether the    *)
(* timer is pending, its expiry, and the flags that name its base.           *)
(***************************************************************************)
Called(p, op, x, expires, to) ==
  [call EXCEPT ![p] = [NoCall EXCEPT !.op = op, !.x = x, !.expires = expires, !.to = to,
                                     !.seen = W.timer[x].pending, !.tf = flags(x),
                                     !.pc = IF W.timer[x].migrating THEN "lock" ELSE "locked"]]

\* Callers of del_timer_sync "must prevent restarting of the timer", though
\* the handler may be in a call already; the caller of add_timer_on, which
\* does not check again under the lock, is the only one to start it.
MayStart(x) == \A p \in Proc : ~(call[p].x = x /\ call[p].op \in Syncing \cup {"on"})

\* Expiries beyond the wheel are set only while WHEEL_TIMEOUT_CUTOFF, which the
\* code compares with the absolute expiry, means what it says.
InReach(expires) ==
  expires - jiffies + scenario.lag < LVL_START(LVL_DEPTH - 1) \/ expires < WHEEL_TIMEOUT_CUTOFF

\* mod_timer, mod_timer_pending and timer_reduce: nothing to do for a pending
\* timer that has this expiry already.  add_timer is mod_timer of a timer that
\* is not pending.
BeginMod(p, op, x, expires) ==
  /\ call[p] = NoCall /\ MayStart(x) /\ InReach(expires)
  /\ ~(W.timer[x].pending /\ \/ W.timer[x].expires = expires
                             \/ op = "reduce" /\ W.timer[x].expires < expires)
  /\ call' = Called(p, op, x, expires, {})
  /\ UNCHANGED <<scenario, jiffies, W, soft, asleep, online>>

\* The timer is neither pending nor, as its caller knows, running.
BeginAddOn(p, x, expires, cpu) ==
  /\ call[p] = NoCall /\ MayStart(x) /\ InReach(expires) /\ cpu \in online
  /\ ~W.timer[x].pending
  /\ \A c \in Cpu : W.base[c].running # x
  /\ \A q \in Proc : call[q].x # x
  /\ call' = Called(p, "on", x, expires, {cpu})
  /\ UNCHANGED <<scenario, jiffies, W, soft, asleep, online>>

\* del_timer does not lock for a timer that is not pending.
BeginDel(p, x) ==
  /\ call[p] = NoCall /\ W.timer[x].pending
  /\ call' = Called(p, "del", x, 0, {})
  /\ UNCHANGED <<scenario, jiffies, W, soft, asleep, online>>

BeginSync(p, x) ==
  /\ call[p] = NoCall /\ p \in Task
  /\ \A q \in Task : ~(call[q].x = x /\ call[q].op \in Arming)
  /\ call' = Called(p, "sync", x, 0, {})
  /\ UNCHANGED <<scenario, jiffies, W, soft, asleep, online>>

\* msleep: schedule_timeout on a timer of the task's own, until it has slept
\* long enough.
BeginMsleep(p, x, expires) ==
  /\ call[p] = NoCall /\ p \in Task /\ InReach(expires)
  /\ ~W.timer[x].pending /\ \A q \in Proc : call[q].x # x
  /\ \A c \in Cpu : W.base[c].running # x
  /\ call' = Called(p, "msleep", x, expires, {})
  /\ UNCHANGED <<scenario, jiffies, W, soft, asleep, online>>

lock_timer_base_ok_mutant(p) == W.timer[call[p].x].migrating = FALSE

\* lock_timer_base: the flags read before the lock are still the timer's.
lock_timer_base_ok(p) == call[p].tf = flags(call[p].x)

Reread(p) ==
  /\ \/ call[p].pc = "lock"
     \/ call[p].pc \in {"locked", "del"} /\ ~lock_timer_base_ok(p)
  /\ ~W.timer[call[p].x].migrating
  /\ call' = [call EXCEPT ![p].tf = flags(call[p].x),
                          ![p].pc = IF @ = "lock" THEN "locked" ELSE @]
  /\ UNCHANGED <<scenario, jiffies, W, soft, asleep, online, made>>

\* The call holds the lock of its timer's base.
Holds(p, pc) ==
  /\ call[p].pc = pc /\ lock_timer_base_ok(p)

\* The sleeper goes to sleep, any other arming call returns.
Armed(p) ==
  [call EXCEPT ![p] = IF call[p].op = "msleep" THEN [@ EXCEPT !.pc = "asleep", !.to = {}] ELSE NoCall]

Forwarded(p) == forward_timer_base(W, call[p].tf[1], jiffies)

\* The timer was pending and the new expiry falls into the bucket its flags
\* name: only the expiry is changed, although the timer may have left the
\* bucket since.
SameBucket(p) ==
  LET c == call[p].tf[1]
  IN  /\ call[p].op \in {"mod", "pending", "reduce", "msleep"} /\ call[p].seen
      /\ calc_wheel_index(call[p].expires, Forwarded(p).base[c].clk) = W.timer[call[p].x].idx

\* timer_reduce of a timer that expires early enough.
Reduced(p) ==
  /\ call[p].op = "reduce" /\ call[p].seen
  /\ W.timer[call[p].x].pending /\ W.timer[call[p].x].expires <= call[p].expires

ModKeepsExpiry(p) ==
  /\ Holds(p, "locked") /\ Reduced(p)
  /\ W' = Forwarded(p)
  /\ call' = [call EXCEPT ![p] = NoCall]
  /\ UNCHANGED <<scenario, jiffies, soft, asleep, online, made>>

ModInBucket(p) ==
  LET x == call[p].x
      e == call[p].expires
      F == Forwarded(p)
  IN  /\ Holds(p, "locked") /\ ~Reduced(p) /\ SameBucket(p)
      /\ W' = [F EXCEPT !.timer[x].expires = IF call[p].op = "reduce" /\ @ <= e THEN @ ELSE e]
      /\ call' = Armed(p)
      /\ UNCHANGED <<scenario, jiffies, soft, asleep, online, made>>

ModNotPending(p) ==
  /\ Holds(p, "locked") /\ call[p].op = "pending" /\ ~SameBucket(p)
  /\ ~W.timer[call[p].x].pending
  /\ W' = Forwarded(p)
  /\ call' = [call EXCEPT ![p] = NoCall]
  /\ UNCHANGED <<scenario, jiffies, soft, asleep, online, made>>

MayLeave_mutant(c, x) == TRUE

\* A timer must stay on the base that runs its handler.
MayLeave(c, x) == W.base[c].running # x

\* The rest of __mod_timer: the timer leaves its bucket and is queued on the
\* target, here or, through the lock of the other base, there.
ModRequeue(p, new) ==
  LET x == call[p].x
      c == call[p].tf[1]
      D == detach_if_pending(Forwarded(p), c, x, FALSE)
  IN  /\ Holds(p, "locked") /\ call[p].op \in {"mod", "pending", "reduce", "msleep"}
      /\ ~Reduced(p) /\ ~SameBucket(p)
      /\ call[p].op = "pending" => W.timer[x].pending
      /\ IF new # c /\ MayLeave(c, x)
         THEN /\ W' = [D EXCEPT !.timer[x].migrating = TRUE]
              /\ call' = [call EXCEPT ![p].pc = "move", ![p].to = {new}]
         ELSE /\ W' = internal_add_timer([D EXCEPT !.timer[x].expires = call[p].expires], c, x)
              /\ call' = Armed(p)
      /\ UNCHANGED <<scenario, jiffies, soft, asleep, online, made>>

\* add_timer_on looks neither at the handler nor at the bucket.
AddOn(p) ==
  LET x == call[p].x
      c == call[p].tf[1]
      E == [W EXCEPT !.timer[x].expires = call[p].expires]
  IN  /\ Holds(p, "locked") /\ call[p].op = "on"
      /\ IF call[p].to # {c}
         THEN /\ W' = [E EXCEPT !.timer[x].migrating = TRUE]
              /\ call' = [call EXCEPT ![p].pc = "move"]
         ELSE /\ W' = internal_add_timer(forward_timer_base(E, c, jiffies), c, x)
              /\ call' = Armed(p)
      /\ UNCHANGED <<scenario, jiffies, soft, asleep, online, made>>

\* The new base is locked, the timer's flags name it and the timer is queued.
Moved(p) ==
  LET x == call[p].x
      c == CHOOSE n \in call[p].to : TRUE
      F == forward_timer_base(W, c, jiffies)
  IN  /\ call[p].pc = "move"
      /\ W' = internal_add_timer([F EXCEPT !.timer[x].cpu = c, !.timer[x].migrating = FALSE,
                                           !.timer[x].expires = call[p].expires], c, x)
      /\ call' = Armed(p)
      /\ UNCHANGED <<scenario, jiffies, soft, asleep, online, made>>

del_timer(p) ==
  /\ Holds(p, "locked") /\ call[p].op = "del"
  /\ W' = detach_if_pending(W, call[p].tf[1], call[p].x, TRUE)
  /\ call' = [call EXCEPT ![p] = NoCall]
  /\ UNCHANGED <<scenario, jiffies, soft, asleep, online, made>>

\* The sleeper is woken by its timer or by someone else and deletes the timer.
Woken(p) ==
  /\ call[p].pc = "asleep" /\ (call[p].woken \/ "signal" \in scenario.ops[p])
  /\ ~W.timer[call[p].x].migrating
  /\ call' = [call EXCEPT ![p].pc = "del", ![p].tf = flags(call[p].x)]
  /\ UNCHANGED <<scenario, jiffies, W, soft, asleep, online, made>>

DelLocked(p) ==
  \/ call[p].op = "sync" /\ Holds(p, "locked")
  \/ call[p].op = "msleep" /\ Holds(p, "del")

HandlerRuns_mutant(c, x) == FALSE

HandlerRuns(c, x) == W.base[c].running = x

\* One round of del_timer_sync: while the handler runs it tries again.  A
\* sleeper that is woken early then sets its timer once more.
try_to_del_timer_sync(p) ==
  LET x == call[p].x
      c == call[p].tf[1]
      again == call[p].op = "msleep" /\ call[p].expires > jiffies
  IN  /\ DelLocked(p) /\ ~HandlerRuns(c, x)
      /\ W' = detach_if_pending(W, c, x, TRUE)
      /\ call' = [call EXCEPT ![p] = IF again THEN [@ EXCEPT !.pc = "locked", !.seen = FALSE,
                                                              !.woken = FALSE]
                                              ELSE NoCall]
      /\ UNCHANGED <<scenario, jiffies, soft, asleep, online, made>>

CallOf(p) ==
  \/ \E x \in scenario.timers, d \in scenario.delays :
       \/ \E op \in scenario.ops[p] \cap {"mod", "pending", "reduce"} : BeginMod(p, op, x, jiffies + d)
       \/ "on" \in scenario.ops[p] /\ \E c \in online : BeginAddOn(p, x, jiffies + d, c)
       \/ "msleep" \in scenario.ops[p] /\ BeginMsleep(p, x, jiffies + d)
  \/ \E x \in scenario.timers : "del" \in scenario.ops[p] /\ BeginDel(p, x)
  \/ \E x \in scenario.timers : "sync" \in scenario.ops[p] /\ BeginSync(p, x)

Begin(p) ==
  /\ made < scenario.calls
  /\ made' = made + 1
  /\ CallOf(p)

\* A handler may set its own timer again.
Rearm(c) ==
  /\ made' = made
  /\ soft[c] = "fn"
  /\ \E d \in scenario.rearm : BeginMod(c, "mod", W.base[c].running, jiffies + d)

Continue(p) ==
  \/ Reread(p) \/ ModKeepsExpiry(p) \/ ModInBucket(p) \/ ModNotPending(p)
  \/ \E new \in online : ModRequeue(p, new)
  \/ AddOn(p) \/ Moved(p) \/ del_timer(p) \/ Woken(p) \/ try_to_del_timer_sync(p)

Softirq(c) ==
  run_timer_softirq(c) \/ HandlerReturns(c) \/ Relock(c)

Next ==
  \/ Tick
  \/ \E c \in scenario.cpus :
       \/ Softirq(c) \/ Rearm(c) \/ GoIdle(c) \/ timer_clear_idle(c)
       \/ CpuOffline(c) \/ timers_prepare(c) \/ \E new \in online : timers_dead(c, new)
  \/ \E p \in scenario.tasks : Begin(p)
  \/ \E p \in scenario.tasks \cup scenario.cpus : Continue(p)

Spec == Init /\ [][Next]_vars

(***************************************************************************)
(* Properties.                                                              *)
(***************************************************************************)
Queued(c, x) == \/ \E i \in Buckets : x \in ToSet(W.base[c].vectors[i])
                \/ \E l \in Lvls : x \in ToSet(W.base[c].heads[l])

\* The first tick of the clock of base c at which bucket idx is emptied.
BucketTime(c, idx) ==
  LET l == idx \div LVL_SIZE
      clk == LevelClk(W.base[c].clk, l)
  IN  (clk + ((idx - LVL_OFFS(l) + LVL_SIZE - (clk % LVL_SIZE)) % LVL_SIZE)) * LVL_GRAN(l)

\* A timer is queued exactly when it is pending, or about to be moved; then on
\* one list only, of the base and bucket that its flags name or among those
\* collected from it, and the bit of its bucket is set.  No timer stays behind
\* on a CPU that was brought on line again.
QueuedOnce ==
  /\ \A x \in Timer : W.timer[x].pending =>
       \/ W.timer[x].migrating
       \/ Queued(W.timer[x].cpu, x)
  /\ \A c \in Cpu, x \in Timer : Queued(c, x) =>
       /\ W.timer[x].pending /\ ~W.timer[x].migrating /\ W.timer[x].cpu = c
       /\ \A i \in Buckets : x \in ToSet(W.base[c].vectors[i]) =>
            i = W.timer[x].idx /\ \A l \in Lvls : x \notin ToSet(W.base[c].heads[l])
  /\ \A c \in Cpu, i \in Buckets :
       /\ W.base[c].vectors[i] # <<>> => i \in W.base[c].pending_map
       /\ IsInjective(W.base[c].vectors[i])

\* What the two properties of time below need of the scenarios: timers are set
\* for a later tick, for one that is set for the current tick may put the clock
\* back; and nobody goes off line unless every expiry is below the cutoff of
\* calc_wheel_index, which takes it for a distance.
Punctual ==
  \A s \in Scenarios :
    /\ 0 \notin s.delays \cup s.rearm
    /\ \/ s.hotplug = {}
       \/ \A d \in s.delays \cup s.rearm : s.maxj + d < WHEEL_TIMEOUT_CUTOFF

\* A queued timer's bucket is emptied at or after its expiry, and before a
\* whole tick of its level has passed since, or at once: whatever the clock of
\* the base skipped when it was forwarded after idle, and whichever CPU, with
\* whichever clock, the timer was moved to.
BucketsOnTime ==
  \A c \in Cpu, i \in Buckets : \A x \in ToSet(W.base[c].vectors[i]) :
    /\ BucketTime(c, i) >= W.timer[x].expires
    /\ \/ BucketTime(c, i) <= W.timer[x].expires + LVL_GRAN(i \div LVL_SIZE)
       \/ BucketTime(c, i) = W.base[c].clk

\* A CPU whose tick is stopped, and that nobody has kicked, wakes no later than
\* the first of its buckets is due, also when other CPUs queued timers on its
\* base since it went to sleep.
IdleCpuWakesInTime ==
  \A c \in Cpu : asleep[c] >= 0 /\ c \notin W.kick =>
    \A i \in Buckets : W.base[c].vectors[i] # <<>> => asleep[c] <= BucketTime(c, i)

\* "This also guarantees that the timer is serialized wrt itself": a handler
\* never runs on two CPUs at once, though anyone may move its timer meanwhile.
HandlersSerialised ==
  \A c, d \in Cpu : soft[c] = "fn" /\ soft[d] = "fn" /\ W.base[c].running = W.base[d].running => c = d

\* When del_timer_sync returns, or a sleeper whose timer is on its stack, "the
\* timer is not queued and the handler is not running on any CPU".
SyncMeansGone ==
  [][\A p \in Task, x \in Timer : call[p].op \in Syncing /\ call[p].x = x /\ call'[p] = NoCall =>
       \A c \in Cpu : /\ ~Queued(c, x)'
                      /\ ~(soft'[c] = "fn" /\ W'.base[c].running = x)]_vars
===============================================================================
