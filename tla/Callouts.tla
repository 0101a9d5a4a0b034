------------------------------- MODULE Callouts ------------------------------
(***************************************************************************)
(* bsd_kern_timeout.c on several CPUs: on each the clock interrupt scans the   *)
(* wheel and calls direct callouts, a softclock thread calls the others, and   *)
(* threads and handlers reset, stop and drain callouts.  What is done under    *)
(* one cc_lock is one step; the lock is dropped around handlers, while a       *)
(* callout moves between CPUs and before a thread goes to sleep.               *)
(***************************************************************************)
EXTENDS CalloutWheel

CONSTANTS
  Task,       \* threads that use callouts
  Scenarios   \* what happens in a behaviour: records of
              \*   cpus, callouts   the ones that are used
              \*   ops        ops[p]: the calls thread p makes
              \*   handler    the calls that handlers make: "reset", "move" to
              \*              another CPU, "stop"
              \*   delays     how far ahead threads and handlers set callouts
              \*   maxnow     bound on the time
              \*   calls      bound on the calls of threads

ASSUME ScenariosAssumption ==
  \A s \in Scenarios : s.cpus \subseteq Cpu /\ s.callouts \subseteq Callout /\ s.delays \subseteq Nat

\* No handler moves a callout that threads drain.  Nothing in the code asks for
\* this, but a thread that was woken in callout_drain locks the CPU it knew (line
\* 1210), which may not be the one of the callout any more.
HandlersStay ==
  \A s \in Scenarios, p \in Task : "drain" \in s.ops[p] => "move" \notin s.handler

VARIABLES
  scenario,
  now,
  K,        \* CPUs and callouts
  owner,    \* owner[x]: who holds the c_lock of x
  call,     \* call[p]: the call thread p is in
  made,     \* calls made so far
  stopped   \* callouts that callout_stop has cancelled, and nobody reset since

vars == <<scenario, now, K, owner, call, made, stopped>>

Call ==
  [op : {"none", "reset", "stop", "drain", "async"}, x : Callout \cup {None},
   when : [time : Nat, prec : Int] \cup {None}, cpu : Cpu \cup {None},
   pc : {"none", "again", "switch", "sqlock", "add", "sleep", "woken"},
   ch : (Cpu \X Entity) \cup {None}, sq : BOOLEAN]

NoCall == [op |-> "none", x |-> None, when |-> None, cpu |-> None, pc |-> "none",
           ch |-> None, sq |-> FALSE]

Init ==
  /\ scenario \in Scenarios
  /\ now = 0
  /\ \E cc_default_cpu \in scenario.cpus :
       K = [cc |-> [c \in Cpu |-> callout_cpu_init],
            co |-> [x \in Callout |-> callout_init(cc_default_cpu)]]
  /\ owner = [x \in Callout |-> None]
  /\ call = [p \in Task |-> NoCall]
  /\ made = 0
  /\ stopped = {}

dir(x) == IF x \in Direct THEN 1 ELSE 0
exec(c, x) == K.cc[c].exec[dir(x)]

\* callout_lock spins while the callout is between two CPUs.
callout_lock(x) == K.co[x].cpu # CPUBLOCK

Tick ==
  /\ now < scenario.maxnow
  /\ now' = now + 1
  /\ UNCHANGED <<scenario, K, owner, call, made, stopped>>

(***************************************************************************)
(* The clock interrupt and softclock.                                       *)
(***************************************************************************)
Process(c) ==
  /\ K.cc[c].scan = None
  /\ K' = callout_process(K, c, now)
  /\ UNCHANGED <<scenario, now, owner, call, made, stopped>>

Softclock(c) ==
  /\ K.cc[c].exec[0].pc = "idle" /\ K.cc[c].expireq # <<>>
  /\ K' = softclock(K, c)
  /\ UNCHANGED <<scenario, now, owner, call, made, stopped>>

WasCancelled_mutant(e) == FALSE

\* The callout may have been cancelled while the locks were switched.
WasCancelled(e) == e.cancel

TakeLock(c, d) ==
  LET e == K.cc[c].exec[d]
  IN  /\ e.pc = "lock" /\ owner[e.x] = None
      /\ IF WasCancelled(e)
         THEN /\ K' = [K EXCEPT !.cc[c].exec[d].pc = "finish"]
              /\ owner' = owner
         ELSE /\ K' = [K EXCEPT !.cc[c].exec[d] = [@ EXCEPT !.cancel = TRUE, !.pc = "run"]]
              /\ owner' = [owner EXCEPT ![e.x] = c]
      /\ UNCHANGED <<scenario, now, call, made, stopped>>

HandlerReturns(c, d) ==
  LET e == K.cc[c].exec[d]
  IN  /\ e.pc = "run"
      /\ K' = [K EXCEPT !.cc[c].exec[d].pc = "finish"]
      /\ owner' = [owner EXCEPT ![e.x] = None]
      /\ UNCHANGED <<scenario, now, call, made, stopped>>

\* cc_curr is cleared, and a drain function called without the lock first.
Finish(c, d) ==
  LET e == K.cc[c].exec[d]
  IN  /\ e.pc = "finish"
      /\ K' = IF e.drain
              THEN [K EXCEPT !.cc[c].exec[d] = [e EXCEPT !.curr = None, !.drain = FALSE, !.pc = "drain"]]
              ELSE Finished([K EXCEPT !.cc[c].exec[d] = [e EXCEPT !.curr = None]], c, d)
      /\ UNCHANGED <<scenario, now, owner, call, made, stopped>>

Drained(c, d) ==
  /\ K.cc[c].exec[d].pc = "drain"
  /\ K' = Finished(K, c, d)
  /\ UNCHANGED <<scenario, now, owner, call, made, stopped>>

SleepqFree_mutant(ch) == TRUE

\* wakeup needs the lock of the sleep queue.
SleepqFree(ch) == \A p \in Task : ~(call[p].ch = ch /\ call[p].sq)

Wakeup(c, d) ==
  /\ K.cc[c].exec[d].pc = "wakeup" /\ SleepqFree(<<c, d>>)
  /\ K' = [K EXCEPT !.cc[c].exec[d].pc = "relock"]
  /\ call' = [p \in Task |-> IF call[p].pc = "sleep" /\ call[p].ch = <<c, d>>
                             THEN [call[p] EXCEPT !.pc = "woken"] ELSE call[p]]
  /\ UNCHANGED <<scenario, now, owner, made, stopped>>

\* The deferred migration: the callout arrives on its new CPU.
Migrate(c, d) ==
  LET e == K.cc[c].exec[d]
  IN  /\ e.pc = "switch"
      /\ K' = callout_cc_add([K EXCEPT !.cc[c].exec[d] = [e EXCEPT !.pc = "relock", !.new = None],
                                       !.co[e.x] = [@ EXCEPT !.cpu = e.new.cpu]],
                             e.new.cpu, e.x, e.new)
      /\ UNCHANGED <<scenario, now, owner, call, made, stopped>>

Relock(c, d) ==
  /\ K.cc[c].exec[d].pc = "relock"
  /\ K' = Returned(K, c, d)
  /\ UNCHANGED <<scenario, now, owner, call, made, stopped>>

\* A callout that is pending leaves its list, and is idle.
Cancelled(V, c, x) == IF V.co[x].pending THEN Idle(Unlinked(V, c, x), x) ELSE V

(***************************************************************************)
(* callout_reset_sbt_on with the lock of the callout's CPU.                  *)
(***************************************************************************)
MayReset_mutant(e) == ~e.waiting

\* "Someone has called callout_drain to kill this callout. Don't reschedule."
MayReset(e) == ~e.waiting /\ ~e.drain

Reset(x, when, cpu) ==
  LET c == K.co[x].cpu
      d == dir(x)
      e == exec(c, x)
      running == e.curr = x
      move == [cpu |-> cpu, time |-> when.time, prec |-> when.prec]
      r == [e EXCEPT !.cancel = e.cancel \/ x \in Locked]
      R == IF running THEN [K EXCEPT !.cc[c].exec[d] = r] ELSE K
      U == Cancelled(R, c, x)
  IN  IF running /\ ~MayReset(e) THEN R
      ELSE IF running /\ K.co[x].dfr
      THEN [K EXCEPT !.cc[c].exec[d] = [r EXCEPT !.migration = move]]
      ELSE IF cpu = c THEN callout_cc_add(U, c, x, when)
      ELSE IF running
      THEN [U EXCEPT !.cc[c].exec[d] = [r EXCEPT !.migration = move],
                     !.co[x] = [@ EXCEPT !.dfr = TRUE, !.pending = TRUE, !.active = TRUE]]
      ELSE [U EXCEPT !.co[x] = [@ EXCEPT !.cpu = CPUBLOCK]]

(***************************************************************************)
(* _callout_stop_safe.                                                       *)
(***************************************************************************)
Slipped_mutant(x) == FALSE

\* A callout to be moved when it is done is pending and on no list yet.
Slipped(x) == K.co[x].dfr /\ K.co[x].pending /\ K.co[x].active

\* callout_stop and callout_async_drain: the new K, and whether 1 is returned.
Stop(x, drain) ==
  LET c == K.co[x].cpu
      d == dir(x)
      e == exec(c, x)
      S == IF Slipped(x) THEN Idle(K, x) ELSE K
      kept == IF K.co[x].dfr THEN None ELSE e.migration
      a == [e EXCEPT !.drain = e.drain \/ drain]
  IN  IF e.curr # x THEN [K |-> Cancelled(S, c, x), done |-> S.co[x].pending]
      ELSE IF x \in Locked /\ ~e.cancel /\ ~drain
      THEN [K |-> [S EXCEPT !.cc[c].exec[d] = [e EXCEPT !.cancel = TRUE, !.migration = kept],
                            !.co[x] = [@ EXCEPT !.active = FALSE, !.dfr = FALSE]],
            done |-> TRUE]
      ELSE IF K.co[x].dfr
      THEN [K |-> [S EXCEPT !.cc[c].exec[d] = [a EXCEPT !.migration = None],
                            !.co[x] = [@ EXCEPT !.active = FALSE, !.dfr = FALSE]],
            done |-> FALSE]
      ELSE [K |-> Cancelled([S EXCEPT !.cc[c].exec[d] = a, !.co[x] = [@ EXCEPT !.active = FALSE]], c, x),
            done |-> FALSE]

(***************************************************************************)
(* Handlers: their own callout is the current one, so that a call of theirs   *)
(* is done with one lock.                                                     *)
(***************************************************************************)
HandlerResets(c, d) ==
  LET e == K.cc[c].exec[d]
  IN  /\ e.pc = "run" /\ callout_lock(e.x)
      /\ \E t \in scenario.delays, cpu \in scenario.cpus :
           /\ (IF cpu = c THEN "reset" ELSE "move") \in scenario.handler
           /\ K' = Reset(e.x, callout_when(now, t, 0), cpu)
      /\ stopped' = stopped \ {e.x}
      /\ UNCHANGED <<scenario, now, owner, call, made>>

HandlerStops(c, d) ==
  LET e == K.cc[c].exec[d]
  IN  /\ e.pc = "run" /\ "stop" \in scenario.handler /\ callout_lock(e.x)
      /\ K' = Stop(e.x, FALSE).K
      /\ UNCHANGED <<scenario, now, owner, call, made, stopped>>

(***************************************************************************)
(* Threads.  A callout with a lock is reset and stopped with its lock held,   *)
(* and drained without; nobody else resets a callout that is being drained.   *)
(***************************************************************************)
Draining(x) ==
  \/ \E p \in Task : call[p].x = x /\ call[p].op \in {"drain", "async"}
  \/ \E c \in Cpu, d \in Entity : K.cc[c].exec[d].x = x
                                  /\ (K.cc[c].exec[d].drain \/ K.cc[c].exec[d].pc = "drain")

Begin(p, op, x) ==
  /\ call[p] = NoCall /\ op \in scenario.ops[p] /\ made < scenario.calls
  /\ op = "reset" => ~Draining(x)
  /\ op \in {"drain", "async"} => \A q \in Task : ~(call[q].x = x /\ call[q].op = "reset")
  /\ IF x \in Locked /\ op # "drain"
     THEN owner[x] = None /\ owner' = [owner EXCEPT ![x] = p]
     ELSE owner' = owner
  /\ \E t \in IF op = "reset" THEN scenario.delays ELSE {0}, cpu \in IF op = "reset" THEN scenario.cpus ELSE {None} :
       call' = [call EXCEPT ![p] = [NoCall EXCEPT !.op = op, !.x = x, !.pc = "again",
                                                  !.when = callout_when(now, t, 0), !.cpu = cpu]]
  /\ made' = made + 1
  /\ UNCHANGED <<scenario, now, K, stopped>>

\* The call returns, and the thread gives up the lock of the callout.
Return(p) ==
  /\ call' = [call EXCEPT ![p] = NoCall]
  /\ owner' = [y \in Callout |-> IF owner[y] = p THEN None ELSE owner[y]]

ResetCall(p) ==
  LET x == call[p].x
      V == Reset(x, call[p].when, call[p].cpu)
  IN  /\ call[p].op = "reset" /\ call[p].pc = "again" /\ callout_lock(x)
      /\ K' = V
      /\ stopped' = stopped \ {x}
      /\ IF V.co[x].cpu = CPUBLOCK
         THEN call' = [call EXCEPT ![p].pc = "switch"] /\ owner' = owner
         ELSE Return(p)
      /\ UNCHANGED <<scenario, now, made>>

\* callout_cpu_switch got the lock of the new CPU.
Switched(p) ==
  /\ call[p].pc = "switch"
  /\ K' = callout_cc_add([K EXCEPT !.co[call[p].x].cpu = call[p].cpu],
                         call[p].cpu, call[p].x, call[p].when)
  /\ Return(p)
  /\ UNCHANGED <<scenario, now, made, stopped>>

StopCall(p) ==
  LET x == call[p].x
      S == Stop(x, call[p].op = "async")
  IN  /\ call[p].op \in {"stop", "async"} /\ callout_lock(x)
      /\ K' = S.K
      /\ stopped' = IF S.done THEN stopped \cup {x} ELSE stopped
      /\ Return(p)
      /\ UNCHANGED <<scenario, now, made>>

\* The callout that thread p drains is running, or about to.
DrainLook(p) == exec(K.co[call[p].x].cpu, call[p].x).curr = call[p].x

\* The thread has the lock of the CPU: it looks whether the callout runs.
Drain(p) ==
  LET x == call[p].x
      c == K.co[x].cpu
      ch == <<c, dir(x)>>
      S == IF Slipped(x) THEN Idle(K, x) ELSE K
  IN  /\ call[p].op = "drain" /\ call[p].pc = "again" /\ callout_lock(x)
      /\ \/ /\ call[p].sq /\ call[p].ch # ch
            /\ K' = S
            /\ call' = [call EXCEPT ![p].sq = FALSE, ![p].ch = None]
            /\ owner' = owner
         \/ /\ ~call[p].sq /\ DrainLook(p)
            /\ K' = S
            /\ call' = [call EXCEPT ![p].pc = "sqlock", ![p].ch = ch]
            /\ owner' = owner
         \/ /\ call[p].sq /\ call[p].ch = ch /\ DrainLook(p)
            /\ K' = [S EXCEPT !.cc[c].exec[dir(x)] = [@ EXCEPT !.waiting = TRUE]]
            /\ call' = [call EXCEPT ![p].pc = "add"]
            /\ owner' = owner
         \/ /\ call[p].sq => call[p].ch = ch
            /\ ~DrainLook(p)
            /\ K' = Cancelled(S, c, x)
            /\ Return(p)
      /\ UNCHANGED <<scenario, now, made, stopped>>

\* Without the cc_lock, the thread locks the sleep queue,
LockSleepq(p) ==
  /\ call[p].pc = "sqlock" /\ SleepqFree(call[p].ch)
  /\ call' = [call EXCEPT ![p].pc = "again", ![p].sq = TRUE]
  /\ UNCHANGED <<scenario, now, K, owner, made, stopped>>

\* goes to sleep,
Sleep(p) ==
  /\ call[p].pc = "add"
  /\ call' = [call EXCEPT ![p].pc = "sleep", ![p].sq = FALSE]
  /\ UNCHANGED <<scenario, now, K, owner, made, stopped>>

\* and takes the lock of the same CPU when it is woken.  What comes of a list that
\* it takes a callout off with the lock of another CPU is not modelled.
Woken(p) ==
  LET x == call[p].x
      c == call[p].ch[1]
  IN  /\ call[p].pc = "woken"
      /\ IF exec(c, x).curr = x
         THEN /\ call' = [call EXCEPT ![p].pc = "sqlock"]
              /\ UNCHANGED <<K, owner>>
         ELSE /\ K.co[x].pending => K.co[x].cpu = c
              /\ K' = Cancelled([K EXCEPT !.co[x] = [@ EXCEPT !.active = FALSE]], c, x)
              /\ Return(p)
      /\ UNCHANGED <<scenario, now, made, stopped>>

Execute(c, d) ==
  \/ TakeLock(c, d) \/ HandlerResets(c, d) \/ HandlerStops(c, d) \/ HandlerReturns(c, d)
  \/ Finish(c, d) \/ Drained(c, d) \/ Wakeup(c, d) \/ Migrate(c, d) \/ Relock(c, d)

Next ==
  \/ Tick
  \/ \E c \in scenario.cpus : Process(c) \/ Softclock(c) \/ \E d \in Entity : Execute(c, d)
  \/ \E p \in Task, x \in scenario.callouts, op \in {"reset", "stop", "drain", "async"} : Begin(p, op, x)
  \/ \E p \in Task : ResetCall(p) \/ Switched(p) \/ StopCall(p) \/ Drain(p)
                     \/ LockSleepq(p) \/ Sleep(p) \/ Woken(p)

Spec == Init /\ [][Next]_vars

(***************************************************************************)
(* Properties.                                                              *)
(***************************************************************************)
Lists(c) == {K.cc[c].wheel[b] : b \in DOMAIN K.cc[c].wheel} \cup {K.cc[c].expireq}
OnList(c, x) == \E l \in Lists(c) : x \in ToSet(l)
Runs(c, d, x) == K.cc[c].exec[d].x = x /\ K.cc[c].exec[d].pc = "run"

\* A callout is pending exactly when it is on a list, or is to be moved once its
\* handler returns, or is being moved.  On a list, it is active, on the CPU and in the bucket or
\* queue that its fields name, and there only once.
PendingMeansListed ==
  /\ \A x \in Callout :
       K.co[x].pending => K.co[x].dfr \/ K.co[x].cpu = CPUBLOCK \/ OnList(K.co[x].cpu, x)
  /\ \A c \in Cpu, x \in Callout : OnList(c, x) =>
       /\ K.co[x].pending /\ K.co[x].active /\ ~K.co[x].dfr /\ K.co[x].cpu = c
       /\ x \in ToSet(K.cc[c].expireq) <=> K.co[x].processed
       /\ \A b \in DOMAIN K.cc[c].wheel : x \in ToSet(K.cc[c].wheel[b]) =>
            b = callout_get_bucket(K.co[x].time) /\ ~K.co[x].processed
  /\ \A c \in Cpu : \A l \in Lists(c) : IsInjective(l)

\* While a direct callout runs without the lock, cc_next stays in the bucket
\* that the scan is in, whoever stops, resets or adds callouts there.
ScanStaysInBucket ==
  \A c \in Cpu : K.cc[c].exec[1].pc # "idle" =>
    K.cc[c].next \in {None} \cup ToSet(K.cc[c].wheel[K.cc[c].bucket])

\* The event timer of a CPU is set for no later than any callout on its wheel
\* allows, although a scan looks at few of them and others are added while a
\* direct callout runs in the middle of it.
EventTimerIsInTime ==
  \A c \in Cpu : K.cc[c].exec[1].pc = "idle" =>
    /\ K.cc[c].scan = None
    /\ \A b \in DOMAIN K.cc[c].wheel : \A x \in ToSet(K.cc[c].wheel[b]) :
      K.cc[c].firstevent <= K.co[x].time + K.co[x].prec

\* After callout_stop has returned 1, the handler does not start until someone
\* resets the callout: not even one that already waits for the lock.
StopMeansCancelled ==
  \A x \in stopped : /\ ~K.co[x].pending /\ ~K.co[x].dfr
                     /\ \A c \in Cpu, d \in Entity : ~Runs(c, d, x)

Gone(x) ==
  /\ ~K.co[x].pending /\ ~K.co[x].dfr
  /\ \A c \in Cpu, d \in Entity : K.cc[c].exec[d].curr # x /\ ~Runs(c, d, x)

\* When callout_drain returns, and when the function given to
\* callout_async_drain is called, the callout neither runs nor is set.  Its
\* handler may have set it again meanwhile: on its CPU or, if only
\* callout_async_drain is used, on another one.  With callout_drain and a handler
\* that moves the callout this is false: see HandlersStay.
DrainMeansGone ==
  [][\A x \in Callout :
       \/ \E p \in Task : call[p].op = "drain" /\ call[p].x = x /\ call'[p] = NoCall
       \/ \E c \in Cpu, d \in Entity : /\ K.cc[c].exec[d].x = x /\ K.cc[c].exec[d].pc = "finish"
                                      /\ K'.cc[c].exec[d].pc = "drain"
       => Gone(x)']_vars

\* A thread that sleeps in callout_drain has its wakeup to come.
SleepersAreWoken ==
  \A p \in Task : call[p].pc = "sleep" =>
    LET e == K.cc[call[p].ch[1]].exec[call[p].ch[2]]
    IN  e.pc = "wakeup" \/ (e.waiting /\ e.pc \in {"lock", "run", "finish", "drain"})
===============================================================================
