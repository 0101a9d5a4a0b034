----------------------------- MODULE MCLinuxTimer ----------------------------
(* Instances of LinuxTimer for TLC. *)
EXTENDS LinuxTimer, TLC

CONSTANTS c1, c2, x1, x2, p1, p2

\* One CPU that goes idle for long, timers on all three levels.
Nohz == [cpus |-> {c1}, timers |-> {x1, x2}, tasks |-> {p1},
         ops |-> [p \in Task |-> {"mod", "del"}], delays |-> {1, 7}, rearm |-> {},
         maxj |-> 9, calls |-> 2, lag |-> 1,
         idle |-> {c1}, hotplug |-> {}]
\* A timer that is set on CPUs that sleep.
Remote == [cpus |-> {c1, c2}, timers |-> {x1}, tasks |-> {p1},
           ops |-> [p \in Task |-> {"mod", "on"}], delays |-> {1, 4}, rearm |-> {},
           maxj |-> 6, calls |-> 2, lag |-> 1,
           idle |-> {c2}, hotplug |-> {}]
\* Two CPUs, two tasks and a handler on one timer.
Smp == [cpus |-> {c1, c2}, timers |-> {x1}, tasks |-> {p1, p2},
        ops |-> [p \in Task |-> IF p = p1 THEN {"mod", "reduce"} ELSE {"del", "sync", "pending"}],
        delays |-> {1, 3}, rearm |-> {1}, maxj |-> 3, calls |-> 3, lag |-> 2,
        idle |-> {}, hotplug |-> {}]
\* Two timers in one bucket, one of them deleted from the list being expired.
Pair == [cpus |-> {c1, c2}, timers |-> {x1, x2}, tasks |-> {p1, p2},
        ops |-> [p \in Task |-> IF p = p1 THEN {"mod"} ELSE {"sync"}],
        delays |-> {1}, rearm |-> {1}, maxj |-> 2, calls |-> 4, lag |-> 2,
        idle |-> {}, hotplug |-> {}]
\* A sleeper that is woken early, and a CPU that goes off line under it.
Sleep == [cpus |-> {c1, c2}, timers |-> {x1, x2}, tasks |-> {p1, p2},
          ops |-> [p \in Task |-> IF p = p1 THEN {"msleep", "signal"} ELSE {"mod"}],
          delays |-> {1}, rearm |-> {}, maxj |-> 3, calls |-> 2, lag |-> 1,
          idle |-> {}, hotplug |-> {c2}]

MCScenarios == {Nohz, Remote, Smp, Pair, Sleep}

ASSUME ScenariosArePunctual == Punctual
===============================================================================
