------------------------------ MODULE MCCallouts -----------------------------
(* Instances of Callouts for TLC. *)
EXTENDS Callouts, TLC

CONSTANTS c1, c2, x1, x2, x3, x4, p1, p2

MCLookahead == [n \in 0 .. 2 |-> 4 + 2 * (n \div 2)]

\* A callout with a lock, that a thread and its handler set, stop and move.
WithLock == [cpus |-> {c1, c2}, callouts |-> {x1},
             ops |-> [p \in Task |-> IF p = p1 THEN {"reset", "stop"} ELSE {"async"}],
             handler |-> {"reset", "move", "stop"}, delays |-> {1}, maxnow |-> 2, calls |-> 3]
\* One that threads drain while its handler sets it again.
Drains == [WithLock EXCEPT !.ops = [p \in Task |-> IF p = p1 THEN {"reset", "drain"} ELSE {"drain"}],
                           !.handler = {"reset"}]
\* One without a lock.
NoLock == [Drains EXCEPT !.callouts = {x2},
                         !.ops = [p \in Task |-> IF p = p1 THEN {"reset", "stop"} ELSE {"async", "drain"}]]
\* Direct callouts in the buckets of a scan.
Directs == [Drains EXCEPT !.callouts = {x3, x4},
                          !.ops = [p \in Task |-> IF p = p1 THEN {"reset"} ELSE {"stop"}]]
\* Callouts near and far, and scans that go round the wheel.
Far == [cpus |-> {c1}, callouts |-> {x1, x2}, ops |-> [p \in Task |-> IF p = p1 THEN {"reset"} ELSE {}],
        handler |-> {}, delays |-> {1, 3, 5}, maxnow |-> 9, calls |-> 2]

MCScenarios == {WithLock, Drains, NoLock, Directs, Far}

\* In none of them does a handler move a callout that callout_drain waits for.
ASSUME HandlersKeepCpu == HandlersStay
===============================================================================
