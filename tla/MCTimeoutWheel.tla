---------------------------- MODULE MCTimeoutWheel ---------------------------
(* An instance of TimeoutWheel for TLC. *)
EXTENDS TimeoutWheel, TLC

\* The bit operations agree with their naive counterparts on all words, as the
\* TEST_BITOPS program of timeout-bitops.c checks on five.
ASSUME BitOpsAgree ==
  \A v \in 1 .. WordMax : /\ clz(WordLog, v) = naive_clz(2 ^ WordLog, v)
                          /\ ctz(WordLog, v) = naive_ctz(2 ^ WordLog, v)

CONSTANT Third   \* the timeout only the iterating client uses

\* One client moves the clock to and fro under timeouts of every kind, below
\* and above TIMEOUT_MAX; the other fills slots and iterates.
ClockClient ==
  [timeouts |-> Timeout \ {Third}, times |-> {0, 6, 16}, steps |-> {1, 3},
   delays |-> {0, 5, 16}, seconds |-> {},
   flags |-> {{}, {"INT"}, {"ABS"}}, iterate |-> {}]
ListClient ==
  [timeouts |-> Timeout, times |-> {0, 1}, steps |-> {1},
   delays |-> {1, 5}, seconds |-> {[num |-> 5, den |-> 2]},
   flags |-> {{}, {"INT"}},
   iterate |-> {{"EXPIRED", "PENDING"}, {"EXPIRED", "PENDING", "CLEAR"}}]
BothClients == {ClockClient, ListClient}
Symmetry == Permutations(Timeout \ {Third})
===============================================================================
