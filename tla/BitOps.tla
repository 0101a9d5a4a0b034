-------------------------------- MODULE BitOps -------------------------------
(***************************************************************************)
(* article/src/c/wheel/timeout-bitops.c, the generic case: leading and       *)
(* trailing zeros of a word of 2^k bits by halving, and the loops that its   *)
(* TEST_BITOPS program compares them with.                                   *)
(***************************************************************************)
EXTENDS Naturals, Sequences, SequencesExt

\* 2^(k-1), ..., 2, 1: the arguments of the process macros.
Halves(k) == [i \in 1 .. k |-> 2 ^ (k - i)]

clz(k, word) ==
  LET process(s, bits) ==
        IF s.x < 2 ^ (2 ^ k - bits) THEN [rv |-> s.rv + bits, x |-> s.x * 2 ^ bits] ELSE s
  IN  FoldLeft(process, [rv |-> 0, x |-> word], Halves(k)).rv

ctz(k, word) ==
  LET process(s, bits) ==
        IF s.x % (2 ^ bits) = 0 THEN [rv |-> s.rv + bits, x |-> s.x \div 2 ^ bits] ELSE s
  IN  FoldLeft(process, [rv |-> 0, x |-> word], Halves(k)).rv

Bit(word, i) == (word \div 2 ^ i) % 2

\* How many bits are zero before the first one, from the top.
naive_clz(bits, v) ==
  CHOOSE r \in 0 .. bits - 1 :
    /\ Bit(v, bits - 1 - r) = 1
    /\ \A j \in 0 .. r - 1 : Bit(v, bits - 1 - j) = 0

\* How many bits are zero before the first one, from the bottom.
naive_ctz(bits, v) ==
  CHOOSE r \in 0 .. bits - 1 : Bit(v, r) = 1 /\ \A j \in 0 .. r - 1 : Bit(v, j) = 0
===============================================================================
