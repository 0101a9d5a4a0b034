------------------------------ MODULE SeqLemmas ------------------------------
(***************************************************************************)
(* Facts about naturals, sequences and loops that the proofs share: least    *)
(* elements, longest prefixes, what is left after a prefix is dropped or one  *)
(* position is taken out, powers of two, and what a loop keeps or reaches     *)
(* round by round.                                                          *)
(***************************************************************************)
EXTENDS Iteration, Integers, Sequences, SequencesExt, FiniteSetsExt, TLAPS, SequenceTheorems,
        WellFoundedInduction, FiniteSetTheorems

\* A sequence without its position a.
TakenOut(q, a) == [i \in 1 .. (Len(q) - 1) |-> IF i < a THEN q[i] ELSE q[i + 1]]

\* Where position i of that sequence came from.
Past(a, i) == IF i < a THEN i ELSE i + 1

\* A non-empty set of naturals has a least element.
LEMMA NatLeast ==
  ASSUME NEW S, S \subseteq Nat, S # {}
  PROVE  \E m \in S : \A x \in S : m <= x
<1>1. \E m \in S : \A x \in S : ~ (<<x, m>> \in OpToRel(<, Nat))
  BY NatLessThanWellFounded, WFMin
<1>2. PICK m \in S : \A x \in S : ~ (<<x, m>> \in OpToRel(<, Nat))
  BY <1>1
<1>3. \A x \in S : m <= x
  <2> SUFFICES ASSUME NEW x \in S PROVE m <= x OBVIOUS
  <2>1. x \in Nat /\ m \in Nat OBVIOUS
  <2>2. ~ (x < m)
    BY <1>2, <2>1 DEF OpToRel
  <2> QED BY <2>1, <2>2
<1> QED BY <1>3

\* The least member of a set of naturals is one of them.
LEMMA MinIsMember == ASSUME NEW S, S \subseteq Nat, S # {} PROVE Min(S) \in S
<1>1. \E m \in S : \A x \in S : m <= x BY NatLeast
<1> QED BY <1>1 DEF Min

\* A loop that runs while the next position is in good stops after the
\* longest prefix of such positions.
LEMMA LongestPrefix ==
  ASSUME NEW N \in Nat, NEW good
  PROVE  \E d \in 0 .. N : (\A i \in 1 .. d : i \in good) /\ (d < N => d + 1 \notin good)
<1> DEFINE bad == {i \in 1 .. N : i \notin good}
<1>1. CASE bad = {}
  <2>1. \A i \in 1 .. N : i \in good BY <1>1
  <2> QED BY <2>1
<1>2. CASE bad # {}
  <2>1. PICK m \in bad : \A x \in bad : m <= x
    <3>1. bad \subseteq Nat OBVIOUS
    <3> HIDE DEF bad
    <3> QED BY <1>2, <3>1, NatLeast
  <2>2. m - 1 \in 0 .. N /\ (m - 1) + 1 = m /\ m \notin good OBVIOUS
  <2>3. \A i \in 1 .. (m - 1) : i \in good
    <3> SUFFICES ASSUME NEW i \in 1 .. (m - 1), i \notin good PROVE FALSE OBVIOUS
    <3>1. i \in bad OBVIOUS
    <3> QED BY <2>1, <3>1
  <2> QED BY <2>2, <2>3
<1> QED BY <1>1, <1>2

\* What is left when the first d members are dropped.
LEMMA SeqDrop ==
  ASSUME NEW S, NEW q \in Seq(S), NEW d \in 0 .. Len(q)
  PROVE  /\ SubSeq(q, d + 1, Len(q)) \in Seq(S)
         /\ Len(SubSeq(q, d + 1, Len(q))) = Len(q) - d
         /\ \A i \in 1 .. (Len(q) - d) :
              i + d \in 1 .. Len(q) /\ SubSeq(q, d + 1, Len(q))[i] = q[i + d]
<1>1. Len(q) \in Nat BY LenProperties
<1>2. \A i \in (d + 1) .. Len(q) : q[i] \in S
  BY <1>1, ElementOfSeq
<1>3. /\ SubSeq(q, d + 1, Len(q)) \in Seq(S)
      /\ Len(SubSeq(q, d + 1, Len(q))) = IF d + 1 <= Len(q) THEN Len(q) - (d + 1) + 1 ELSE 0
      /\ \A i \in 1 .. Len(q) - (d + 1) + 1 : SubSeq(q, d + 1, Len(q))[i] = q[(d + 1) + i - 1]
  BY <1>1, <1>2, SubSeqProperties
<1>4. Len(SubSeq(q, d + 1, Len(q))) = Len(q) - d
  BY <1>1, <1>3
<1>5. ASSUME NEW i \in 1 .. (Len(q) - d)
      PROVE  i + d \in 1 .. Len(q) /\ SubSeq(q, d + 1, Len(q))[i] = q[i + d]
  <2>1. i + d \in 1 .. Len(q) /\ (d + 1) + i - 1 = i + d /\ i \in 1 .. Len(q) - (d + 1) + 1
    BY <1>1
  <2> QED BY <1>3, <2>1
<1> QED BY <1>3, <1>4, <1>5

\* What is left when position a is taken out.
LEMMA SeqTakeOut ==
  ASSUME NEW S, NEW q \in Seq(S), NEW a \in 1 .. Len(q)
  PROVE  /\ TakenOut(q, a) \in Seq(S)
         /\ Len(TakenOut(q, a)) = Len(q) - 1
         /\ \A i \in 1 .. (Len(q) - 1) :
              /\ Past(a, i) \in 1 .. Len(q)
              /\ Past(a, i) # a
              /\ TakenOut(q, a)[i] = q[Past(a, i)]
<1>1. Len(q) \in Nat /\ Len(q) - 1 \in Nat
  BY LenProperties
<1>2. \A i \in 1 .. (Len(q) - 1) : (IF i < a THEN q[i] ELSE q[i + 1]) \in S
  BY <1>1, ElementOfSeq
<1>3. TakenOut(q, a) \in Seq(S) /\ Len(TakenOut(q, a)) = Len(q) - 1
  BY <1>1, <1>2 DEF TakenOut
<1>4. ASSUME NEW i \in 1 .. (Len(q) - 1)
      PROVE  Past(a, i) \in 1 .. Len(q) /\ Past(a, i) # a /\ TakenOut(q, a)[i] = q[Past(a, i)]
  BY <1>1 DEF Past, TakenOut
<1> QED BY <1>3, <1>4

\* The positions that remain keep their order, and none but a is lost.
LEMMA PastIsMonotone ==
  ASSUME NEW N \in Nat, NEW a \in 1 .. N
  PROVE  /\ \A i, j \in 1 .. (N - 1) : i <= j => Past(a, i) <= Past(a, j)
         /\ \A i, j \in 1 .. (N - 1) : Past(a, i) = Past(a, j) => i = j
         /\ \A i \in 1 .. N : i # a => \E j \in 1 .. (N - 1) : Past(a, j) = i
<1>1. \A i, j \in 1 .. (N - 1) : (i <= j => Past(a, i) <= Past(a, j)) /\ (Past(a, i) = Past(a, j) => i = j)
  BY DEF Past
<1>2. ASSUME NEW i \in 1 .. N, i # a PROVE \E j \in 1 .. (N - 1) : Past(a, j) = i
  <2>1. CASE i < a BY <2>1 DEF Past
  <2>2. CASE i > a
    <3>1. i - 1 \in 1 .. (N - 1) /\ Past(a, i - 1) = i BY <2>2 DEF Past
    <3> QED BY <3>1
  <2> QED BY <1>2, <2>1, <2>2
<1> QED BY <1>1, <1>2

\* The runs of a loop: the states after 0 .. n rounds.
Run(f, x, n, g) ==
  /\ DOMAIN g = 0 .. n
  /\ g[0] = x
  /\ \A i \in 1 .. n : g[i] = f[g[i - 1]]

\* A loop can go on for any number of rounds.
LEMMA RunsExist ==
  ASSUME NEW f, NEW x, NEW n \in Nat
  PROVE  \E g : Run(f, x, n, g)
<1> DEFINE bad == {m \in Nat : ~ \E g : Run(f, x, m, g)}
<1> SUFFICES ASSUME bad # {} PROVE FALSE OBVIOUS
<1>1. PICK m \in bad : \A k \in bad : m <= k
  <2>1. bad \subseteq Nat OBVIOUS
  <2> HIDE DEF bad
  <2> QED BY <2>1, NatLeast
<1>2. m \in Nat /\ ~ \E g : Run(f, x, m, g) OBVIOUS
<1>3. m # 0
  <2>1. Run(f, x, 0, [i \in 0 .. 0 |-> x])
    BY DEF Run
  <2> QED BY <1>2, <2>1
<1>4. m - 1 \in Nat /\ ~ (m <= m - 1) BY <1>2, <1>3
<1>5. PICK g : Run(f, x, m - 1, g)
  <2>1. m - 1 \notin bad BY <1>1, <1>4
  <2> QED BY <1>4, <2>1
<1> DEFINE h == [i \in 0 .. m |-> IF i = m THEN f[g[m - 1]] ELSE g[i]]
<1>6. Run(f, x, m, h)
  <2>1. DOMAIN h = 0 .. m /\ h[0] = x
    BY <1>2, <1>3, <1>5 DEF Run
  <2>2. ASSUME NEW i \in 1 .. m PROVE h[i] = f[h[i - 1]]
    <3>1. i - 1 \in 0 .. m /\ i \in 0 .. m /\ i - 1 # m BY <1>2
    <3>2. h[i - 1] = g[i - 1] BY <3>1
    <3>3. CASE i = m BY <3>1, <3>2, <3>3
    <3>4. CASE i # m
      <4>1. i \in 1 .. (m - 1) BY <1>2, <3>4
      <4> QED BY <1>5, <3>1, <3>2, <3>4, <4>1 DEF Run
    <3> QED BY <3>3, <3>4
  <2> QED BY <2>1, <2>2 DEF Run
<1> QED BY <1>2, <1>6

\* Two runs of a loop agree as far as both go.
LEMMA RunsAgree ==
  ASSUME NEW f, NEW x, NEW n \in Nat, NEW m \in Nat, NEW g, NEW h,
         Run(f, x, n, g), Run(f, x, m, h),
         NEW k \in 0 .. n, k \in 0 .. m
  PROVE  g[k] = h[k]
<1> DEFINE bad == {i \in Nat : i \in 0 .. n /\ i \in 0 .. m /\ g[i] # h[i]}
<1> SUFFICES ASSUME bad # {} PROVE FALSE OBVIOUS
<1>1. PICK b \in bad : \A i \in bad : b <= i
  <2>1. bad \subseteq Nat OBVIOUS
  <2> HIDE DEF bad
  <2> QED BY <2>1, NatLeast
<1>2. b # 0 BY DEF Run
<1>3. b - 1 \in Nat /\ b - 1 \in 0 .. n /\ b - 1 \in 0 .. m /\ b \in 1 .. n /\ b \in 1 .. m /\ ~ (b <= b - 1)
  BY <1>2
<1>4. g[b - 1] = h[b - 1] BY <1>1, <1>3
<1>5. g[b] = f[g[b - 1]] /\ h[b] = f[h[b - 1]] BY <1>3 DEF Run
<1> QED BY <1>4, <1>5

\* The states of a loop, round by round.
LEMMA IterateRounds ==
  ASSUME NEW f, NEW x
  PROVE  /\ Iterate(f, x, 0) = x
         /\ \A n \in Nat : Iterate(f, x, n + 1) = f[Iterate(f, x, n)]
<1> DEFINE step(r) == [k \in Nat |-> IF k = 0 THEN x ELSE f[r[k - 1]]]
<1> DEFINE run(m) == CHOOSE g : Run(f, x, m, g)
<1>1. \A m \in Nat : Run(f, x, m, run(m)) BY RunsExist
<1> DEFINE r == [k \in Nat |-> run(k)[k]]
<1> HIDE DEF run
<1>2. ASSUME NEW k \in Nat PROVE r[k] = IF k = 0 THEN x ELSE f[r[k - 1]]
  <2>1. CASE k = 0 BY <1>1, <2>1 DEF Run
  <2>2. CASE k # 0
    <3>1. k - 1 \in Nat /\ k \in 1 .. k /\ k - 1 \in 0 .. (k - 1) /\ k - 1 \in 0 .. k BY <2>2
    <3>2. run(k)[k] = f[run(k)[k - 1]] BY <1>1, <3>1 DEF Run
    <3>3. run(k - 1)[k - 1] = run(k)[k - 1]
      BY <1>1, <3>1, RunsAgree
    <3>4. r[k] = run(k)[k] /\ r[k - 1] = run(k - 1)[k - 1] BY <3>1
    <3> QED BY <2>2, <3>2, <3>3, <3>4
  <2> QED BY <2>1, <2>2
<1>3. r = step(r) BY <1>2
<1> DEFINE round == CHOOSE q : q = step(q)
<1>4. round = step(round)
  <2> HIDE DEF r, step
  <2> QED BY <1>3
<1>5. \A n : Iterate(f, x, n) = round[n] BY DEF Iterate
<1> HIDE DEF r, round
<1>6. \A k \in Nat : round[k] = IF k = 0 THEN x ELSE f[round[k - 1]]
  BY <1>4
<1>7. \A n \in Nat : n + 1 \in Nat /\ n + 1 # 0 /\ (n + 1) - 1 = n OBVIOUS
<1> QED BY <1>5, <1>6, <1>7

\* What each round of a loop takes from one stage to the next holds of the
\* last stage after the last round.
LEMMA IteratesThrough ==
  ASSUME NEW f, NEW n \in Nat, NEW P, NEW x \in P[0],
         \A k \in 0 .. (n - 1) : \A y \in P[k] : f[y] \in P[k + 1]
  PROVE  Iterate(f, x, n) \in P[n]
<1> DEFINE bad == {k \in Nat : k <= n /\ Iterate(f, x, k) \notin P[k]}
<1> SUFFICES ASSUME bad # {} PROVE FALSE OBVIOUS
<1>1. PICK b \in bad : \A i \in bad : b <= i
  <2>1. bad \subseteq Nat OBVIOUS
  <2> HIDE DEF bad
  <2> QED BY <2>1, NatLeast
<1>2. b # 0 BY IterateRounds
<1>3. b - 1 \in Nat /\ ~ (b <= b - 1) /\ b - 1 \in 0 .. (n - 1) /\ (b - 1) + 1 = b BY <1>2
<1>4. Iterate(f, x, b - 1) \in P[b - 1] BY <1>1, <1>3
<1>5. Iterate(f, x, (b - 1) + 1) = f[Iterate(f, x, b - 1)] BY <1>3, IterateRounds, ZenonT(60)
<1>6. f[Iterate(f, x, b - 1)] \in P[(b - 1) + 1] BY <1>3, <1>4
<1> QED BY <1>3, <1>5, <1>6

\* What the body of a loop preserves holds after any number of rounds.
LEMMA Iterates ==
  ASSUME NEW f, NEW P, NEW x \in P, \A y \in P : f[y] \in P, NEW n \in Nat
  PROVE  Iterate(f, x, n) \in P
<1> DEFINE Q == [k \in Nat |-> P]
<1>1. x \in Q[0] /\ Q[n] = P OBVIOUS
<1>2. \A k \in 0 .. (n - 1) : \A y \in Q[k] : f[y] \in Q[k + 1] OBVIOUS
<1> HIDE DEF Q
<1> QED BY <1>1, <1>2, IteratesThrough

\* Powers of two are positive: 2^n counts the subsets of a set of n members.
LEMMA PowerIsPositive == ASSUME NEW n \in Nat PROVE 2 ^ n \in Nat \ {0}
<1>1. IsFiniteSet(1 .. n) /\ Cardinality(1 .. n) = n BY FS_Interval
<1>2. IsFiniteSet(SUBSET (1 .. n)) /\ Cardinality(SUBSET (1 .. n)) = 2 ^ n BY <1>1, FS_SUBSET
<1>3. Cardinality(SUBSET (1 .. n)) \in Nat BY <1>2, FS_CardinalityType
<1>4. {} \in SUBSET (1 .. n) OBVIOUS
<1>5. Cardinality(SUBSET (1 .. n)) # 0 BY <1>2, <1>4, FS_EmptySet
<1> QED BY <1>2, <1>3, <1>5

\* The subsets of 1 .. n + 1 are those of 1 .. n, without and with n + 1.
LEMMA PowerDoubles == ASSUME NEW n \in Nat PROVE 2 ^ (n + 1) = 2 * 2 ^ n
<1> DEFINE S == SUBSET (1 .. n)
           T == {X \cup {n + 1} : X \in S}
           f == [X \in S |-> X \cup {n + 1}]
<1>1. IsFiniteSet(1 .. n) /\ Cardinality(1 .. n) = n BY FS_Interval
<1>2. IsFiniteSet(1 .. (n + 1)) /\ Cardinality(1 .. (n + 1)) = n + 1 BY FS_Interval
<1>3. IsFiniteSet(S) /\ Cardinality(S) = 2 ^ n BY <1>1, FS_SUBSET
<1>4. Cardinality(SUBSET (1 .. (n + 1))) = 2 ^ (n + 1) BY <1>2, FS_SUBSET
<1>5. n + 1 \notin 1 .. n OBVIOUS
<1>6. f \in Bijection(S, T)
  <2>1. \A X, Y \in S : f[X] = f[Y] => X = Y BY <1>5
  <2>2. \A Z \in T : \E X \in S : f[X] = Z OBVIOUS
  <2>3. f \in [S -> T] OBVIOUS
  <2> QED BY <2>1, <2>2, <2>3 DEF Bijection, Injection, Surjection, IsInjective
<1>7. IsFiniteSet(T) /\ Cardinality(T) = Cardinality(S)
  <2>1. ExistsBijection(S, T) BY <1>6 DEF ExistsBijection
  <2> HIDE DEF S, T, f
  <2> QED BY <1>3, <2>1, FS_Bijection
<1>8. S \cap T = {} BY <1>5
<1>9. SUBSET (1 .. (n + 1)) = S \cup T
  <2>1. \A Z \in S \cup T : Z \in SUBSET (1 .. (n + 1))
    <3>1. 1 .. n \subseteq 1 .. (n + 1) /\ n + 1 \in 1 .. (n + 1) OBVIOUS
    <3> QED BY <3>1
  <2>2. ASSUME NEW Z \in SUBSET (1 .. (n + 1)) PROVE Z \in S \cup T
    <3>1. \A i \in Z : i # n + 1 => i \in 1 .. n BY <2>2
    <3>2. CASE n + 1 \notin Z BY <3>1, <3>2
    <3>3. CASE n + 1 \in Z
      <4>1. Z \ {n + 1} \in S /\ Z = (Z \ {n + 1}) \cup {n + 1} BY <3>1, <3>3
      <4> QED BY <4>1
    <3> QED BY <3>2, <3>3
  <2> QED BY <2>1, <2>2
<1>10. Cardinality({}) = 0 /\ Cardinality(S) \in Nat BY <1>3, FS_EmptySet, FS_CardinalityType
<1> HIDE DEF S, T, f
<1>11. Cardinality(S \cup T) = Cardinality(S) + Cardinality(S) - 0 BY <1>3, <1>7, <1>8, <1>10, FS_Union
<1>12. 2 ^ (n + 1) = Cardinality(S \cup T) BY <1>4, <1>9, Zenon
<1>13. PICK c \in Nat : c = Cardinality(S) BY <1>10
<1>14. 2 ^ n = c BY <1>3, <1>13, Zenon
<1>15. 2 ^ (n + 1) = c + c BY <1>11, <1>12, <1>13
<1> QED BY <1>14, <1>15

LEMMA PowerSplits == ASSUME NEW m \in Nat, NEW n \in Nat PROVE 2 ^ (m + n) = 2 ^ m * 2 ^ n
<1> DEFINE bad == {k \in Nat : 2 ^ (m + k) # 2 ^ m * 2 ^ k}
<1> SUFFICES ASSUME bad # {} PROVE FALSE OBVIOUS
<1>1. PICK b \in bad : \A i \in bad : b <= i
  <2>1. bad \subseteq Nat OBVIOUS
  <2> HIDE DEF bad
  <2> QED BY <2>1, NatLeast
<1>2. b # 0
  <2>1. 2 ^ 0 = 1 /\ 2 ^ m \in Nat BY PowerIsPositive
  <2>2. 2 ^ (m + 0) = 2 ^ m OBVIOUS
  <2>3. \A x \in Nat : x * 1 = x OBVIOUS
  <2>4. 2 ^ (m + 0) = 2 ^ m * 2 ^ 0 BY <2>1, <2>2, <2>3
  <2> QED BY <2>4, Zenon
<1>3. PICK k \in Nat : b = k + 1 /\ ~ (b <= k)
  <2>1. b - 1 \in Nat /\ b = (b - 1) + 1 /\ ~ (b <= b - 1) BY <1>2
  <2> QED BY <2>1
<1>4. 2 ^ (m + k) = 2 ^ m * 2 ^ k BY <1>1, <1>3
<1>5. 2 ^ (k + 1) = 2 * 2 ^ k /\ 2 ^ ((m + k) + 1) = 2 * 2 ^ (m + k) BY PowerDoubles
<1>6. 2 ^ m \in Nat /\ 2 ^ k \in Nat /\ 2 ^ (m + k) \in Nat BY PowerIsPositive
<1>7. m + b = (m + k) + 1 BY <1>3
<1>8. 2 ^ (m + b) = 2 * (2 ^ m * 2 ^ k) BY <1>4, <1>5, <1>7
<1>9. \A x, y \in Nat : 2 * (x * y) = x * (2 * y) OBVIOUS
<1>10. 2 ^ (m + b) = 2 ^ m * 2 ^ b BY <1>3, <1>5, <1>6, <1>8, <1>9
<1> QED BY <1>1, <1>10

\* The leading bits of a number, and a sum that wraps around once.
LEMMA DivBelow ==
  ASSUME NEW d \in Nat \ {0}, NEW n \in Nat \ {0}, NEW h \in 0 .. (d * n - 1)
  PROVE  h \div d \in 0 .. (n - 1)
<1>1. PICK x : x = h \div d OBVIOUS
<1>2. x \in Nat /\ d * x <= h BY <1>1
<1>3. x >= n => d * x >= d * n BY <1>2
<1>4. d * n \in Nat /\ h < d * n OBVIOUS
<1> QED BY <1>1, <1>2, <1>3, <1>4

LEMMA ModWraps ==
  ASSUME NEW n \in Nat \ {0}, NEW x \in 0 .. (2 * n - 1)
  PROVE  x % n = IF x < n THEN x ELSE x - n
<1>1. PICK y, z : y = x \div n /\ z = x % n OBVIOUS
<1>2. y \in Nat /\ z \in 0 .. (n - 1) /\ x = n * y + z BY <1>1
<1>3. y < 2
  <2>1. y >= 2 => n * y >= n * 2 BY <1>2
  <2> QED BY <1>2, <2>1
<1>4. y = 0 \/ y = 1 BY <1>2, <1>3
<1> QED BY <1>1, <1>2, <1>4

(***************************************************************************)
(* Lists: sequences in which nothing is twice.                              *)
(***************************************************************************)
\* RemoveAt of the community modules takes out the same position.
LEMMA RemoveAtTakesOut ==
  ASSUME NEW S, NEW q \in Seq(S), NEW a \in 1 .. Len(q)
  PROVE  RemoveAt(q, a) = TakenOut(q, a)
<1> DEFINE u == SubSeq(q, 1, a - 1)
           v == SubSeq(q, a + 1, Len(q))
<1>0. Len(q) \in Nat /\ \A i \in 1 .. Len(q) : q[i] \in S BY LenProperties, ElementOfSeq
<1>1. u \in Seq(S) /\ Len(u) = a - 1 /\ \A i \in 1 .. (a - 1) : u[i] = q[i]
  <2>1. \A i \in 1 .. (a - 1) : q[i] \in S BY <1>0
  <2>2. a - 1 \in 0 .. Len(q) /\ a - 1 \in Nat BY <1>0
  <2> QED BY <2>1, <2>2, SubSeqProperties
<1>2. v \in Seq(S) /\ Len(v) = Len(q) - a /\ \A i \in 1 .. (Len(q) - a) : v[i] = q[i + a]
  <2>1. a \in 0 .. Len(q) BY <1>0
  <2> QED BY <1>0, <2>1, SeqDrop
<1> HIDE DEF u, v
<1>3. /\ u \o v \in Seq(S) /\ Len(u \o v) = Len(q) - 1
      /\ \A i \in 1 .. (Len(q) - 1) : (u \o v)[i] = IF i <= a - 1 THEN u[i] ELSE v[i - (a - 1)]
  <2>1. /\ u \o v \in Seq(S) /\ Len(u \o v) = Len(u) + Len(v)
        /\ \A i \in 1 .. Len(u) + Len(v) : (u \o v)[i] = IF i <= Len(u) THEN u[i] ELSE v[i - Len(u)]
    BY <1>1, <1>2, ConcatProperties
  <2>2. Len(u) + Len(v) = Len(q) - 1 BY <1>0, <1>1, <1>2
  <2> QED BY <1>1, <2>1, <2>2
<1>4. ASSUME NEW i \in 1 .. (Len(q) - 1) PROVE (u \o v)[i] = TakenOut(q, a)[i]
  <2>1. CASE i < a
    <3>1. i <= a - 1 /\ i \in 1 .. (a - 1) BY <1>0, <2>1
    <3> QED BY <1>1, <1>3, <2>1, <3>1 DEF TakenOut
  <2>2. CASE ~ (i < a)
    <3>1. ~ (i <= a - 1) /\ i - (a - 1) \in 1 .. (Len(q) - a) /\ (i - (a - 1)) + a = i + 1 BY <1>0, <2>2
    <3> QED BY <1>2, <1>3, <2>2, <3>1 DEF TakenOut
  <2> QED BY <2>1, <2>2
<1>5. TakenOut(q, a) \in Seq(S) /\ Len(TakenOut(q, a)) = Len(q) - 1 BY SeqTakeOut
<1>6. u \o v = TakenOut(q, a) BY <1>3, <1>4, <1>5, SeqEqual
<1> QED BY <1>6 DEF RemoveAt, u, v

\* An element that is on a list once is taken off it, and nothing else.
LEMMA RemoveFirstFacts ==
  ASSUME NEW S, NEW q \in Seq(S), IsInjective(q), NEW x
  PROVE  /\ RemoveFirst(q, x) \in Seq(S)
         /\ IsInjective(RemoveFirst(q, x))
         /\ ToSet(RemoveFirst(q, x)) = ToSet(q) \ {x}
<1> DEFINE at == {i \in 1 .. Len(q) : q[i] = x}
           a == Min(at)
<1>0. Len(q) \in Nat /\ DOMAIN q = 1 .. Len(q) BY LenProperties
<1>1. CASE at = {}
  <2>1. RemoveFirst(q, x) = q BY <1>1 DEF RemoveFirst
  <2>2. x \notin ToSet(q) BY <1>0, <1>1 DEF ToSet
  <2> QED BY <2>1, <2>2
<1>2. CASE at # {}
  <2>1. a \in at
    <3>1. at \subseteq Nat BY <1>0
    <3> HIDE DEF at
    <3> QED BY <1>2, <3>1, MinIsMember
  <2>2. a \in 1 .. Len(q) /\ q[a] = x BY <2>1
  <2>3. RemoveFirst(q, x) = RemoveAt(q, a)
    BY <1>2 DEF RemoveFirst, SelectInSeq
  <2> HIDE DEF a, at
  <2>4. RemoveAt(q, a) = TakenOut(q, a)
    BY <2>2, RemoveAtTakesOut
  <2> DEFINE t == TakenOut(q, a)
  <2>5. /\ t \in Seq(S) /\ Len(t) = Len(q) - 1
        /\ \A i \in 1 .. (Len(q) - 1) : Past(a, i) \in 1 .. Len(q) /\ Past(a, i) # a /\ t[i] = q[Past(a, i)]
    BY <2>2, SeqTakeOut
  <2>6. DOMAIN t = 1 .. (Len(q) - 1) BY <2>5, LenProperties
  <2>7. /\ \A i, j \in 1 .. (Len(q) - 1) : Past(a, i) = Past(a, j) => i = j
        /\ \A i \in 1 .. Len(q) : i # a => \E j \in 1 .. (Len(q) - 1) : Past(a, j) = i
    BY <1>0, <2>2, PastIsMonotone, Zenon
  <2> HIDE DEF t
  <2>8. IsInjective(t)
    BY <1>0, <2>5, <2>6, <2>7 DEF IsInjective
  <2>9. ASSUME NEW y \in ToSet(t) PROVE y \in ToSet(q) /\ y # x
    <3>1. PICK i \in 1 .. (Len(q) - 1) : y = t[i] BY <2>6 DEF ToSet
    <3>2. Past(a, i) \in 1 .. Len(q) /\ Past(a, i) # a /\ y = q[Past(a, i)] BY <2>5, <3>1
    <3>3. y \in ToSet(q) BY <1>0, <3>2 DEF ToSet
    <3>4. q[Past(a, i)] # q[a] BY <1>0, <2>2, <3>2 DEF IsInjective
    <3> QED BY <2>2, <3>2, <3>3, <3>4
  <2>10. ASSUME NEW y \in ToSet(q), y # x PROVE y \in ToSet(t)
    <3>1. PICK i \in 1 .. Len(q) : y = q[i] BY <1>0 DEF ToSet
    <3>2. PICK j \in 1 .. (Len(q) - 1) : Past(a, j) = i BY <2>2, <2>7, <2>10, <3>1
    <3>3. y = t[j] BY <2>5, <3>1, <3>2
    <3> QED BY <2>6, <3>3 DEF ToSet
  <2>11. ToSet(t) = ToSet(q) \ {x} BY <2>9, <2>10
  <2> QED BY <2>3, <2>4, <2>5, <2>8, <2>11 DEF t
<1> QED BY <1>1, <1>2

\* An element put before a list that it is not on.
LEMMA ConsFacts ==
  ASSUME NEW S, NEW q \in Seq(S), IsInjective(q), NEW x \in S, x \notin ToSet(q)
  PROVE  /\ <<x>> \o q \in Seq(S)
         /\ IsInjective(<<x>> \o q)
         /\ ToSet(<<x>> \o q) = ToSet(q) \cup {x}
<1> DEFINE t == <<x>> \o q
<1>0. Len(q) \in Nat /\ DOMAIN q = 1 .. Len(q) BY LenProperties
<1>1. <<x>> \in Seq(S) /\ Len(<<x>>) = 1 /\ <<x>>[1] = x OBVIOUS
<1>2. /\ t \in Seq(S) /\ Len(t) = Len(q) + 1
      /\ t[1] = x
      /\ \A i \in 2 .. (Len(q) + 1) : t[i] = q[i - 1]
  BY <1>0, <1>1, ConcatProperties
<1>3. DOMAIN t = 1 .. (Len(q) + 1) BY <1>2, LenProperties
<1> HIDE DEF t
<1>4. \A i \in 1 .. (Len(q) + 1) : i = 1 \/ (i \in 2 .. (Len(q) + 1) /\ i - 1 \in 1 .. Len(q)) BY <1>0
<1>5. \A i \in 2 .. (Len(q) + 1) : t[i] \in ToSet(q)
  BY <1>0, <1>2, <1>4 DEF ToSet
<1>6. IsInjective(t)
  <2> SUFFICES ASSUME NEW i \in 1 .. (Len(q) + 1), NEW j \in 1 .. (Len(q) + 1), t[i] = t[j] PROVE i = j
    BY <1>3 DEF IsInjective
  <2>1. CASE i = 1 /\ j = 1 BY <2>1
  <2>2. CASE i = 1 /\ j # 1 BY <1>2, <1>4, <1>5, <2>2
  <2>3. CASE i # 1 /\ j = 1 BY <1>2, <1>4, <1>5, <2>3
  <2>4. CASE i # 1 /\ j # 1
    <3>1. i - 1 \in 1 .. Len(q) /\ j - 1 \in 1 .. Len(q) /\ q[i - 1] = q[j - 1] BY <1>2, <1>4, <2>4
    <3>2. i - 1 = j - 1 BY <1>0, <3>1 DEF IsInjective
    <3> QED BY <3>2
  <2> QED BY <2>1, <2>2, <2>3, <2>4
<1>7. ASSUME NEW y \in ToSet(q) PROVE y \in ToSet(t)
  <2>1. PICK i \in 1 .. Len(q) : y = q[i] BY <1>0 DEF ToSet
  <2>2. i + 1 \in 2 .. (Len(q) + 1) /\ (i + 1) - 1 = i /\ i + 1 \in 1 .. (Len(q) + 1) BY <1>0
  <2>3. t[i + 1] = y BY <1>2, <2>1, <2>2
  <2> QED BY <1>3, <2>2, <2>3 DEF ToSet
<1>8. x \in ToSet(t)
  <2>1. 1 \in DOMAIN t BY <1>0, <1>3
  <2> QED BY <1>2, <2>1 DEF ToSet
<1>9. \A y \in ToSet(t) : y = x \/ y \in ToSet(q)
  BY <1>2, <1>3, <1>4, <1>5 DEF ToSet
<1>10. ToSet(t) = ToSet(q) \cup {x} BY <1>7, <1>8, <1>9
<1> QED BY <1>2, <1>6, <1>10 DEF t

\* An element put at the end of a list that it is not on.
LEMMA AppendFacts ==
  ASSUME NEW S, NEW q \in Seq(S), IsInjective(q), NEW x \in S, x \notin ToSet(q)
  PROVE  /\ Append(q, x) \in Seq(S)
         /\ IsInjective(Append(q, x))
         /\ ToSet(Append(q, x)) = ToSet(q) \cup {x}
<1> DEFINE t == Append(q, x)
<1>0. Len(q) \in Nat /\ DOMAIN q = 1 .. Len(q) BY LenProperties
<1>1. /\ t \in Seq(S) /\ Len(t) = Len(q) + 1
      /\ \A i \in 1 .. Len(q) : t[i] = q[i]
      /\ t[Len(q) + 1] = x
  BY AppendProperties
<1>2. DOMAIN t = 1 .. (Len(q) + 1) BY <1>1, LenProperties
<1> HIDE DEF t
<1>3. \A i \in 1 .. (Len(q) + 1) : i \in 1 .. Len(q) \/ i = Len(q) + 1 BY <1>0
<1>4. \A i \in 1 .. Len(q) : t[i] # x BY <1>0, <1>1 DEF ToSet
<1>5. IsInjective(t)
  <2> SUFFICES ASSUME NEW i \in 1 .. (Len(q) + 1), NEW j \in 1 .. (Len(q) + 1), t[i] = t[j] PROVE i = j
    BY <1>2 DEF IsInjective
  <2>1. CASE i \in 1 .. Len(q) /\ j \in 1 .. Len(q) BY <1>0, <1>1, <2>1 DEF IsInjective
  <2>2. CASE i = Len(q) + 1 /\ j = Len(q) + 1 BY <2>2
  <2>3. CASE i \in 1 .. Len(q) /\ j = Len(q) + 1 BY <1>1, <1>4, <2>3
  <2>4. CASE i = Len(q) + 1 /\ j \in 1 .. Len(q) BY <1>1, <1>4, <2>4
  <2> QED BY <1>3, <2>1, <2>2, <2>3, <2>4
<1>6. ASSUME NEW y \in ToSet(q) PROVE y \in ToSet(t)
  <2>1. PICK i \in 1 .. Len(q) : y = q[i] BY <1>0 DEF ToSet
  <2>2. i \in 1 .. (Len(q) + 1) BY <1>0
  <2> QED BY <1>1, <1>2, <2>1, <2>2 DEF ToSet
<1>7. x \in ToSet(t)
  <2>1. Len(q) + 1 \in 1 .. (Len(q) + 1) BY <1>0
  <2> QED BY <1>1, <1>2, <2>1 DEF ToSet
<1>8. \A y \in ToSet(t) : y = x \/ y \in ToSet(q) BY <1>0, <1>1, <1>2, <1>3 DEF ToSet
<1>9. ToSet(t) = ToSet(q) \cup {x} BY <1>6, <1>7, <1>8
<1> QED BY <1>1, <1>5, <1>9 DEF t

\* A list without its first element.
LEMMA TailFacts ==
  ASSUME NEW S, NEW q \in Seq(S), IsInjective(q), q # <<>>
  PROVE  /\ Head(q) \in S /\ Head(q) \in ToSet(q)
         /\ Tail(q) \in Seq(S)
         /\ IsInjective(Tail(q))
         /\ ToSet(Tail(q)) = ToSet(q) \ {Head(q)}
<1> DEFINE t == Tail(q)
<1>0. Len(q) \in Nat \ {0} /\ DOMAIN q = 1 .. Len(q) BY LenProperties, EmptySeq
<1>1. /\ t \in Seq(S) /\ Len(t) = Len(q) - 1
      /\ \A i \in 1 .. (Len(q) - 1) : t[i] = q[i + 1]
      /\ Head(q) = q[1] /\ Head(q) \in S
  BY HeadTailProperties
<1>2. DOMAIN t = 1 .. (Len(q) - 1) BY <1>1, LenProperties
<1> HIDE DEF t
<1>3. \A i \in 1 .. Len(q) : i = 1 \/ (i - 1 \in 1 .. (Len(q) - 1) /\ (i - 1) + 1 = i) BY <1>0
<1>4. \A i \in 1 .. (Len(q) - 1) : i + 1 \in 1 .. Len(q) /\ i + 1 # 1 BY <1>0
<1>5. IsInjective(t)
  <2> SUFFICES ASSUME NEW i \in 1 .. (Len(q) - 1), NEW j \in 1 .. (Len(q) - 1), t[i] = t[j] PROVE i = j
    BY <1>2 DEF IsInjective
  <2>1. i + 1 = j + 1 BY <1>0, <1>1, <1>4, SMTT(30) DEF IsInjective
  <2> QED BY <2>1
<1>6. 1 \in 1 .. Len(q) BY <1>0
<1>7. Head(q) \in ToSet(q) BY <1>0, <1>1, <1>6 DEF ToSet
<1>8. ASSUME NEW y \in ToSet(t) PROVE y \in ToSet(q) /\ y # Head(q)
  <2>1. PICK i \in 1 .. (Len(q) - 1) : y = t[i] BY <1>2 DEF ToSet
  <2>2. y = q[i + 1] /\ i + 1 \in 1 .. Len(q) /\ i + 1 # 1 BY <1>1, <1>4, <2>1
  <2>3. y \in ToSet(q) BY <1>0, <2>2 DEF ToSet
  <2>4. q[i + 1] # q[1] BY <1>0, <1>6, <2>2 DEF IsInjective
  <2> QED BY <1>1, <2>2, <2>3, <2>4
<1>9. ASSUME NEW y \in ToSet(q), y # Head(q) PROVE y \in ToSet(t)
  <2>1. PICK i \in 1 .. Len(q) : y = q[i] BY <1>0 DEF ToSet
  <2>2. i - 1 \in 1 .. (Len(q) - 1) /\ (i - 1) + 1 = i BY <1>1, <1>3, <1>9, <2>1
  <2>3. t[i - 1] = y BY <1>1, <2>1, <2>2
  <2> QED BY <1>2, <2>2, <2>3 DEF ToSet
<1>10. ToSet(t) = ToSet(q) \ {Head(q)} BY <1>8, <1>9
<1> QED BY <1>1, <1>5, <1>7, <1>10 DEF t

(***************************************************************************)
(* Bounds and quotients.                                                    *)
(***************************************************************************)
\* The lesser and the greater of two integers.
LEMMA MinOfTwo ==
  ASSUME NEW a \in Int, NEW b \in Int
  PROVE  Min({a, b}) \in {a, b} /\ Min({a, b}) <= a /\ Min({a, b}) <= b
<1>1. \E m \in {a, b} : \A y \in {a, b} : m <= y
  <2>1. CASE a <= b BY <2>1
  <2>2. CASE b <= a BY <2>2
  <2> QED BY <2>1, <2>2
<1>2. Min({a, b}) \in {a, b} /\ \A y \in {a, b} : Min({a, b}) <= y BY <1>1, Zenon DEF Min
<1> QED BY <1>2

LEMMA MaxOfTwo ==
  ASSUME NEW a \in Int, NEW b \in Int
  PROVE  Max({a, b}) \in {a, b}
<1>1. \E m \in {a, b} : \A y \in {a, b} : m >= y
  <2>1. CASE a >= b BY <2>1
  <2>2. CASE b >= a BY <2>2
  <2> QED BY <2>1, <2>2
<1> QED BY <1>1, Zenon DEF Max

\* Quotients keep the order.
LEMMA DivMonotone ==
  ASSUME NEW n \in Nat \ {0}, NEW a \in Nat, NEW b \in Nat, a <= b
  PROVE  a \div n \in Nat /\ b \div n \in Nat /\ a \div n <= b \div n
<1>1. PICK p, q, r, s : p = a \div n /\ q = b \div n /\ r = a % n /\ s = b % n OBVIOUS
<1>2. p \in Nat /\ q \in Nat /\ r \in 0 .. (n - 1) /\ s \in 0 .. (n - 1) /\ a = n * p + r /\ b = n * q + s
  BY <1>1
<1>3. p <= q
  <2> SUFFICES ASSUME q + 1 <= p PROVE FALSE BY <1>2
  <2>1. n * (q + 1) <= n * p BY <1>2
  <2>2. n * (q + 1) = n * q + n /\ n * q \in Nat /\ n * p \in Nat BY <1>2
  <2> QED BY <1>2, <2>1, <2>2
<1> QED BY <1>1, <1>2, <1>3

===============================================================================
