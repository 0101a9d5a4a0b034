----------------------------- MODULE HashMapProofs -----------------------------
(***************************************************************************)
(* Proofs about HashMap for any keys, strings and hashes: the chained map is *)
(* a dictionary, whatever grew or failed, and its entries own their keys.    *)
(***************************************************************************)
EXTENDS HashMap, SeqLemmas

Bits == 0 .. MaxBits
Slots(bits) == 0 .. (2 ^ bits - 1)

LEMMA SlotsCount == ASSUME NEW b \in Bits PROVE b \in Nat /\ 2 ^ b \in Nat \ {0} /\ 0 \in Slots(b)
<1>1. b \in Nat /\ 2 ^ b \in Nat \ {0} BY PowerIsPositive, HashMapAssumption DEF Bits
<1> QED BY <1>1 DEF Slots

\* A hash leads into the array.
LEMMA HashInArray == ASSUME NEW b \in Bits, NEW p \in Ptr PROVE hash_bits(p, b) \in Slots(b)
<1>1. PICK c \in Nat : c = MaxBits - b /\ c + b = MaxBits BY HashMapAssumption DEF Bits
<1>2. 2 ^ c \in Nat \ {0} /\ 2 ^ b \in Nat \ {0} /\ b \in Nat BY SlotsCount, PowerIsPositive
<1>3. 2 ^ MaxBits = 2 ^ c * 2 ^ b
  <2>1. 2 ^ (c + b) = 2 ^ c * 2 ^ b BY <1>2, PowerSplits
  <2> QED BY <1>1, <2>1
<1>4. Hash[p] \in 0 .. (2 ^ MaxBits - 1) BY HashMapAssumption
<1>5. PICK d, n : d = 2 ^ c /\ n = 2 ^ b OBVIOUS
<1>6. d \in Nat \ {0} /\ n \in Nat \ {0} /\ Hash[p] \in 0 .. (d * n - 1) BY <1>2, <1>3, <1>4, <1>5
<1>7. Hash[p] \div d \in 0 .. (n - 1) BY <1>6, DivBelow
<1> QED BY <1>1, <1>5, <1>7 DEF Slots, hash_bits

(***************************************************************************)
(* Arrays whose chains hold each object once, in the chain of its key.       *)
(***************************************************************************)
Place(bs, b, i) == b \in DOMAIN bs /\ i \in 1 .. Len(bs[b])
ValuesIn(bs) == {p \in Ptr : \E b, i : Place(bs, b, i) /\ bs[b][i].value = p}

GoodChain(c, b, bits) ==
  /\ c \in Seq(hashmap_entry)
  /\ \A i \in 1 .. Len(c) : c[i].key = c[i].value /\ hash_bits(c[i].value, bits) = b
  /\ \A i, j \in 1 .. Len(c) : c[i].value = c[j].value => i = j

GoodChains(bs, bits) ==
  DOMAIN bs = Slots(bits) /\ bs = [b \in Slots(bits) |-> bs[b]] /\ \A b \in Slots(bits) : GoodChain(bs[b], b, bits)

LEMMA GoodIsTyped == ASSUME NEW bs, NEW bits, GoodChains(bs, bits) PROVE bs \in Chains(bits)
BY DEF GoodChains, GoodChain, Chains, Slots

\* An object is in the chain of its key, and only there.
LEMMA ValueAt ==
  ASSUME NEW bits, NEW bs, GoodChains(bs, bits), NEW p
  PROVE  p \in ValuesIn(bs) <=>
           p \in Ptr /\ hash_bits(p, bits) \in Slots(bits)
           /\ \E i \in 1 .. Len(bs[hash_bits(p, bits)]) : bs[hash_bits(p, bits)][i].value = p
<1>1. ASSUME p \in ValuesIn(bs)
      PROVE  p \in Ptr /\ hash_bits(p, bits) \in Slots(bits)
             /\ \E i \in 1 .. Len(bs[hash_bits(p, bits)]) : bs[hash_bits(p, bits)][i].value = p
  <2>1. PICK b, i : Place(bs, b, i) /\ bs[b][i].value = p BY <1>1 DEF ValuesIn
  <2>2. b \in Slots(bits) /\ i \in 1 .. Len(bs[b]) BY <2>1 DEF Place, GoodChains
  <2>3. hash_bits(p, bits) = b BY <2>1, <2>2 DEF GoodChains, GoodChain
  <2> QED BY <1>1, <2>1, <2>2, <2>3 DEF ValuesIn
<1>2. ASSUME p \in Ptr, hash_bits(p, bits) \in Slots(bits),
             NEW i \in 1 .. Len(bs[hash_bits(p, bits)]), bs[hash_bits(p, bits)][i].value = p
      PROVE  p \in ValuesIn(bs)
  <2>1. Place(bs, hash_bits(p, bits), i) BY <1>2 DEF Place, GoodChains
  <2> QED BY <1>2, <2>1 DEF ValuesIn
<1> QED BY <1>1, <1>2

ChainValues(c) == {c[i].value : i \in 1 .. Len(c)}

\* One chain is replaced.
LEMMA ChainSet ==
  ASSUME NEW bits, NEW bs, GoodChains(bs, bits), NEW b \in Slots(bits), NEW d, GoodChain(d, b, bits),
         NEW us, us = [bs EXCEPT ![b] = d]
  PROVE  /\ GoodChains(us, bits)
         /\ \A p : p \in ValuesIn(us) <=>
                     p \in Ptr /\ (IF hash_bits(p, bits) = b THEN p \in ChainValues(d) ELSE p \in ValuesIn(bs))
<1>1. GoodChains(us, bits) BY DEF GoodChains
<1>2. \A c \in Slots(bits) : us[c] = IF c = b THEN d ELSE bs[c] BY DEF GoodChains
<1>3. ASSUME NEW p PROVE p \in ValuesIn(us) <=>
             p \in Ptr /\ (IF hash_bits(p, bits) = b THEN p \in ChainValues(d) ELSE p \in ValuesIn(bs))
  <2>1. PICK h : h = hash_bits(p, bits) OBVIOUS
  <2>2. p \in ValuesIn(us) <=> p \in Ptr /\ h \in Slots(bits) /\ \E i \in 1 .. Len(us[h]) : us[h][i].value = p
    <3>1. PICK vs : vs = us OBVIOUS
    <3>2. GoodChains(vs, bits) BY <1>1, <3>1
    <3>3. p \in ValuesIn(vs) <=> p \in Ptr /\ h \in Slots(bits) /\ \E i \in 1 .. Len(vs[h]) : vs[h][i].value = p
      BY <2>1, <3>2, ValueAt
    <3> QED BY <3>1, <3>3, Zenon
  <2>3. p \in ValuesIn(bs) <=> p \in Ptr /\ h \in Slots(bits) /\ \E i \in 1 .. Len(bs[h]) : bs[h][i].value = p
    BY <2>1, ValueAt
  <2> QED BY <1>2, <2>1, <2>2, <2>3 DEF ChainValues
<1> QED BY <1>1, <1>3

LEMMA ChainIsStored ==
  ASSUME NEW bits, NEW bs, GoodChains(bs, bits), NEW b \in Slots(bits), NEW p \in Ptr, hash_bits(p, bits) = b
  PROVE  p \in ValuesIn(bs) <=> p \in ChainValues(bs[b])
BY ValueAt DEF ChainValues

\* An entry whose value owns its key.
Owned(e, p) == e \in hashmap_entry /\ e.key = p /\ e.value = p

\* hashmap_add_entry on a chain.
LEMMA ChainPush ==
  ASSUME NEW c, NEW b, NEW bits, GoodChain(c, b, bits), NEW p, NEW e, Owned(e, p), p \notin ChainValues(c),
         hash_bits(p, bits) = b, NEW d, d = hashmap_add_entry(c, e)
  PROVE  GoodChain(d, b, bits) /\ ChainValues(d) = ChainValues(c) \cup {p}
<1>1. c \in Seq(hashmap_entry) /\ e \in hashmap_entry /\ e.value = p /\ e.key = p BY DEF GoodChain, Owned
<1>2. PICK n \in Nat : n = Len(c) BY <1>1, LenProperties
<1>3. <<e>> \in Seq(hashmap_entry) /\ Len(<<e>>) = 1 /\ <<e>>[1] = e BY <1>1
<1>4. /\ d \in Seq(hashmap_entry) /\ Len(d) = 1 + n
      /\ \A i \in 1 .. (1 + n) : d[i] = IF i <= 1 THEN <<e>>[i] ELSE c[i - 1]
  BY <1>1, <1>2, <1>3, ConcatProperties DEF hashmap_add_entry
<1>5. d[1] = e BY <1>2, <1>3, <1>4
<1>6. \A i \in 2 .. (1 + n) : i - 1 \in 1 .. n /\ d[i] = c[i - 1] BY <1>2, <1>4
<1>7. \A i \in 1 .. n : c[i].key = c[i].value /\ hash_bits(c[i].value, bits) = b /\ c[i].value # p
  BY <1>2 DEF GoodChain, ChainValues
<1>8. \A i, j \in 1 .. n : c[i].value = c[j].value => i = j BY <1>2 DEF GoodChain
<1>9. \A i \in 1 .. (1 + n) : i = 1 \/ i \in 2 .. (1 + n) BY <1>2
<1>10. \A i \in 1 .. (1 + n) : d[i].key = d[i].value /\ hash_bits(d[i].value, bits) = b
  BY <1>1, <1>5, <1>6, <1>7, <1>9
<1>11. ASSUME NEW i \in 1 .. (1 + n), NEW j \in 1 .. (1 + n), d[i].value = d[j].value PROVE i = j
  <2>1. CASE i = 1 /\ j = 1 BY <2>1
  <2>2. CASE i = 1 /\ j # 1 BY <1>1, <1>5, <1>6, <1>7, <1>9, <1>11, <2>2
  <2>3. CASE i # 1 /\ j = 1 BY <1>1, <1>5, <1>6, <1>7, <1>9, <1>11, <2>3
  <2>4. CASE i # 1 /\ j # 1
    <3>1. i - 1 \in 1 .. n /\ j - 1 \in 1 .. n /\ c[i - 1].value = c[j - 1].value
      BY <1>6, <1>9, <1>11, <2>4
    <3>2. i - 1 = j - 1 BY <1>8, <3>1
    <3> QED BY <1>2, <3>2
  <2> QED BY <2>1, <2>2, <2>3, <2>4
<1>12. ChainValues(d) = ChainValues(c) \cup {p}
  <2>1. \A x \in ChainValues(d) : x \in ChainValues(c) \cup {p}
    BY <1>1, <1>2, <1>4, <1>5, <1>6, <1>9 DEF ChainValues
  <2>2. p \in ChainValues(d)
    <3>1. 1 \in 1 .. Len(d) BY <1>2, <1>4
    <3> QED BY <1>1, <1>5, <3>1 DEF ChainValues
  <2>3. ASSUME NEW i \in 1 .. n PROVE c[i].value \in ChainValues(d)
    <3>1. PICK k : k = i + 1 OBVIOUS
    <3>2. k \in 2 .. (1 + n) /\ k - 1 = i /\ k \in 1 .. Len(d) BY <1>2, <1>4, <3>1
    <3>3. d[k] = c[i] BY <1>6, <3>2
    <3> QED BY <3>2, <3>3 DEF ChainValues
  <2> QED BY <1>2, <2>1, <2>2, <2>3 DEF ChainValues
<1> QED BY <1>4, <1>10, <1>11, <1>12 DEF GoodChain

\* hashmap_del_entry on a chain.
LEMMA ChainDrop ==
  ASSUME NEW c, NEW b, NEW bits, GoodChain(c, b, bits), NEW a \in 1 .. Len(c),
         NEW d, d = hashmap_del_entry(c, a)
  PROVE  GoodChain(d, b, bits) /\ ChainValues(d) = ChainValues(c) \ {c[a].value}
<1>1. c \in Seq(hashmap_entry) BY DEF GoodChain
<1>2. PICK n \in Nat : n = Len(c) BY <1>1, LenProperties
<1>3. d = TakenOut(c, a) BY DEF hashmap_del_entry, TakenOut
<1>4. /\ d \in Seq(hashmap_entry) /\ Len(d) = n - 1
      /\ \A i \in 1 .. (n - 1) : Past(a, i) \in 1 .. n /\ Past(a, i) # a /\ d[i] = c[Past(a, i)]
  <2>1. /\ TakenOut(c, a) \in Seq(hashmap_entry) /\ Len(TakenOut(c, a)) = Len(c) - 1
        /\ \A i \in 1 .. (Len(c) - 1) :
             Past(a, i) \in 1 .. Len(c) /\ Past(a, i) # a /\ TakenOut(c, a)[i] = c[Past(a, i)]
    BY <1>1, SeqTakeOut
  <2> QED BY <1>2, <1>3, <2>1, Zenon
<1>5. /\ \A i, j \in 1 .. (n - 1) : Past(a, i) = Past(a, j) => i = j
      /\ \A i \in 1 .. n : i # a => \E j \in 1 .. (n - 1) : Past(a, j) = i
  BY <1>2, PastIsMonotone, ZenonT(60)
<1>6. \A i \in 1 .. n : c[i].key = c[i].value /\ hash_bits(c[i].value, bits) = b BY <1>2 DEF GoodChain
<1>7. \A i, j \in 1 .. n : c[i].value = c[j].value => i = j BY <1>2 DEF GoodChain
<1>8. GoodChain(d, b, bits)
  <2>1. \A i \in 1 .. (n - 1) : d[i].key = d[i].value /\ hash_bits(d[i].value, bits) = b BY <1>4, <1>6
  <2>2. ASSUME NEW i \in 1 .. (n - 1), NEW j \in 1 .. (n - 1), d[i].value = d[j].value PROVE i = j
    <3>1. Past(a, i) \in 1 .. n /\ Past(a, j) \in 1 .. n /\ c[Past(a, i)].value = c[Past(a, j)].value
      BY <1>4, <2>2
    <3>2. Past(a, i) = Past(a, j) BY <1>7, <3>1
    <3> QED BY <1>5, <3>2
  <2> QED BY <1>4, <2>1, <2>2 DEF GoodChain
<1>9. \A x \in ChainValues(d) : x \in ChainValues(c) \ {c[a].value}
  BY <1>2, <1>4, <1>7 DEF ChainValues
<1>10. ASSUME NEW i \in 1 .. n, i # a PROVE c[i].value \in ChainValues(d)
  <2>1. PICK j \in 1 .. (n - 1) : Past(a, j) = i BY <1>5, <1>10
  <2>2. d[j] = c[i] /\ j \in 1 .. Len(d) BY <1>4, <2>1
  <2> QED BY <2>2 DEF ChainValues
<1>11. \A x \in ChainValues(c) : x # c[a].value => x \in ChainValues(d) BY <1>2, <1>10 DEF ChainValues
<1> QED BY <1>8, <1>9, <1>11

\* An entry of a chain gets a new key and value.
LEMMA ChainOverwrite ==
  ASSUME NEW c, NEW b, NEW bits, GoodChain(c, b, bits), NEW a \in 1 .. Len(c), NEW p, NEW e, Owned(e, p),
         p \notin ChainValues(c), hash_bits(p, bits) = b, NEW d, d = [c EXCEPT ![a] = e]
  PROVE  GoodChain(d, b, bits) /\ ChainValues(d) = (ChainValues(c) \ {c[a].value}) \cup {p}
<1>1. c \in Seq(hashmap_entry) /\ e \in hashmap_entry /\ e.value = p /\ e.key = p BY DEF GoodChain, Owned
<1>2. PICK n \in Nat : n = Len(c) BY <1>1, LenProperties
<1>3. /\ d \in Seq(hashmap_entry) /\ Len(d) = n
      /\ \A i \in 1 .. n : d[i] = IF i = a THEN e ELSE c[i]
  BY <1>1, <1>2, ExceptSeq
<1>4. \A i \in 1 .. n : c[i].key = c[i].value /\ hash_bits(c[i].value, bits) = b /\ c[i].value # p
  BY <1>2 DEF GoodChain, ChainValues
<1>5. \A i, j \in 1 .. n : c[i].value = c[j].value => i = j BY <1>2 DEF GoodChain
<1>6. a \in 1 .. n BY <1>2
<1>7. GoodChain(d, b, bits)
  <2>1. \A i \in 1 .. n : d[i].key = d[i].value /\ hash_bits(d[i].value, bits) = b BY <1>1, <1>3, <1>4
  <2>2. \A i, j \in 1 .. n : d[i].value = d[j].value => i = j BY <1>1, <1>3, <1>4, <1>5
  <2> QED BY <1>3, <2>1, <2>2 DEF GoodChain
<1>8. \A x \in ChainValues(d) : x \in (ChainValues(c) \ {c[a].value}) \cup {p}
  BY <1>1, <1>2, <1>3, <1>5, <1>6 DEF ChainValues
<1>9. \A x \in (ChainValues(c) \ {c[a].value}) \cup {p} : x \in ChainValues(d)
  BY <1>1, <1>2, <1>3, <1>6 DEF ChainValues
<1> QED BY <1>7, <1>8, <1>9

(***************************************************************************)
(* The order of the objects of one key.                                     *)
(***************************************************************************)
ChainBefore(c, o, q) == \E i, j \in 1 .. Len(c) : i < j /\ c[i].value = o /\ c[j].value = q

\* For the array bs, what Ahead is for buckets.
AheadIn(bs, bits) ==
  {w \in Ptr \X Ptr :
     /\ Str[w[1]] = Str[w[2]] /\ hash_bits(w[1], bits) \in Slots(bits)
     /\ ChainBefore(bs[hash_bits(w[1], bits)], w[1], w[2])}

\* Objects of one key share a chain.
LEMMA SameChain ==
  ASSUME NEW o \in Ptr, NEW q \in Ptr, Str[o] = Str[q], NEW bits PROVE hash_bits(o, bits) = hash_bits(q, bits)
BY HashMapAssumption DEF hash_bits

LEMMA AheadPair ==
  ASSUME NEW bits, NEW bs, NEW o, NEW q
  PROVE  <<o, q>> \in AheadIn(bs, bits) <=>
           /\ o \in Ptr /\ q \in Ptr /\ Str[o] = Str[q] /\ hash_bits(o, bits) \in Slots(bits)
           /\ ChainBefore(bs[hash_bits(o, bits)], o, q)
BY DEF AheadIn

LEMMA PairsEqual ==
  ASSUME NEW S, NEW T, S \subseteq Ptr \X Ptr, T \subseteq Ptr \X Ptr,
         \A x, y \in Ptr : <<x, y>> \in S <=> <<x, y>> \in T
  PROVE  S = T
OBVIOUS

LEMMA AheadIsStored ==
  ASSUME NEW bits, NEW bs, GoodChains(bs, bits), NEW o, NEW q, <<o, q>> \in AheadIn(bs, bits)
  PROVE  o \in ValuesIn(bs) /\ q \in ValuesIn(bs) /\ o # q /\ <<q, o>> \notin AheadIn(bs, bits)
<1>1. PICK h : h = hash_bits(o, bits) OBVIOUS
<1>2. o \in Ptr /\ q \in Ptr /\ Str[o] = Str[q] /\ h \in Slots(bits) /\ ChainBefore(bs[h], o, q)
  BY <1>1, AheadPair
<1>3. PICK i, j \in 1 .. Len(bs[h]) : i < j /\ bs[h][i].value = o /\ bs[h][j].value = q
  BY <1>2 DEF ChainBefore
<1>4. hash_bits(q, bits) = h BY <1>1, <1>2, SameChain
<1>5. o \in ValuesIn(bs) /\ q \in ValuesIn(bs) BY <1>1, <1>2, <1>3, <1>4, ValueAt
<1>6. \A k, l \in 1 .. Len(bs[h]) : bs[h][k].value = bs[h][l].value => k = l
  BY <1>2 DEF GoodChains, GoodChain
<1>7. bs[h] \in Seq(hashmap_entry) BY <1>2 DEF GoodChains, GoodChain
<1>8. Len(bs[h]) \in Nat BY <1>7, LenProperties
<1>9. o # q BY <1>3, <1>6, <1>8
<1>10. ASSUME <<q, o>> \in AheadIn(bs, bits) PROVE FALSE
  <2>1. ChainBefore(bs[h], q, o) BY <1>4, <1>10, AheadPair
  <2>2. PICK k, l \in 1 .. Len(bs[h]) : k < l /\ bs[h][k].value = q /\ bs[h][l].value = o
    BY <2>1 DEF ChainBefore
  <2>3. k = j /\ l = i BY <1>3, <1>6, <2>2
  <2> QED BY <1>3, <1>8, <2>2, <2>3
<1> QED BY <1>5, <1>9, <1>10

\* One chain is replaced.
OthersKept(bs, us, b, bits) == \A h \in Slots(bits) : h # b => us[h] = bs[h]

LEMMA AheadSet ==
  ASSUME NEW bits, NEW bs, NEW us, NEW b \in Slots(bits), OthersKept(bs, us, b, bits),
         NEW o \in Ptr, NEW q \in Ptr
  PROVE  /\ hash_bits(o, bits) = b => (<<o, q>> \in AheadIn(us, bits) <=> Str[o] = Str[q] /\ ChainBefore(us[b], o, q))
         /\ hash_bits(o, bits) # b => (<<o, q>> \in AheadIn(us, bits) <=> <<o, q>> \in AheadIn(bs, bits))
<1>1. PICK h : h = hash_bits(o, bits) OBVIOUS
<1>2. <<o, q>> \in AheadIn(us, bits) <=> Str[o] = Str[q] /\ h \in Slots(bits) /\ ChainBefore(us[h], o, q)
  BY <1>1, AheadPair
<1>3. <<o, q>> \in AheadIn(bs, bits) <=> Str[o] = Str[q] /\ h \in Slots(bits) /\ ChainBefore(bs[h], o, q)
  BY <1>1, AheadPair
<1> QED BY <1>1, <1>2, <1>3 DEF OthersKept

LEMMA PushOrder ==
  ASSUME NEW c \in Seq(hashmap_entry), NEW p, NEW e, Owned(e, p), NEW d, d = hashmap_add_entry(c, e), NEW o, NEW q
  PROVE  ChainBefore(d, o, q) <=> ChainBefore(c, o, q) \/ (o = p /\ q \in ChainValues(c))
<1>1. e \in hashmap_entry /\ e.value = p BY DEF Owned
<1>2. PICK n \in Nat : n = Len(c) BY LenProperties
<1>3. <<e>> \in Seq(hashmap_entry) /\ Len(<<e>>) = 1 /\ <<e>>[1] = e BY <1>1
<1>4. /\ Len(d) = 1 + n
      /\ \A i \in 1 .. (1 + n) : d[i] = IF i <= 1 THEN <<e>>[i] ELSE c[i - 1]
  BY <1>2, <1>3, ConcatProperties DEF hashmap_add_entry
<1>5. d[1] = e BY <1>2, <1>3, <1>4
<1>6. \A i \in 2 .. (1 + n) : i - 1 \in 1 .. n /\ d[i] = c[i - 1] BY <1>2, <1>4
<1>7. \A i \in 1 .. n : i + 1 \in 2 .. (1 + n) /\ d[i + 1] = c[i]
  <2>1. \A i \in 1 .. n : i + 1 \in 2 .. (1 + n) /\ (i + 1) - 1 = i BY <1>2
  <2> QED BY <1>6, <2>1
<1>8. ASSUME ChainBefore(d, o, q) PROVE ChainBefore(c, o, q) \/ (o = p /\ q \in ChainValues(c))
  <2>1. PICK i, j \in 1 .. (1 + n) : i < j /\ d[i].value = o /\ d[j].value = q
    BY <1>4, <1>8 DEF ChainBefore
  <2>2. j - 1 \in 1 .. n /\ d[j] = c[j - 1] BY <1>2, <1>6, <2>1
  <2>3. CASE i = 1 BY <1>1, <1>2, <1>5, <2>1, <2>2, <2>3 DEF ChainValues
  <2>4. CASE i # 1
    <3>1. i - 1 \in 1 .. n /\ d[i] = c[i - 1] /\ i - 1 < j - 1 BY <1>2, <1>6, <2>1, <2>4
    <3> QED BY <1>2, <2>1, <2>2, <3>1 DEF ChainBefore
  <2> QED BY <2>3, <2>4
<1>9. ASSUME ChainBefore(c, o, q) PROVE ChainBefore(d, o, q)
  <2>1. PICK i, j \in 1 .. n : i < j /\ c[i].value = o /\ c[j].value = q BY <1>2, <1>9 DEF ChainBefore
  <2>2. PICK k, l : k = i + 1 /\ l = j + 1 OBVIOUS
  <2>3. k \in 1 .. Len(d) /\ l \in 1 .. Len(d) /\ k < l BY <1>2, <1>4, <2>1, <2>2
  <2>4. d[k].value = o /\ d[l].value = q BY <1>7, <2>1, <2>2
  <2> QED BY <2>3, <2>4 DEF ChainBefore
<1>10. ASSUME o = p, q \in ChainValues(c) PROVE ChainBefore(d, o, q)
  <2>1. PICK j \in 1 .. n : c[j].value = q BY <1>2, <1>10 DEF ChainValues
  <2>2. PICK k, l : k = 1 /\ l = j + 1 OBVIOUS
  <2>3. k \in 1 .. Len(d) /\ l \in 1 .. Len(d) /\ k < l BY <1>2, <1>4, <2>1, <2>2
  <2>4. d[k].value = o /\ d[l].value = q BY <1>1, <1>5, <1>7, <1>10, <2>1, <2>2
  <2> QED BY <2>3, <2>4 DEF ChainBefore
<1> QED BY <1>8, <1>9, <1>10

LEMMA DropOrder ==
  ASSUME NEW c, NEW b, NEW bits, GoodChain(c, b, bits), NEW a \in 1 .. Len(c), NEW d, d = hashmap_del_entry(c, a),
         NEW o, NEW q
  PROVE  ChainBefore(d, o, q) <=> ChainBefore(c, o, q) /\ o # c[a].value /\ q # c[a].value
<1>1. c \in Seq(hashmap_entry) BY DEF GoodChain
<1>2. PICK n \in Nat : n = Len(c) BY <1>1, LenProperties
<1>3. d = TakenOut(c, a) BY DEF hashmap_del_entry, TakenOut
<1>4. /\ Len(d) = n - 1
      /\ \A i \in 1 .. (n - 1) : Past(a, i) \in 1 .. n /\ Past(a, i) # a /\ d[i] = c[Past(a, i)]
  <2>1. /\ TakenOut(c, a) \in Seq(hashmap_entry) /\ Len(TakenOut(c, a)) = Len(c) - 1
        /\ \A i \in 1 .. (Len(c) - 1) :
             Past(a, i) \in 1 .. Len(c) /\ Past(a, i) # a /\ TakenOut(c, a)[i] = c[Past(a, i)]
    BY <1>1, SeqTakeOut
  <2> QED BY <1>2, <1>3, <2>1, Zenon
<1>5. a \in 1 .. n BY <1>2
<1>6. /\ \A i, j \in 1 .. (n - 1) : i <= j => Past(a, i) <= Past(a, j)
      /\ \A i, j \in 1 .. (n - 1) : Past(a, i) = Past(a, j) => i = j
      /\ \A i \in 1 .. n : i # a => \E j \in 1 .. (n - 1) : Past(a, j) = i
  BY <1>5, PastIsMonotone, ZenonT(60)
<1>7. \A i, j \in 1 .. n : c[i].value = c[j].value => i = j BY <1>2 DEF GoodChain
<1>8. ASSUME ChainBefore(d, o, q) PROVE ChainBefore(c, o, q) /\ o # c[a].value /\ q # c[a].value
  <2>1. PICK i, j \in 1 .. (n - 1) : i < j /\ d[i].value = o /\ d[j].value = q
    BY <1>4, <1>8 DEF ChainBefore
  <2>2. PICK k, l : k = Past(a, i) /\ l = Past(a, j) OBVIOUS
  <2>3. k \in 1 .. n /\ l \in 1 .. n /\ k # a /\ l # a /\ c[k].value = o /\ c[l].value = q BY <1>4, <2>1, <2>2
  <2>4. k <= l /\ k # l BY <1>2, <1>6, <2>1, <2>2
  <2>5. k < l BY <1>2, <2>3, <2>4
  <2>6. ChainBefore(c, o, q) BY <1>2, <2>3, <2>5 DEF ChainBefore
  <2> QED BY <1>5, <1>7, <2>3, <2>6
<1>9. ASSUME ChainBefore(c, o, q), o # c[a].value, q # c[a].value PROVE ChainBefore(d, o, q)
  <2>1. PICK k, l \in 1 .. n : k < l /\ c[k].value = o /\ c[l].value = q BY <1>2, <1>9 DEF ChainBefore
  <2>2. k # a /\ l # a BY <1>9, <2>1
  <2>3. PICK i \in 1 .. (n - 1) : Past(a, i) = k BY <1>6, <2>1, <2>2
  <2>4. PICK j \in 1 .. (n - 1) : Past(a, j) = l BY <1>6, <2>1, <2>2
  <2>5. i < j
    <3>1. j <= i => l <= k BY <1>6, <2>3, <2>4
    <3> QED BY <1>2, <2>1, <3>1
  <2>6. d[i].value = o /\ d[j].value = q BY <1>4, <2>1, <2>3, <2>4
  <2> QED BY <1>2, <1>4, <2>5, <2>6 DEF ChainBefore
<1> QED BY <1>8, <1>9

LEMMA OverwriteOrder ==
  ASSUME NEW c, NEW b, NEW bits, GoodChain(c, b, bits), NEW a \in 1 .. Len(c), NEW p, NEW e, Owned(e, p),
         p \notin ChainValues(c), NEW d, d = [c EXCEPT ![a] = e], NEW old, old = c[a].value, NEW o, NEW q
  PROVE  ChainBefore(d, o, q) <=>
           \/ o = p /\ ChainBefore(c, old, q)
           \/ q = p /\ ChainBefore(c, o, old)
           \/ o # old /\ q # old /\ ChainBefore(c, o, q)
<1>1. c \in Seq(hashmap_entry) /\ e \in hashmap_entry /\ e.value = p BY DEF GoodChain, Owned
<1>2. PICK n \in Nat : n = Len(c) BY <1>1, LenProperties
<1>3. Len(d) = n /\ \A i \in 1 .. n : d[i] = IF i = a THEN e ELSE c[i]
  BY <1>1, <1>2, ExceptSeq
<1>4. \A i \in 1 .. n : c[i].value # p BY <1>2 DEF ChainValues
<1>5. \A i, j \in 1 .. n : c[i].value = c[j].value => i = j BY <1>2 DEF GoodChain
<1>6. a \in 1 .. n BY <1>2
<1>7. \A i \in 1 .. n : d[i].value = IF i = a THEN p ELSE c[i].value BY <1>1, <1>3
<1>8. \A x, y : ChainBefore(c, x, y) <=> \E i, j \in 1 .. n : i < j /\ c[i].value = x /\ c[j].value = y
  BY <1>2 DEF ChainBefore
<1>9. ChainBefore(d, o, q) <=> \E i, j \in 1 .. n : i < j /\ d[i].value = o /\ d[j].value = q
  BY <1>3 DEF ChainBefore
<1>10. ASSUME ChainBefore(d, o, q)
       PROVE  \/ o = p /\ ChainBefore(c, old, q)
              \/ q = p /\ ChainBefore(c, o, old)
              \/ o # old /\ q # old /\ ChainBefore(c, o, q)
  <2>1. PICK i, j \in 1 .. n : i < j /\ d[i].value = o /\ d[j].value = q BY <1>9, <1>10
  <2>2. CASE i = a
    <3>1. j # a BY <1>2, <2>1, <2>2
    <3> QED BY <1>7, <1>8, <2>1, <2>2, <3>1
  <2>3. CASE j = a
    <3>1. i # a BY <1>2, <2>1, <2>3
    <3> QED BY <1>7, <1>8, <2>1, <2>3, <3>1
  <2>4. CASE i # a /\ j # a
    <3>1. c[i].value = o /\ c[j].value = q BY <1>7, <2>1, <2>4
    <3>2. o # old /\ q # old BY <1>5, <1>6, <2>4, <3>1
    <3> QED BY <1>8, <2>1, <3>1, <3>2
  <2> QED BY <2>2, <2>3, <2>4
<1>11. ASSUME o = p, ChainBefore(c, old, q) PROVE ChainBefore(d, o, q)
  <2>1. PICK i, j \in 1 .. n : i < j /\ c[i].value = old /\ c[j].value = q BY <1>8, <1>11
  <2>2. i = a /\ j # a BY <1>2, <1>5, <1>6, <2>1
  <2> QED BY <1>7, <1>9, <1>11, <2>1, <2>2
<1>12. ASSUME q = p, ChainBefore(c, o, old) PROVE ChainBefore(d, o, q)
  <2>1. PICK i, j \in 1 .. n : i < j /\ c[i].value = o /\ c[j].value = old BY <1>8, <1>12
  <2>2. j = a /\ i # a BY <1>2, <1>5, <1>6, <2>1
  <2> QED BY <1>7, <1>9, <1>12, <2>1, <2>2
<1>13. ASSUME o # old, q # old, ChainBefore(c, o, q) PROVE ChainBefore(d, o, q)
  <2>1. PICK i, j \in 1 .. n : i < j /\ c[i].value = o /\ c[j].value = q BY <1>8, <1>13
  <2>2. i # a /\ j # a BY <1>13, <2>1
  <2> QED BY <1>7, <1>9, <2>1, <2>2
<1> QED BY <1>10, <1>11, <1>12, <1>13

\* The array bs with entry e in front of chain b, without entry a of chain b,
\* and with e in its place.
Pushed(bs, b, e) == [bs EXCEPT ![b] = hashmap_add_entry(bs[b], e)]
Dropped(bs, b, a) == [bs EXCEPT ![b] = hashmap_del_entry(bs[b], a)]
Written(bs, b, a, e) == [bs EXCEPT ![b] = [bs[b] EXCEPT ![a] = e]]

LEMMA ArrayPush ==
  ASSUME NEW bits \in Bits, NEW bs, GoodChains(bs, bits), NEW p \in Ptr, NEW e, Owned(e, p), p \notin ValuesIn(bs),
         NEW b, b = hash_bits(p, bits), NEW us, us = Pushed(bs, b, e)
  PROVE  GoodChains(us, bits) /\ ValuesIn(us) = ValuesIn(bs) \cup {p}
<1>1. b \in Slots(bits) BY HashInArray
<1>2. PICK c, d : c = bs[b] /\ d = hashmap_add_entry(c, e) OBVIOUS
<1>3. GoodChain(c, b, bits) BY <1>1, <1>2 DEF GoodChains
<1>4. \A x \in Ptr : hash_bits(x, bits) = b => (x \in ValuesIn(bs) <=> x \in ChainValues(c)) BY <1>1, <1>2, ChainIsStored
<1>5. p \notin ChainValues(c) BY <1>4
<1>6. GoodChain(d, b, bits) /\ ChainValues(d) = ChainValues(c) \cup {p} BY <1>2, <1>3, <1>5, ChainPush
<1>7. us = [bs EXCEPT ![b] = d] BY <1>2 DEF Pushed
<1>8. /\ GoodChains(us, bits)
      /\ \A x : x \in ValuesIn(us) <=>
                  x \in Ptr /\ (IF hash_bits(x, bits) = b THEN x \in ChainValues(d) ELSE x \in ValuesIn(bs))
  BY <1>1, <1>6, <1>7, ChainSet
<1>9. \A x : x \in ValuesIn(bs) => x \in Ptr BY DEF ValuesIn
<1> QED BY <1>4, <1>6, <1>8, <1>9

LEMMA ArrayDrop ==
  ASSUME NEW bits \in Bits, NEW bs, GoodChains(bs, bits), NEW b \in Slots(bits), NEW a \in 1 .. Len(bs[b]),
         NEW us, us = Dropped(bs, b, a)
  PROVE  GoodChains(us, bits) /\ ValuesIn(us) = ValuesIn(bs) \ {bs[b][a].value}
<1>1. PICK c, d, o : c = bs[b] /\ d = hashmap_del_entry(c, a) /\ o = c[a].value OBVIOUS
<1>2. GoodChain(c, b, bits) /\ a \in 1 .. Len(c) BY <1>1 DEF GoodChains
<1>3. \A x \in Ptr : hash_bits(x, bits) = b => (x \in ValuesIn(bs) <=> x \in ChainValues(c)) BY <1>1, ChainIsStored
<1>4. GoodChain(d, b, bits) /\ ChainValues(d) = ChainValues(c) \ {o} BY <1>1, <1>2, ChainDrop
<1>5. us = [bs EXCEPT ![b] = d] BY <1>1 DEF Dropped
<1>6. /\ GoodChains(us, bits)
      /\ \A x : x \in ValuesIn(us) <=>
                  x \in Ptr /\ (IF hash_bits(x, bits) = b THEN x \in ChainValues(d) ELSE x \in ValuesIn(bs))
  BY <1>4, <1>5, ChainSet
<1>7. \A x : x \in ValuesIn(bs) => x \in Ptr BY DEF ValuesIn
<1>8. hash_bits(o, bits) = b BY <1>1, <1>2 DEF GoodChain
<1>9. ValuesIn(us) = ValuesIn(bs) \ {o} BY <1>3, <1>4, <1>6, <1>7, <1>8
<1> QED BY <1>1, <1>6, <1>9

LEMMA ArrayOverwrite ==
  ASSUME NEW bits \in Bits, NEW bs, GoodChains(bs, bits), NEW p \in Ptr, NEW e, Owned(e, p), p \notin ValuesIn(bs),
         NEW b, b = hash_bits(p, bits), NEW a \in 1 .. Len(bs[b]),
         NEW us, us = Written(bs, b, a, e)
  PROVE  GoodChains(us, bits) /\ ValuesIn(us) = (ValuesIn(bs) \ {bs[b][a].value}) \cup {p}
<1>1. b \in Slots(bits) BY HashInArray
<1>2. PICK c, d, o : c = bs[b] /\ d = [c EXCEPT ![a] = e] /\ o = c[a].value OBVIOUS
<1>3. GoodChain(c, b, bits) /\ a \in 1 .. Len(c) BY <1>1, <1>2 DEF GoodChains
<1>4. \A x \in Ptr : hash_bits(x, bits) = b => (x \in ValuesIn(bs) <=> x \in ChainValues(c)) BY <1>1, <1>2, ChainIsStored
<1>5. p \notin ChainValues(c) BY <1>4
<1>6. GoodChain(d, b, bits) /\ ChainValues(d) = (ChainValues(c) \ {o}) \cup {p} BY <1>2, <1>3, <1>5, ChainOverwrite
<1>7. us = [bs EXCEPT ![b] = d] BY <1>2 DEF Written
<1>8. /\ GoodChains(us, bits)
      /\ \A x : x \in ValuesIn(us) <=>
                  x \in Ptr /\ (IF hash_bits(x, bits) = b THEN x \in ChainValues(d) ELSE x \in ValuesIn(bs))
  BY <1>1, <1>6, <1>7, ChainSet
<1>9. \A x : x \in ValuesIn(bs) => x \in Ptr BY DEF ValuesIn
<1>10. hash_bits(o, bits) = b BY <1>2, <1>3 DEF GoodChain
<1>11. ValuesIn(us) = (ValuesIn(bs) \ {o}) \cup {p} BY <1>4, <1>6, <1>8, <1>9, <1>10
<1> QED BY <1>2, <1>8, <1>11

\* What that does to the order: p comes first, o leaves, and p takes the place
\* of o, which was in front.
LEMMA ArrayPushOrder ==
  ASSUME NEW bits \in Bits, NEW bs, GoodChains(bs, bits), NEW p \in Ptr, NEW e, Owned(e, p), p \notin ValuesIn(bs),
         NEW b, b = hash_bits(p, bits), NEW us, us = Pushed(bs, b, e)
  PROVE  AheadIn(us, bits) = AheadIn(bs, bits) \cup {<<p, q>> : q \in {x \in ValuesIn(bs) : Str[x] = Str[p]}}
<1>1. b \in Slots(bits) BY HashInArray
<1>2. PICK c, d : c = bs[b] /\ d = hashmap_add_entry(c, e) OBVIOUS
<1>3. c \in Seq(hashmap_entry) BY <1>1, <1>2 DEF GoodChains, GoodChain
<1>4. \A x \in Ptr : hash_bits(x, bits) = b => (x \in ValuesIn(bs) <=> x \in ChainValues(c)) BY <1>1, <1>2, ChainIsStored
<1>5. us = [bs EXCEPT ![b] = d] BY <1>2 DEF Pushed
<1>6. PICK T : T = AheadIn(bs, bits) \cup {<<p, q>> : q \in {x \in ValuesIn(bs) : Str[x] = Str[p]}} OBVIOUS
<1>7. us[b] = d /\ OthersKept(bs, us, b, bits) BY <1>1, <1>5 DEF GoodChains, OthersKept
<1>8. ASSUME NEW x \in Ptr, NEW y \in Ptr PROVE <<x, y>> \in AheadIn(us, bits) <=> <<x, y>> \in T
  <2>1. <<x, y>> \in T <=> <<x, y>> \in AheadIn(bs, bits) \/ (x = p /\ y \in ValuesIn(bs) /\ Str[y] = Str[p]) BY <1>6
  <2>2. /\ hash_bits(x, bits) = b => (<<x, y>> \in AheadIn(us, bits) <=> Str[x] = Str[y] /\ ChainBefore(d, x, y))
        /\ hash_bits(x, bits) # b => (<<x, y>> \in AheadIn(us, bits) <=> <<x, y>> \in AheadIn(bs, bits))
    BY <1>1, <1>7, AheadSet
  <2>3. CASE hash_bits(x, bits) # b BY <2>1, <2>2, <2>3
  <2>4. CASE hash_bits(x, bits) = b
    <3>1. <<x, y>> \in AheadIn(bs, bits) <=> Str[x] = Str[y] /\ ChainBefore(c, x, y)
      BY <1>1, <1>2, <2>4, AheadPair
    <3>2. ChainBefore(d, x, y) <=> ChainBefore(c, x, y) \/ (x = p /\ y \in ChainValues(c)) BY <1>2, <1>3, PushOrder
    <3>3. Str[x] = Str[y] => hash_bits(y, bits) = b BY <2>4, SameChain
    <3> QED BY <1>4, <2>1, <2>2, <2>4, <3>1, <3>2, <3>3
  <2> QED BY <2>3, <2>4
<1>9. AheadIn(us, bits) \subseteq Ptr \X Ptr /\ AheadIn(bs, bits) \subseteq Ptr \X Ptr /\ ValuesIn(bs) \subseteq Ptr
  BY DEF AheadIn, ValuesIn
<1>10. T \subseteq Ptr \X Ptr BY <1>6, <1>9
<1>11. AheadIn(us, bits) = T BY <1>8, <1>9, <1>10, PairsEqual
<1> QED BY <1>6, <1>11

LEMMA ArrayDropOrder ==
  ASSUME NEW bits \in Bits, NEW bs, GoodChains(bs, bits), NEW b \in Slots(bits), NEW a \in 1 .. Len(bs[b]),
         NEW us, us = Dropped(bs, b, a), NEW o, o = bs[b][a].value
  PROVE  AheadIn(us, bits) = {w \in AheadIn(bs, bits) : w[1] # o /\ w[2] # o}
<1>1. PICK c, d : c = bs[b] /\ d = hashmap_del_entry(c, a) OBVIOUS
<1>2. GoodChain(c, b, bits) /\ a \in 1 .. Len(c) BY <1>1 DEF GoodChains
<1>3. us = [bs EXCEPT ![b] = d] BY <1>1 DEF Dropped
<1>4. hash_bits(o, bits) = b BY <1>1, <1>2 DEF GoodChain
<1>5. PICK T : T = {w \in AheadIn(bs, bits) : w[1] # o /\ w[2] # o} OBVIOUS
<1>6. us[b] = d /\ OthersKept(bs, us, b, bits) BY <1>3 DEF GoodChains, OthersKept
<1>7. ASSUME NEW x \in Ptr, NEW y \in Ptr PROVE <<x, y>> \in AheadIn(us, bits) <=> <<x, y>> \in T
  <2>1. <<x, y>> \in T <=> <<x, y>> \in AheadIn(bs, bits) /\ x # o /\ y # o BY <1>5
  <2>2. /\ hash_bits(x, bits) = b => (<<x, y>> \in AheadIn(us, bits) <=> Str[x] = Str[y] /\ ChainBefore(d, x, y))
        /\ hash_bits(x, bits) # b => (<<x, y>> \in AheadIn(us, bits) <=> <<x, y>> \in AheadIn(bs, bits))
    BY <1>6, AheadSet
  <2>3. CASE hash_bits(x, bits) # b
    <3>1. Str[x] = Str[y] => hash_bits(y, bits) # b BY <2>3, SameChain
    <3>2. <<x, y>> \in AheadIn(bs, bits) => Str[x] = Str[y] BY AheadPair
    <3> QED BY <1>4, <2>1, <2>2, <2>3, <3>1, <3>2
  <2>4. CASE hash_bits(x, bits) = b
    <3>1. <<x, y>> \in AheadIn(bs, bits) <=> Str[x] = Str[y] /\ ChainBefore(c, x, y)
      BY <1>1, <2>4, AheadPair
    <3>2. ChainBefore(d, x, y) <=> ChainBefore(c, x, y) /\ x # c[a].value /\ y # c[a].value BY <1>1, <1>2, DropOrder
    <3> QED BY <1>1, <2>1, <2>2, <2>4, <3>1, <3>2
  <2> QED BY <2>3, <2>4
<1>8. AheadIn(us, bits) \subseteq Ptr \X Ptr /\ AheadIn(bs, bits) \subseteq Ptr \X Ptr BY DEF AheadIn
<1>9. T \subseteq Ptr \X Ptr BY <1>5, <1>8
<1>10. AheadIn(us, bits) = T BY <1>7, <1>8, <1>9, PairsEqual
<1> QED BY <1>5, <1>10

LEMMA ArrayOverwriteOrder ==
  ASSUME NEW bits \in Bits, NEW bs, GoodChains(bs, bits), NEW p \in Ptr, NEW e, Owned(e, p), p \notin ValuesIn(bs),
         NEW b, b = hash_bits(p, bits), NEW a \in 1 .. Len(bs[b]),
         NEW us, us = Written(bs, b, a, e), NEW o \in Ptr, o = bs[b][a].value, Str[o] = Str[p],
         \A q \in ValuesIn(bs) \ {o} : Str[q] = Str[p] => <<o, q>> \in AheadIn(bs, bits)
  PROVE  AheadIn(us, bits) = {w \in AheadIn(bs, bits) : w[1] # o /\ w[2] # o}
                             \cup {<<p, q>> : q \in {x \in ValuesIn(bs) : Str[x] = Str[p]} \ {o}}
<1>1. b \in Slots(bits) BY HashInArray
<1>2. PICK c, d : c = bs[b] /\ d = [c EXCEPT ![a] = e] OBVIOUS
<1>3. GoodChain(c, b, bits) /\ a \in 1 .. Len(c) BY <1>1, <1>2 DEF GoodChains
<1>4. \A x \in Ptr : hash_bits(x, bits) = b => (x \in ValuesIn(bs) <=> x \in ChainValues(c)) BY <1>1, <1>2, ChainIsStored
<1>5. p \notin ChainValues(c) BY <1>4
<1>6. us = [bs EXCEPT ![b] = d] BY <1>2 DEF Written
<1>7. PICK T : T = {w \in AheadIn(bs, bits) : w[1] # o /\ w[2] # o}
                   \cup {<<p, q>> : q \in {x \in ValuesIn(bs) : Str[x] = Str[p]} \ {o}} OBVIOUS
<1>8. hash_bits(o, bits) = b BY <1>2, <1>3 DEF GoodChain
<1>9. us[b] = d /\ OthersKept(bs, us, b, bits) BY <1>1, <1>6 DEF GoodChains, OthersKept
<1>10. ASSUME NEW x \in Ptr, NEW y \in Ptr PROVE <<x, y>> \in AheadIn(us, bits) <=> <<x, y>> \in T
  <2>1. <<x, y>> \in T <=> \/ <<x, y>> \in AheadIn(bs, bits) /\ x # o /\ y # o
                           \/ x = p /\ y \in ValuesIn(bs) /\ Str[y] = Str[p] /\ y # o
    BY <1>7
  <2>2. /\ hash_bits(x, bits) = b => (<<x, y>> \in AheadIn(us, bits) <=> Str[x] = Str[y] /\ ChainBefore(d, x, y))
        /\ hash_bits(x, bits) # b => (<<x, y>> \in AheadIn(us, bits) <=> <<x, y>> \in AheadIn(bs, bits))
    BY <1>1, <1>9, AheadSet
  <2>3. <<x, y>> \in AheadIn(bs, bits) => Str[x] = Str[y] BY AheadPair
  <2>4. CASE hash_bits(x, bits) # b
    <3>1. Str[x] = Str[y] => hash_bits(y, bits) # b BY <2>4, SameChain
    <3> QED BY <1>8, <2>1, <2>2, <2>3, <2>4, <3>1
  <2>5. CASE hash_bits(x, bits) = b /\ Str[x] # Str[y]
    <3>1. x = p => Str[y] # Str[p] BY <2>5
    <3> QED BY <2>1, <2>2, <2>3, <2>5, <3>1
  <2>6. CASE hash_bits(x, bits) = b /\ Str[x] = Str[y]
    <3>1. <<x, y>> \in AheadIn(bs, bits) <=> ChainBefore(c, x, y) BY <1>1, <1>2, <2>6, AheadPair
    <3>2. ChainBefore(d, x, y) <=> \/ x = p /\ ChainBefore(c, o, y)
                                   \/ y = p /\ ChainBefore(c, x, o)
                                   \/ x # o /\ y # o /\ ChainBefore(c, x, y)
      <4>1. o = c[a].value BY <1>2
      <4> QED BY <1>2, <1>3, <1>5, <4>1, OverwriteOrder
    <3>3. x = p => (ChainBefore(c, o, y) <=> <<o, y>> \in AheadIn(bs, bits))
      <4>1. <<o, y>> \in AheadIn(bs, bits) <=> Str[o] = Str[y] /\ ChainBefore(c, o, y)
        BY <1>1, <1>2, <1>8, AheadPair
      <4> QED BY <2>6, <4>1
    <3>4. y = p => (ChainBefore(c, x, o) <=> <<x, o>> \in AheadIn(bs, bits))
      <4>1. <<x, o>> \in AheadIn(bs, bits) <=> Str[x] = Str[o] /\ ChainBefore(c, x, o)
        BY <1>1, <1>2, <2>6, AheadPair
      <4> QED BY <2>6, <4>1
    <3>5. ASSUME y = p PROVE <<x, o>> \notin AheadIn(bs, bits)
      <4> SUFFICES ASSUME <<x, o>> \in AheadIn(bs, bits) PROVE FALSE OBVIOUS
      <4>1. x \in ValuesIn(bs) /\ x # o /\ <<o, x>> \notin AheadIn(bs, bits) BY AheadIsStored
      <4>2. Str[x] = Str[p] BY <2>6, <3>5
      <4> QED BY <4>1, <4>2
    <3>6. ASSUME x = p PROVE <<o, y>> \in AheadIn(bs, bits) <=> y \in ValuesIn(bs) /\ Str[y] = Str[p] /\ y # o
      <4>1. Str[y] = Str[p] BY <2>6, <3>6
      <4>2. ASSUME <<o, y>> \in AheadIn(bs, bits) PROVE y \in ValuesIn(bs) /\ y # o BY <4>2, AheadIsStored
      <4> QED BY <4>1, <4>2
    <3> QED BY <2>1, <2>2, <2>6, <3>1, <3>2, <3>3, <3>4, <3>5, <3>6
  <2> QED BY <2>4, <2>5, <2>6
<1>11. AheadIn(us, bits) \subseteq Ptr \X Ptr /\ AheadIn(bs, bits) \subseteq Ptr \X Ptr /\ ValuesIn(bs) \subseteq Ptr
  BY DEF AheadIn, ValuesIn
<1>12. T \subseteq Ptr \X Ptr BY <1>7, <1>11
<1>13. AheadIn(us, bits) = T BY <1>10, <1>11, <1>12, PairsEqual
<1> QED BY <1>7, <1>13

\* An array without entries.
LEMMA ArrayEmpty ==
  ASSUME NEW bits \in Bits, NEW bs, bs = [b \in Slots(bits) |-> <<>>]
  PROVE  GoodChains(bs, bits) /\ ValuesIn(bs) = {} /\ AheadIn(bs, bits) = {}
<1>1. <<>> \in Seq(hashmap_entry) /\ Len(<<>>) = 0 OBVIOUS
<1>2. \A b \in Slots(bits) : bs[b] = <<>> OBVIOUS
<1>3. \A b \in Slots(bits) : GoodChain(bs[b], b, bits) BY <1>1, <1>2 DEF GoodChain
<1>4. GoodChains(bs, bits) BY <1>3 DEF GoodChains
<1>5. \A b, i : ~Place(bs, b, i) BY <1>1, <1>2 DEF Place
<1>6. AheadIn(bs, bits) = {} BY <1>1, <1>2 DEF AheadIn, ChainBefore
<1> QED BY <1>4, <1>5, <1>6 DEF ValuesIn

(***************************************************************************)
(* hashmap_grow: first the entries of a chain, then the chains.              *)
(***************************************************************************)
PrefixValues(c, k) == {c[i].value : i \in 1 .. k}

\* The first k objects of chain c, those of one key turned around.
PrefixTurned(c, k) ==
  {w \in Ptr \X Ptr : Str[w[1]] = Str[w[2]] /\ \E i, j \in 1 .. k : i < j /\ c[i].value = w[2] /\ c[j].value = w[1]}

LEMMA TurnedPair ==
  ASSUME NEW c, NEW k, NEW o, NEW q
  PROVE  <<o, q>> \in PrefixTurned(c, k) <=>
           /\ o \in Ptr /\ q \in Ptr /\ Str[o] = Str[q]
           /\ \E i, j \in 1 .. k : i < j /\ c[i].value = q /\ c[j].value = o
BY DEF PrefixTurned

\* One object more stands before the earlier ones of its key.
LEMMA TurnedNext ==
  ASSUME NEW c, NEW k \in Nat, NEW p \in Ptr, p = c[k + 1].value, \A i \in 1 .. k : c[i].value \in Ptr
  PROVE  PrefixTurned(c, k + 1) = PrefixTurned(c, k) \cup {<<p, q>> : q \in {x \in PrefixValues(c, k) : Str[x] = Str[p]}}
<1>1. PICK T : T = PrefixTurned(c, k) \cup {<<p, q>> : q \in {x \in PrefixValues(c, k) : Str[x] = Str[p]}} OBVIOUS
<1>2. PrefixTurned(c, k) \subseteq Ptr \X Ptr /\ PrefixTurned(c, k + 1) \subseteq Ptr \X Ptr BY DEF PrefixTurned
<1>3. T \subseteq Ptr \X Ptr BY <1>1, <1>2 DEF PrefixValues
<1>4. ASSUME NEW o \in Ptr, NEW q \in Ptr PROVE <<o, q>> \in PrefixTurned(c, k + 1) <=> <<o, q>> \in T
  <2>1. <<o, q>> \in T <=> <<o, q>> \in PrefixTurned(c, k) \/ (o = p /\ q \in PrefixValues(c, k) /\ Str[q] = Str[p])
    BY <1>1
  <2>2. \A i \in 1 .. (k + 1) : i \in 1 .. k \/ i = k + 1 OBVIOUS
  <2>3. ASSUME <<o, q>> \in PrefixTurned(c, k + 1) PROVE <<o, q>> \in T
    <3>1. Str[o] = Str[q] /\ \E i, j \in 1 .. (k + 1) : i < j /\ c[i].value = q /\ c[j].value = o
      BY <2>3, TurnedPair
    <3>2. PICK i, j \in 1 .. (k + 1) : i < j /\ c[i].value = q /\ c[j].value = o BY <3>1
    <3>3. i \in 1 .. k BY <3>2
    <3>4. CASE j \in 1 .. k
      <4>1. <<o, q>> \in PrefixTurned(c, k) BY <3>1, <3>2, <3>3, <3>4, TurnedPair
      <4> QED BY <2>1, <4>1
    <3>5. CASE j = k + 1 BY <2>1, <3>1, <3>2, <3>3, <3>5 DEF PrefixValues
    <3> QED BY <2>2, <3>4, <3>5
  <2>4. ASSUME <<o, q>> \in PrefixTurned(c, k) PROVE <<o, q>> \in PrefixTurned(c, k + 1)
    <3>1. Str[o] = Str[q] /\ \E i, j \in 1 .. k : i < j /\ c[i].value = q /\ c[j].value = o BY <2>4, TurnedPair
    <3>2. \E i, j \in 1 .. (k + 1) : i < j /\ c[i].value = q /\ c[j].value = o BY <3>1
    <3> QED BY <3>1, <3>2, TurnedPair
  <2>5. ASSUME o = p, q \in PrefixValues(c, k), Str[q] = Str[p] PROVE <<o, q>> \in PrefixTurned(c, k + 1)
    <3>1. PICK i \in 1 .. k : c[i].value = q BY <2>5 DEF PrefixValues
    <3>2. i \in 1 .. (k + 1) /\ k + 1 \in 1 .. (k + 1) /\ i < k + 1 OBVIOUS
    <3>3. \E i1, j1 \in 1 .. (k + 1) : i1 < j1 /\ c[i1].value = q /\ c[j1].value = o BY <2>5, <3>1, <3>2
    <3> QED BY <2>5, <3>3, TurnedPair
  <2> QED BY <2>1, <2>3, <2>4, <2>5
<1>5. PrefixTurned(c, k + 1) = T BY <1>2, <1>3, <1>4, PairsEqual
<1> QED BY <1>1, <1>5

\* The array to has the values V in the order R; it is the one a loop works on.
Holding(to, bits, V, R) ==
  to \in Chains(bits) /\ GoodChains(to, bits) /\ ValuesIn(to) = V /\ AheadIn(to, bits) = R

LEMMA RelinkChain ==
  ASSUME NEW bits \in Bits, NEW c, NEW b, NEW old, GoodChain(c, b, old), NEW V, NEW R, NEW to,
         Holding(to, bits, V, R), V \cap ChainValues(c) = {},
         \A x \in V, y \in ChainValues(c) : Str[x] # Str[y],
         NEW r, r = Iterate(Relinking(c, bits), [i |-> 0, to |-> to], Len(c)).to
  PROVE  Holding(r, bits, V \cup ChainValues(c), R \cup PrefixTurned(c, Len(c)))
<1>1. c \in Seq(hashmap_entry) BY DEF GoodChain
<1>2. PICK n \in Nat : n = Len(c) BY <1>1, LenProperties
<1> DEFINE State == [i : Nat, to : Chains(bits)]
           P == [k \in Nat |-> {g \in State : g.i = k /\ Holding(g.to, bits, V \cup PrefixValues(c, k), R \cup PrefixTurned(c, k))}]
           first == [i |-> 0, to |-> to]
           f == Relinking(c, bits)
<1>3. to \in Chains(bits) BY DEF Holding
<1>4. first \in P[0]
  <2>1. PrefixValues(c, 0) = {} BY DEF PrefixValues
  <2>2. V \cup PrefixValues(c, 0) = V /\ R \cup PrefixTurned(c, 0) = R BY <2>1 DEF PrefixTurned
  <2>3. first \in State /\ first.i = 0 /\ first.to = to BY <1>3
  <2> HIDE DEF first, State
  <2> QED BY <2>2, <2>3
<1>5. ASSUME NEW k \in 0 .. (n - 1), NEW g \in P[k] PROVE f[g] \in P[k + 1]
  <2>1. k \in Nat /\ k + 1 \in Nat /\ k + 1 \in 1 .. n BY <1>2
  <2>2. g \in State /\ g.i = k /\ Holding(g.to, bits, V \cup PrefixValues(c, k), R \cup PrefixTurned(c, k)) BY <2>1
  <2>3. PICK e, p : e = c[k + 1] /\ p = e.value OBVIOUS
  <2>4. Owned(e, p) /\ p \in Ptr
    <3>1. e \in hashmap_entry BY <1>1, <1>2, <2>1, <2>3, ElementOfSeq
    <3>2. e.key = e.value BY <1>2, <2>1, <2>3 DEF GoodChain
    <3> QED BY <2>3, <3>1, <3>2 DEF Owned, hashmap_entry
  <2>5. p \notin V \cup PrefixValues(c, k)
    <3>1. p \in ChainValues(c) BY <1>2, <2>1, <2>3 DEF ChainValues
    <3>2. ASSUME NEW i \in 1 .. k PROVE c[i].value # p
      <4>1. i \in 1 .. Len(c) /\ k + 1 \in 1 .. Len(c) /\ i # k + 1 BY <1>2, <2>1
      <4> QED BY <2>3, <4>1 DEF GoodChain
    <3> QED BY <3>1, <3>2 DEF PrefixValues
  <2>6. PICK t, h : t = g.to /\ h = hash_bits(p, bits) OBVIOUS
  <2>7. PICK u : u = Pushed(t, h, e) OBVIOUS
  <2>8. GoodChains(t, bits) /\ ValuesIn(t) = V \cup PrefixValues(c, k) /\ AheadIn(t, bits) = R \cup PrefixTurned(c, k)
    BY <2>2, <2>6 DEF Holding
  <2>9. GoodChains(u, bits) /\ ValuesIn(u) = ValuesIn(t) \cup {p}
    BY <2>4, <2>5, <2>6, <2>7, <2>8, ArrayPush
  <2>10. AheadIn(u, bits) = AheadIn(t, bits) \cup {<<p, q>> : q \in {x \in ValuesIn(t) : Str[x] = Str[p]}}
    BY <2>4, <2>5, <2>6, <2>7, <2>8, ArrayPushOrder
  <2>11. {x \in ValuesIn(t) : Str[x] = Str[p]} = {x \in PrefixValues(c, k) : Str[x] = Str[p]}
    <3>1. p \in ChainValues(c) BY <1>2, <2>1, <2>3 DEF ChainValues
    <3> QED BY <2>8, <3>1
  <2>12. PrefixTurned(c, k + 1) =
           PrefixTurned(c, k) \cup {<<p, q>> : q \in {x \in PrefixValues(c, k) : Str[x] = Str[p]}}
    <3>1. \A i \in 1 .. k : i \in 1 .. Len(c) BY <1>2, <2>1
    <3>2. \A i \in 1 .. Len(c) : c[i] \in hashmap_entry BY <1>1, ElementOfSeq
    <3>3. \A i \in 1 .. k : c[i].value \in Ptr BY <3>1, <3>2 DEF hashmap_entry
    <3> QED BY <2>1, <2>3, <2>4, <3>3, TurnedNext
  <2>13. AheadIn(u, bits) = R \cup PrefixTurned(c, k + 1) BY <2>8, <2>10, <2>11, <2>12
  <2>14. PrefixValues(c, k + 1) = PrefixValues(c, k) \cup {p}
    <3>1. 1 .. (k + 1) = (1 .. k) \cup {k + 1} BY <2>1
    <3> QED BY <2>3, <3>1 DEF PrefixValues
  <2>15. u \in Chains(bits) BY <2>9, GoodIsTyped
  <2>16. Holding(u, bits, V \cup PrefixValues(c, k + 1), R \cup PrefixTurned(c, k + 1))
    BY <2>8, <2>9, <2>14, <2>15, <2>13 DEF Holding
  <2>17. PICK z : z = [i |-> k + 1, to |-> u] OBVIOUS
  <2>18. z \in State /\ z.i = k + 1 /\ z.to = u BY <2>1, <2>15, <2>17
  <2>19. f[g] = z
    <3>1. e.key = p BY <2>4 DEF Owned
    <3> QED BY <2>2, <2>3, <2>6, <2>7, <2>17, <3>1, Zenon DEF Relinking, Pushed
  <2> HIDE DEF f, State
  <2> QED BY <2>1, <2>16, <2>18, <2>19
<1>6. Iterate(f, first, n) \in P[n]
  <2> HIDE DEF f, first, P
  <2> QED BY <1>4, <1>5, IteratesThrough
<1>7. Holding(Iterate(f, first, n).to, bits, V \cup PrefixValues(c, n), R \cup PrefixTurned(c, n))
  <2> HIDE DEF f, first, State
  <2> QED BY <1>6
<1>8. PrefixValues(c, n) = ChainValues(c) BY <1>2 DEF PrefixValues, ChainValues
<1>9. r = Iterate(f, first, n).to BY <1>2
<1> HIDE DEF f, first
<1> QED BY <1>2, <1>7, <1>8, <1>9

\* The objects in the chains before chain k.
ValuesBefore(bs, bits, k) == {p \in ValuesIn(bs) : hash_bits(p, bits) \in 0 .. (k - 1)}

\* Their order, turned around.
TurnedBefore(bs, bits, k) ==
  {w \in Ptr \X Ptr : <<w[2], w[1]>> \in AheadIn(bs, bits) /\ hash_bits(w[1], bits) \in 0 .. (k - 1)}

LEMMA TurnedChain ==
  ASSUME NEW bits, NEW bs, GoodChains(bs, bits), NEW k \in Nat, k \in Slots(bits), NEW c, c = bs[k]
  PROVE  TurnedBefore(bs, bits, k + 1) = TurnedBefore(bs, bits, k) \cup PrefixTurned(c, Len(c))
<1>1. PICK T : T = TurnedBefore(bs, bits, k) \cup PrefixTurned(c, Len(c)) OBVIOUS
<1>2. T \subseteq Ptr \X Ptr /\ TurnedBefore(bs, bits, k + 1) \subseteq Ptr \X Ptr
  BY <1>1 DEF TurnedBefore, PrefixTurned
<1>3. \A m : \A o, q \in Ptr : <<o, q>> \in TurnedBefore(bs, bits, m) <=>
        <<q, o>> \in AheadIn(bs, bits) /\ hash_bits(o, bits) \in 0 .. (m - 1)
  BY DEF TurnedBefore
<1>4. GoodChain(c, k, bits) BY DEF GoodChains
<1>5. ASSUME NEW o \in Ptr, NEW q \in Ptr PROVE <<o, q>> \in TurnedBefore(bs, bits, k + 1) <=> <<o, q>> \in T
  <2>1. PICK h : h = hash_bits(o, bits) OBVIOUS
  <2>2. h \in 0 .. ((k + 1) - 1) <=> h \in 0 .. (k - 1) \/ h = k OBVIOUS
  <2>3. <<o, q>> \in T <=> (<<q, o>> \in AheadIn(bs, bits) /\ h \in 0 .. (k - 1)) \/ <<o, q>> \in PrefixTurned(c, Len(c))
    BY <1>1, <1>3, <2>1
  <2>4. <<o, q>> \in TurnedBefore(bs, bits, k + 1) <=> <<q, o>> \in AheadIn(bs, bits) /\ (h \in 0 .. (k - 1) \/ h = k)
    BY <1>3, <2>1, <2>2
  <2>5. <<o, q>> \in PrefixTurned(c, Len(c)) <=> Str[o] = Str[q] /\ ChainBefore(c, q, o)
    BY TurnedPair DEF ChainBefore
  <2>6. Str[o] = Str[q] => hash_bits(q, bits) = h BY <2>1, SameChain
  <2>7. h = k => (<<q, o>> \in AheadIn(bs, bits) <=> Str[o] = Str[q] /\ ChainBefore(c, q, o))
    <3>1. <<q, o>> \in AheadIn(bs, bits) <=>
            Str[q] = Str[o] /\ hash_bits(q, bits) \in Slots(bits) /\ ChainBefore(bs[hash_bits(q, bits)], q, o)
      BY AheadPair
    <3> QED BY <2>6, <3>1
  <2>8. ChainBefore(c, q, o) => h = k BY <1>4, <2>1 DEF ChainBefore, GoodChain
  <2> QED BY <2>3, <2>4, <2>5, <2>7, <2>8
<1>6. TurnedBefore(bs, bits, k + 1) = T BY <1>2, <1>5, PairsEqual
<1> QED BY <1>1, <1>6

\* A grow keeps the objects and turns the order of those of one key around.
Turned(R) == {w \in Ptr \X Ptr : <<w[2], w[1]>> \in R}

LEMMA Growth ==
  ASSUME NEW bits \in Bits, cap_bits \in Bits,
         buckets = <<>> \/ (buckets # <<>> /\ GoodChains(buckets, cap_bits)),
         NEW r, r = hashmap_grow(bits)
  PROVE  /\ GoodChains(r, bits)
         /\ buckets = <<>> => ValuesIn(r) = {} /\ AheadIn(r, bits) = {}
         /\ buckets # <<>> => ValuesIn(r) = ValuesIn(buckets) /\ AheadIn(r, bits) = Turned(AheadIn(buckets, cap_bits))
<1>1. PICK empty : empty = [b \in Slots(bits) |-> <<>>] OBVIOUS
<1>2. GoodChains(empty, bits) /\ ValuesIn(empty) = {} /\ AheadIn(empty, bits) = {} BY <1>1, ArrayEmpty
<1>3. Holding(empty, bits, {}, {}) BY <1>2, GoodIsTyped DEF Holding
<1> DEFINE first == [bkt |-> 0, to |-> empty]
           f == Rehashing(bits)
<1>4. r = Iterate(f, first, cap).to BY <1>1, Zenon DEF hashmap_grow, Slots
<1>5. CASE buckets = <<>>
  <2>1. cap = 0 BY <1>5 DEF cap
  <2>2. Iterate(f, first, 0) = first
    <3> HIDE DEF f, first
    <3> QED BY IterateRounds
  <2>3. first.to = empty OBVIOUS
  <2>4. r = empty
    <3> HIDE DEF f, first
    <3> QED BY <1>4, <2>1, <2>2, <2>3
  <2> QED BY <1>2, <1>5, <2>4
<1>6. CASE buckets # <<>>
  <2>1. GoodChains(buckets, cap_bits) BY <1>6
  <2>2. PICK n \in Nat : n = cap /\ n = 2 ^ cap_bits BY <1>6, SlotsCount DEF cap
  <2> DEFINE V(k) == ValuesBefore(buckets, cap_bits, k)
             R(k) == TurnedBefore(buckets, cap_bits, k)
             State == [bkt : Nat, to : Chains(bits)]
             P == [k \in Nat |-> {g \in State : g.bkt = k /\ Holding(g.to, bits, V(k), R(k))}]
  <2>3. first \in P[0]
    <3>1. V(0) = {} /\ R(0) = {} BY DEF ValuesBefore, TurnedBefore
    <3>2. empty \in Chains(bits) BY <1>3 DEF Holding
    <3>3. first \in State /\ first.bkt = 0 /\ first.to = empty BY <3>2
    <3> HIDE DEF first, State, V, R
    <3> QED BY <1>3, <3>1, <3>3
  <2>4. ASSUME NEW k \in 0 .. (n - 1), NEW g \in P[k] PROVE f[g] \in P[k + 1]
    <3>1. k \in Nat /\ k + 1 \in Nat /\ k \in Slots(cap_bits) BY <2>2 DEF Slots
    <3>2. g \in State /\ g.bkt = k /\ Holding(g.to, bits, V(k), R(k)) BY <3>1
    <3>3. PICK c, t : c = buckets[k] /\ t = g.to OBVIOUS
    <3>4. GoodChain(c, k, cap_bits) BY <2>1, <3>1, <3>3 DEF GoodChains
    <3>5. \A p \in Ptr : hash_bits(p, cap_bits) = k => (p \in ValuesIn(buckets) <=> p \in ChainValues(c))
      BY <2>1, <3>1, <3>3, ChainIsStored
    <3>6. \A p \in ChainValues(c) : p \in Ptr /\ hash_bits(p, cap_bits) = k
      <4>1. c \in Seq(hashmap_entry) BY <3>4 DEF GoodChain
      <4>2. \A i \in 1 .. Len(c) : c[i] \in hashmap_entry BY <4>1, ElementOfSeq
      <4>3. \A i \in 1 .. Len(c) : c[i].value \in Ptr BY <4>2 DEF hashmap_entry
      <4> QED BY <3>4, <4>3 DEF GoodChain, ChainValues
    <3>7. V(k) \cap ChainValues(c) = {} BY <3>1, <3>6 DEF ValuesBefore
    <3>8. V(k + 1) = V(k) \cup ChainValues(c)
      <4>1. 0 .. ((k + 1) - 1) = 0 .. (k - 1) \cup {k} BY <3>1
      <4>2. \A p \in ValuesIn(buckets) : p \in Ptr BY DEF ValuesIn
      <4> QED BY <3>5, <3>6, <4>1, <4>2 DEF ValuesBefore
    <3>9. PICK u : u = Iterate(Relinking(c, bits), [i |-> 0, to |-> t], Len(c)).to OBVIOUS
    <3>10. ASSUME NEW x \in V(k), NEW y \in ChainValues(c) PROVE Str[x] # Str[y]
      <4>1. x \in Ptr /\ hash_bits(x, cap_bits) \in 0 .. (k - 1) BY DEF ValuesBefore, ValuesIn
      <4>2. y \in Ptr /\ hash_bits(y, cap_bits) = k BY <3>6
      <4>3. hash_bits(x, cap_bits) # hash_bits(y, cap_bits) BY <3>1, <4>1, <4>2
      <4> QED BY <4>1, <4>2, <4>3, SameChain
    <3>11. R(k + 1) = R(k) \cup PrefixTurned(c, Len(c))
      <4>1. PICK bs : bs = buckets OBVIOUS
      <4>2. PICK old : old = cap_bits OBVIOUS
      <4>3. GoodChains(bs, old) /\ k \in Slots(old) /\ c = bs[k] BY <2>1, <3>1, <3>3, <4>1, <4>2
      <4>4. TurnedBefore(bs, old, k + 1) = TurnedBefore(bs, old, k) \cup PrefixTurned(c, Len(c))
        BY <3>1, <4>3, TurnedChain
      <4> QED BY <4>1, <4>2, <4>4
    <3> HIDE DEF V, R
    <3>12. Holding(u, bits, V(k) \cup ChainValues(c), R(k) \cup PrefixTurned(c, Len(c)))
      <4>1. PICK W, X : W = V(k) /\ X = R(k) OBVIOUS
      <4>2. Holding(t, bits, W, X) BY <3>2, <3>3, <4>1
      <4>3. W \cap ChainValues(c) = {} /\ \A x \in W, y \in ChainValues(c) : Str[x] # Str[y]
        BY <3>7, <3>10, <4>1
      <4>4. Holding(u, bits, W \cup ChainValues(c), X \cup PrefixTurned(c, Len(c)))
        BY <3>4, <3>9, <4>2, <4>3, RelinkChain
      <4> QED BY <4>1, <4>4
    <3>13. Holding(u, bits, V(k + 1), R(k + 1)) BY <3>8, <3>12, <3>11
    <3>14. u \in Chains(bits) BY <3>13 DEF Holding
    <3>15. PICK z : z = [bkt |-> k + 1, to |-> u] OBVIOUS
    <3>16. z \in State /\ z.bkt = k + 1 /\ z.to = u BY <3>1, <3>14, <3>15
    <3>17. f[g] = z BY <3>2, <3>3, <3>9, <3>15, Zenon DEF Rehashing
    <3> HIDE DEF f, State
    <3> QED BY <3>1, <3>13, <3>16, <3>17
  <2>5. Iterate(f, first, n) \in P[n]
    <3> HIDE DEF f, first, P
    <3> QED BY <2>3, <2>4, IteratesThrough
  <2>6. Holding(r, bits, V(n), R(n))
    <3>1. Holding(Iterate(f, first, n).to, bits, V(n), R(n))
      <4> HIDE DEF f, first, State, V, R
      <4> QED BY <2>5
    <3> HIDE DEF f, first, V, R
    <3> QED BY <1>4, <2>2, <3>1
  <2>7. V(n) = ValuesIn(buckets)
    <3>1. \A p \in ValuesIn(buckets) : hash_bits(p, cap_bits) \in Slots(cap_bits) BY <2>1, ValueAt
    <3> QED BY <2>2, <3>1 DEF ValuesBefore, Slots
  <2>8. R(n) = Turned(AheadIn(buckets, cap_bits))
    <3>1. ASSUME NEW x, NEW y, <<y, x>> \in AheadIn(buckets, cap_bits) PROVE hash_bits(x, cap_bits) \in 0 .. (n - 1)
      <4>1. y \in Ptr /\ x \in Ptr /\ Str[x] = Str[y] /\ hash_bits(y, cap_bits) \in Slots(cap_bits)
        BY <3>1, AheadPair
      <4>2. hash_bits(x, cap_bits) = hash_bits(y, cap_bits) BY <4>1, SameChain
      <4> QED BY <2>2, <4>1, <4>2 DEF Slots
    <3> QED BY <3>1 DEF TurnedBefore, Turned
  <2> QED BY <1>6, <2>6, <2>7, <2>8 DEF Holding
<1> QED BY <1>5, <1>6

(***************************************************************************)
(* The invariant, and the map as a dictionary.                              *)
(***************************************************************************)
Array(bs, bits) == bs = <<>> \/ (bs # <<>> /\ GoodChains(bs, bits))
StoredIn(bs) == {e.value : e \in UNION {Members(bs[b]) : b \in DOMAIN bs}}

MapInv ==
  /\ cap_bits \in Bits
  /\ Array(buckets, cap_bits)
  /\ sz = Cardinality(Stored)

LEMMA StoredByChains ==
  ASSUME NEW bits, NEW bs, GoodChains(bs, bits) PROVE StoredIn(bs) = ValuesIn(bs)
<1>1. \A b \in Slots(bits) : DOMAIN bs[b] = 1 .. Len(bs[b]) /\ \A i \in 1 .. Len(bs[b]) : bs[b][i] \in hashmap_entry
  <2> SUFFICES ASSUME NEW b \in Slots(bits)
               PROVE  DOMAIN bs[b] = 1 .. Len(bs[b]) /\ \A i \in 1 .. Len(bs[b]) : bs[b][i] \in hashmap_entry
    OBVIOUS
  <2>1. bs[b] \in Seq(hashmap_entry) BY DEF GoodChains, GoodChain
  <2> QED BY <2>1, ElementOfSeq, LenProperties
<1>2. ASSUME NEW p \in StoredIn(bs) PROVE p \in ValuesIn(bs)
  <2>1. PICK b \in DOMAIN bs : \E i \in DOMAIN bs[b] : bs[b][i].value = p BY <1>2 DEF StoredIn, Members
  <2>2. PICK i \in 1 .. Len(bs[b]) : bs[b][i].value = p BY <1>1, <2>1 DEF GoodChains
  <2>3. p \in Ptr BY <1>1, <2>1, <2>2 DEF GoodChains, hashmap_entry
  <2> QED BY <2>1, <2>2, <2>3 DEF ValuesIn, Place
<1>3. ASSUME NEW p \in ValuesIn(bs) PROVE p \in StoredIn(bs)
  <2>1. PICK b, i : Place(bs, b, i) /\ bs[b][i].value = p BY <1>3 DEF ValuesIn
  <2>2. b \in DOMAIN bs /\ i \in DOMAIN bs[b] BY <1>1, <2>1 DEF Place, GoodChains
  <2> QED BY <2>1, <2>2 DEF StoredIn, Members
<1> QED BY <1>2, <1>3

LEMMA NothingStored == StoredIn(<<>>) = {}
BY DEF StoredIn

LEMMA StoredIsIn == Stored = StoredIn(buckets) /\ Stored' = StoredIn(buckets')
BY DEF Stored, Entries, StoredIn

\* Ahead, for any array.
OrderIn(bs) ==
  {w \in StoredIn(bs) \X StoredIn(bs) :
     /\ Str[w[1]] = Str[w[2]]
     /\ \E b \in DOMAIN bs : \E i, j \in DOMAIN bs[b] : i < j /\ bs[b][i].value = w[1] /\ bs[b][j].value = w[2]}

LEMMA AheadIsIn == Ahead = OrderIn(buckets) /\ Ahead' = OrderIn(buckets')
<1>1. Ahead = OrderIn(buckets) BY StoredIsIn, Zenon DEF Ahead, OrderIn
<1>2. Ahead' = OrderIn(buckets')
  <2>1. Ahead' = {w \in Stored' \X Stored' :
                    /\ Str[w[1]] = Str[w[2]]
                    /\ \E b \in DOMAIN buckets' : \E i, j \in DOMAIN buckets'[b] :
                         i < j /\ buckets'[b][i].value = w[1] /\ buckets'[b][j].value = w[2]}
    BY Zenon DEF Ahead
  <2> QED BY <2>1, StoredIsIn, Zenon DEF OrderIn
<1> QED BY <1>1, <1>2

LEMMA NothingOrdered == OrderIn(<<>>) = {}
BY DEF OrderIn

LEMMA OrderByChains ==
  ASSUME NEW bits, NEW bs, GoodChains(bs, bits) PROVE OrderIn(bs) = AheadIn(bs, bits)
<1>1. StoredIn(bs) = ValuesIn(bs) BY StoredByChains
<1>2. ValuesIn(bs) \subseteq Ptr BY DEF ValuesIn
<1>3. OrderIn(bs) \subseteq Ptr \X Ptr /\ AheadIn(bs, bits) \subseteq Ptr \X Ptr BY <1>1, <1>2 DEF OrderIn, AheadIn
<1>4. \A b \in Slots(bits) : DOMAIN bs[b] = 1 .. Len(bs[b])
  <2> SUFFICES ASSUME NEW b \in Slots(bits) PROVE DOMAIN bs[b] = 1 .. Len(bs[b]) OBVIOUS
  <2>1. bs[b] \in Seq(hashmap_entry) BY DEF GoodChains, GoodChain
  <2> QED BY <2>1, LenProperties
<1>5. ASSUME NEW o \in Ptr, NEW q \in Ptr PROVE <<o, q>> \in OrderIn(bs) <=> <<o, q>> \in AheadIn(bs, bits)
  <2>1. PICK h : h = hash_bits(o, bits) OBVIOUS
  <2>2. <<o, q>> \in AheadIn(bs, bits) <=> Str[o] = Str[q] /\ h \in Slots(bits) /\ ChainBefore(bs[h], o, q)
    BY <2>1, AheadPair
  <2>3. <<o, q>> \in OrderIn(bs) <=>
          /\ o \in ValuesIn(bs) /\ q \in ValuesIn(bs) /\ Str[o] = Str[q]
          /\ \E b \in Slots(bits) : \E i, j \in DOMAIN bs[b] : i < j /\ bs[b][i].value = o /\ bs[b][j].value = q
    BY <1>1 DEF OrderIn, GoodChains
  <2>4. ASSUME <<o, q>> \in OrderIn(bs) PROVE <<o, q>> \in AheadIn(bs, bits)
    <3>1. PICK b \in Slots(bits) : \E i, j \in DOMAIN bs[b] : i < j /\ bs[b][i].value = o /\ bs[b][j].value = q
      BY <2>3, <2>4
    <3>2. PICK i, j \in 1 .. Len(bs[b]) : i < j /\ bs[b][i].value = o /\ bs[b][j].value = q BY <1>4, <3>1
    <3>3. h = b BY <2>1, <3>2 DEF GoodChains, GoodChain
    <3>4. ChainBefore(bs[h], o, q) BY <3>2, <3>3 DEF ChainBefore
    <3> QED BY <2>2, <2>3, <2>4, <3>3, <3>4
  <2>5. ASSUME <<o, q>> \in AheadIn(bs, bits) PROVE <<o, q>> \in OrderIn(bs)
    <3>1. o \in ValuesIn(bs) /\ q \in ValuesIn(bs) BY <2>5, AheadIsStored
    <3>2. h \in Slots(bits) /\ Str[o] = Str[q] BY <2>2, <2>5
    <3>3. PICK i, j \in 1 .. Len(bs[h]) : i < j /\ bs[h][i].value = o /\ bs[h][j].value = q
      BY <2>2, <2>5 DEF ChainBefore
    <3>4. i \in DOMAIN bs[h] /\ j \in DOMAIN bs[h] BY <1>4, <3>2, <3>3
    <3> QED BY <2>3, <3>1, <3>2, <3>3, <3>4
  <2> QED BY <2>4, <2>5
<1> QED BY <1>3, <1>5, PairsEqual

LEMMA StoredFinite ==
  ASSUME NEW bs, NEW bits, Array(bs, bits)
  PROVE  IsFiniteSet(StoredIn(bs)) /\ StoredIn(bs) \subseteq Ptr
<1>1. StoredIn(bs) \subseteq Ptr
  <2>1. CASE bs = <<>> BY <2>1, NothingStored
  <2>2. CASE bs # <<>>
    <3>1. StoredIn(bs) = ValuesIn(bs) BY <2>2, StoredByChains DEF Array
    <3> QED BY <3>1 DEF ValuesIn
  <2> QED BY <2>1, <2>2
<1> QED BY <1>1, HashMapAssumption, FS_Subset

LEMMA MapInvOwned == MapInv => KeysAreOwned
<1> SUFFICES ASSUME MapInv, NEW e \in Entries PROVE e.key = e.value BY DEF KeysAreOwned
<1>1. PICK b \in DOMAIN buckets : \E i \in DOMAIN buckets[b] : buckets[b][i] = e BY DEF Entries, Members
<1>2. GoodChains(buckets, cap_bits) BY <1>1 DEF MapInv, Array
<1>3. GoodChain(buckets[b], b, cap_bits) BY <1>1, <1>2 DEF GoodChains
<1>4. DOMAIN buckets[b] = 1 .. Len(buckets[b]) BY <1>3, LenProperties DEF GoodChain
<1> QED BY <1>1, <1>3, <1>4 DEF GoodChain

\* hashmap_find_entry finds the object in front of those with the string of p.
LEMMA Lookup ==
  ASSUME MapInv, NEW p \in Ptr, NEW h, h = hash_bits(p, cap_bits), NEW a, a = hashmap_find_entry(p)
  PROVE  /\ Matches(p) = {} => D!Same(p) = {}
         /\ Matches(p) # {} =>
              /\ GoodChains(buckets, cap_bits)
              /\ h \in Slots(cap_bits) /\ a \in 1 .. Len(buckets[h]) /\ Entry(p) = buckets[h][a]
              /\ Entry(p).value \in D!Front(p)
<1>1. CASE buckets = <<>>
  <2>1. Matches(p) = {} BY <1>1 DEF Matches
  <2>2. Stored = {} BY <1>1, StoredIsIn, NothingStored
  <2> QED BY <2>1, <2>2 DEF D!Same
<1>2. CASE buckets # <<>>
  <2>1. GoodChains(buckets, cap_bits) /\ cap_bits \in Bits BY <1>2 DEF MapInv, Array
  <2>2. h \in Slots(cap_bits) BY <2>1, HashInArray
  <2>3. Stored = ValuesIn(buckets) BY <2>1, StoredIsIn, StoredByChains
  <2>4. PICK c : c = buckets[h] OBVIOUS
  <2>5. GoodChain(c, h, cap_bits) /\ c \in Seq(hashmap_entry) BY <2>1, <2>2, <2>4 DEF GoodChains, GoodChain
  <2>6. DOMAIN c = 1 .. Len(c) /\ Len(c) \in Nat BY <2>5, LenProperties
  <2>7. Matches(p) = {i \in 1 .. Len(c) : Str[c[i].key] = Str[p]}
    BY <1>2, <2>4, <2>6, Zenon DEF Matches
  <2>8. \A i \in 1 .. Len(c) : c[i].key = c[i].value BY <2>5 DEF GoodChain
  <2>9. ASSUME Matches(p) = {} PROVE D!Same(p) = {}
    <3> SUFFICES ASSUME NEW o \in Stored, Str[o] = Str[p] PROVE FALSE BY DEF D!Same
    <3>1. o \in Ptr BY <2>3 DEF ValuesIn
    <3>2. Hash[o] = Hash[p] BY <3>1, HashMapAssumption
    <3>3. hash_bits(o, cap_bits) = h BY <3>2 DEF hash_bits
    <3>4. PICK i \in 1 .. Len(c) : c[i].value = o BY <2>1, <2>3, <2>4, <3>3, ValueAt
    <3>5. i \in Matches(p) BY <2>7, <2>8, <3>4
    <3> QED BY <2>9, <3>5
  <2>10. ASSUME Matches(p) # {}
         PROVE  a \in 1 .. Len(c) /\ Entry(p) = c[a] /\ Entry(p).value \in D!Front(p)
    <3>1. Matches(p) \subseteq Nat /\ Matches(p) # {} BY <2>7, <2>10
    <3>2. PICK S : S = Matches(p) OBVIOUS
    <3>3. \E i \in S : \A j \in S : i <= j BY <3>1, <3>2, NatLeast
    <3>4. a = CHOOSE i \in S : \A j \in S : i <= j BY <3>2, Zenon DEF hashmap_find_entry
    <3>5. a \in S /\ \A j \in S : a <= j BY <3>3, <3>4
    <3>6. a \in 1 .. Len(c) /\ Str[c[a].key] = Str[p] BY <2>7, <3>2, <3>5
    <3>7. Entry(p) = c[a] BY <2>4, Zenon DEF Entry
    <3>8. c[a] \in hashmap_entry BY <2>5, <3>6, ElementOfSeq
    <3>9. c[a].value \in Ptr /\ c[a].key = c[a].value /\ hash_bits(c[a].value, cap_bits) = h
      BY <2>5, <3>6, <3>8 DEF GoodChain, hashmap_entry
    <3>10. c[a].value \in ValuesIn(buckets) BY <2>1, <2>2, <2>4, <3>6, <3>9, ValueAt
    <3>11. c[a].value \in D!Same(p) BY <2>3, <3>6, <3>9, <3>10 DEF D!Same
    <3>12. ASSUME NEW q \in D!Same(p) \ {c[a].value} PROVE <<c[a].value, q>> \in Ahead
      <4>1. q \in Stored /\ q \in Ptr /\ Str[q] = Str[p] BY <2>3, <3>12 DEF D!Same, ValuesIn
      <4>2. hash_bits(q, cap_bits) = h
        <5>1. Str[q] = Str[p] BY <4>1
        <5> QED BY <4>1, <5>1, SameChain
      <4>3. PICK j \in 1 .. Len(c) : c[j].value = q BY <2>1, <2>3, <2>4, <4>1, <4>2, ValueAt
      <4>4. j \in S BY <2>7, <2>8, <3>2, <4>1, <4>3
      <4>5. a < j
        <5>1. a <= j /\ a # j BY <3>5, <3>12, <4>3, <4>4
        <5> QED BY <2>6, <3>6, <5>1
      <4>6. ChainBefore(c, c[a].value, q) BY <3>6, <4>3, <4>5 DEF ChainBefore
      <4>7. Str[c[a].value] = Str[q] BY <3>6, <3>9, <4>1
      <4>8. PICK bs, bits, o : bs = buckets /\ bits = cap_bits /\ o = c[a].value OBVIOUS
      <4>9. <<o, q>> \in AheadIn(bs, bits) BY <2>2, <2>4, <3>9, <4>1, <4>6, <4>7, <4>8, AheadPair
      <4>10. OrderIn(bs) = AheadIn(bs, bits) BY <2>1, <4>8, OrderByChains
      <4> QED BY <4>8, <4>9, <4>10, AheadIsIn
    <3> QED BY <3>6, <3>7, <3>11, <3>12 DEF D!Front
  <2> QED BY <2>1, <2>2, <2>4, <2>9, <2>10
<1> QED BY <1>1, <1>2

LEMMA MapFacts ==
  ASSUME MapInv
  PROVE  /\ cap_bits \in Bits /\ IsFiniteSet(Stored) /\ Stored \subseteq Ptr /\ sz \in Nat /\ sz = Cardinality(Stored)
         /\ buckets # <<>> => GoodChains(buckets, cap_bits) /\ Stored = ValuesIn(buckets)
                              /\ Ahead = AheadIn(buckets, cap_bits)
         /\ buckets = <<>> => Stored = {} /\ Ahead = {}
         /\ Ahead \subseteq Stored \X Stored
<1>1. cap_bits \in Bits /\ Array(buckets, cap_bits) /\ sz = Cardinality(Stored) BY DEF MapInv
<1>2. IsFiniteSet(Stored) /\ Stored \subseteq Ptr BY <1>1, StoredFinite, StoredIsIn
<1>3. sz \in Nat BY <1>1, <1>2, FS_CardinalityType
<1>4. buckets # <<>> => GoodChains(buckets, cap_bits) /\ Stored = ValuesIn(buckets)
  BY <1>1, StoredIsIn, StoredByChains DEF Array
<1>5. buckets = <<>> => Stored = {} /\ Ahead = {} BY StoredIsIn, NothingStored, AheadIsIn, NothingOrdered
<1>6. buckets # <<>> => Ahead = AheadIn(buckets, cap_bits) BY <1>4, AheadIsIn, OrderByChains
<1>7. Ahead \subseteq Stored \X Stored BY DEF Ahead
<1> QED BY <1>1, <1>2, <1>3, <1>4, <1>5, <1>6, <1>7

\* An object is in the map at most once.
LEMMA FreshIsNotStored == ASSUME NEW p, Fresh(p) PROVE p \notin Stored
BY DEF Fresh, Stored

\* A step that leaves the entries alone, and one that makes a new array.
LEMMA NothingMoved ==
  ASSUME MapInv, UNCHANGED <<buckets, cap_bits, sz>>
  PROVE  MapInv' /\ Stored' = Stored /\ Ahead' = Ahead /\ cap' = cap /\ sz' = Cardinality(Stored')
<1>1. Stored' = Stored BY StoredIsIn
<1>2. sz' = Cardinality(Stored') BY <1>1 DEF MapInv
<1>3. Ahead' = Ahead BY AheadIsIn
<1>4. cap' = cap BY DEF cap
<1> QED BY <1>1, <1>2, <1>3, <1>4 DEF MapInv

LEMMA NewArray ==
  ASSUME NEW bits \in Bits, bits = cap_bits', NEW bs, bs = buckets', GoodChains(bs, bits),
         sz' = Cardinality(ValuesIn(bs))
  PROVE  /\ MapInv' /\ Stored' = ValuesIn(bs) /\ sz' = Cardinality(Stored')
         /\ Ahead' = AheadIn(bs, bits) /\ cap' = 2 ^ bits
<1>1. bs # <<>>
  <2>1. 0 \in DOMAIN bs BY SlotsCount DEF GoodChains
  <2> QED BY <2>1
<1>2. Stored' = ValuesIn(bs)
  <2>1. StoredIn(bs) = ValuesIn(bs) BY StoredByChains
  <2> QED BY <2>1, StoredIsIn
<1>3. Array(buckets', cap_bits') BY <1>1 DEF Array
<1>4. Ahead' = AheadIn(bs, bits)
  <2>1. OrderIn(bs) = AheadIn(bs, bits) BY OrderByChains
  <2> QED BY <2>1, AheadIsIn
<1>5. cap' = 2 ^ bits BY <1>1 DEF cap
<1> QED BY <1>2, <1>3, <1>4, <1>5 DEF MapInv

LEMMA InsertFoundStep ==
  ASSUME MapInv, NEW p \in Ptr, NEW strategy \in {"ADD", "SET", "UPDATE", "APPEND"}, Fresh(p),
         InsertFound(p, strategy)
  PROVE  MapInv' /\ D!Insert(p, strategy) /\ sz' = Cardinality(Stored')
<1>1. PICK h, a : h = hash_bits(p, cap_bits) /\ a = hashmap_find_entry(p) OBVIOUS
<1>2. PICK o : o = Entry(p).value OBVIOUS
<1>3. strategy # "APPEND" /\ Matches(p) # {} /\ cap_bits' = cap_bits /\ sz' = sz BY DEF InsertFound
<1>4. /\ GoodChains(buckets, cap_bits) /\ h \in Slots(cap_bits) /\ a \in 1 .. Len(buckets[h])
      /\ Entry(p) = buckets[h][a] /\ o \in D!Front(p)
  BY <1>1, <1>2, <1>3, Lookup
<1>5. CASE strategy = "ADD"
  <2>1. buckets' = buckets /\ ret' = [err |-> "EEXIST", old |-> o]
    BY <1>2, <1>5 DEF InsertFound, Returns
  <2>2. MapInv' /\ Stored' = Stored /\ Ahead' = Ahead /\ cap' = cap /\ sz' = Cardinality(Stored')
    BY <1>3, <2>1, NothingMoved
  <2> QED BY <1>4, <1>5, <2>1, <2>2 DEF D!Insert, D!Refuse, D!Returns
<1>6. CASE strategy # "ADD"
  <2>1. strategy \in {"SET", "UPDATE"} BY <1>3, <1>6
  <2>2. ret' = [err |-> "OK", old |-> o] BY <1>2, <1>6 DEF InsertFound, Returns
  <2>3. PICK c, e : c = buckets[h] /\ e = Overwritten(Entry(p), p) OBVIOUS
  <2>4. PICK us : us = [buckets EXCEPT ![h] = [c EXCEPT ![a] = e]] OBVIOUS
  <2>5. buckets' = us BY <1>1, <1>6, <2>3, <2>4, Zenon DEF InsertFound
  <2>6. c \in Seq(hashmap_entry) BY <1>4, <2>3 DEF GoodChains, GoodChain
  <2>7. c[a] \in hashmap_entry BY <1>4, <2>3, <2>6, ElementOfSeq
  <2>8. Owned(e, p) BY <1>4, <2>3, <2>7 DEF Owned, Overwritten, hashmap_entry
  <2>9. cap_bits \in Bits /\ IsFiniteSet(Stored) /\ sz = Cardinality(Stored) /\ p \notin Stored
    BY MapFacts, FreshIsNotStored
  <2>10. Stored = ValuesIn(buckets) BY <1>4, StoredIsIn, StoredByChains
  <2>11. o = buckets[h][a].value BY <1>2, <1>4
  <2>12. GoodChains(us, cap_bits) /\ ValuesIn(us) = (ValuesIn(buckets) \ {buckets[h][a].value}) \cup {p}
    <3>1. PICK bs : bs = buckets OBVIOUS
    <3>2. PICK bits : bits = cap_bits OBVIOUS
    <3>3. us = Written(bs, h, a, e) BY <2>3, <2>4, <3>1 DEF Written
    <3>4. GoodChains(bs, bits) /\ bits \in Bits /\ p \notin ValuesIn(bs) BY <1>4, <2>9, <2>10, <3>1, <3>2
    <3>5. h = hash_bits(p, bits) /\ a \in 1 .. Len(bs[h]) BY <1>1, <1>4, <3>1, <3>2
    <3>6. GoodChains(us, bits) /\ ValuesIn(us) = (ValuesIn(bs) \ {bs[h][a].value}) \cup {p}
      BY <2>8, <3>3, <3>4, <3>5, ArrayOverwrite
    <3> QED BY <3>1, <3>2, <3>6, Zenon
  <2>13. ValuesIn(us) = (Stored \ {o}) \cup {p} BY <2>10, <2>11, <2>12
  <2>14. o \in Stored /\ Str[o] = Str[p] /\ \A q \in D!Same(p) \ {o} : <<o, q>> \in Ahead
    BY <1>4 DEF D!Front, D!Same
  <2>15. Cardinality((Stored \ {o}) \cup {p}) = Cardinality(Stored)
    <3>1. Cardinality(Stored) \in Nat BY <2>9, FS_CardinalityType
    <3>2. PICK T : T = Stored \ {o} OBVIOUS
    <3>3. IsFiniteSet(T) /\ Cardinality(T) = Cardinality(Stored) - 1 BY <2>9, <2>14, <3>2, FS_RemoveElement
    <3>4. p \notin T BY <2>9, <3>2
    <3>5. Cardinality(T \cup {p}) = Cardinality(T) + 1 BY <3>3, <3>4, FS_AddElement
    <3> QED BY <3>1, <3>2, <3>3, <3>5
  <2>16. sz' = Cardinality(ValuesIn(us)) BY <1>3, <2>9, <2>13, <2>15
  <2>17. MapInv' /\ Stored' = ValuesIn(us) /\ sz' = Cardinality(Stored')
         /\ Ahead' = AheadIn(us, cap_bits) /\ cap' = 2 ^ cap_bits
    <3>1. PICK bits : bits = cap_bits' OBVIOUS
    <3>2. bits = cap_bits BY <1>3, <3>1
    <3> QED BY <2>5, <2>9, <2>12, <2>16, <3>1, <3>2, NewArray
  <2>18. Stored' = (Stored \ {o}) \cup {p} BY <2>13, <2>17
  <2>19. cap' = cap
    <3>1. 0 \in DOMAIN buckets BY <1>4, <2>9, SlotsCount DEF GoodChains
    <3>2. buckets # <<>> BY <3>1
    <3> QED BY <2>17, <3>2 DEF cap
  <2>20. Ahead = AheadIn(buckets, cap_bits)
    <3>1. PICK bs, bits : bs = buckets /\ bits = cap_bits OBVIOUS
    <3>2. OrderIn(bs) = AheadIn(bs, bits) BY <1>4, <3>1, OrderByChains
    <3> QED BY <3>1, <3>2, AheadIsIn
  <2>21. AheadIn(us, cap_bits) = {w \in Ahead : w[1] # o /\ w[2] # o}
                                \cup {<<p, q>> : q \in {x \in Stored : Str[x] = Str[p]} \ {o}}
    <3>1. PICK bs, bits : bs = buckets /\ bits = cap_bits OBVIOUS
    <3>2. us = Written(bs, h, a, e) BY <2>3, <2>4, <3>1 DEF Written
    <3>3. GoodChains(bs, bits) /\ bits \in Bits /\ Stored = ValuesIn(bs) /\ p \notin ValuesIn(bs)
          /\ Ahead = AheadIn(bs, bits)
      BY <1>4, <2>9, <2>10, <2>20, <3>1
    <3>4. h = hash_bits(p, bits) /\ a \in 1 .. Len(bs[h]) /\ o = bs[h][a].value BY <1>1, <1>4, <2>11, <3>1
    <3>5. \A q \in ValuesIn(bs) \ {o} : Str[q] = Str[p] => <<o, q>> \in AheadIn(bs, bits)
      BY <2>14, <3>3 DEF D!Same
    <3>6. o \in Ptr BY <2>14, <3>3 DEF ValuesIn
    <3>7. AheadIn(us, bits) = {w \in AheadIn(bs, bits) : w[1] # o /\ w[2] # o}
                              \cup {<<p, q>> : q \in {x \in ValuesIn(bs) : Str[x] = Str[p]} \ {o}}
      BY <2>8, <2>14, <3>2, <3>3, <3>4, <3>5, <3>6, ArrayOverwriteOrder
    <3> QED BY <3>1, <3>3, <3>7
  <2>22. Ahead' = D!Without(o) \cup D!Before(p, D!Same(p) \ {o}) BY <2>17, <2>21 DEF D!Without, D!Before, D!Same
  <2>23. D!Replace(p) BY <1>4, <2>2, <2>18, <2>19, <2>22 DEF D!Replace, D!Returns
  <2> QED BY <2>1, <2>17, <2>23 DEF D!Insert
<1> QED BY <1>5, <1>6

LEMMA InsertMissingStep ==
  ASSUME MapInv, NEW p \in Ptr, NEW strategy \in {"ADD", "SET", "UPDATE", "APPEND"}, InsertMissing(p, strategy)
  PROVE  MapInv' /\ D!Insert(p, strategy) /\ sz' = Cardinality(Stored')
<1>1. strategy = "UPDATE" /\ Matches(p) = {} /\ UNCHANGED <<buckets, cap_bits, sz>>
      /\ ret' = [err |-> "ENOENT", old |-> NULL]
  BY DEF InsertMissing, Returns
<1>2. MapInv' /\ Stored' = Stored /\ Ahead' = Ahead /\ cap' = cap /\ sz' = Cardinality(Stored') BY <1>1, NothingMoved
<1>3. D!Same(p) = {} BY <1>1, Lookup
<1> QED BY <1>1, <1>2, <1>3 DEF D!Insert, D!Returns

\* Where a new entry may be made, the dictionary may be extended.
LEMMA AddableExtends ==
  ASSUME MapInv, NEW p \in Ptr, NEW strategy \in {"ADD", "SET", "UPDATE", "APPEND"}, Addable(p, strategy), D!Extend(p)
  PROVE  D!Insert(p, strategy)
<1>1. CASE strategy = "APPEND" BY <1>1 DEF D!Insert
<1>2. CASE strategy \in {"ADD", "SET"} /\ Matches(p) = {}
  <2>1. D!Same(p) = {} BY <1>2, Lookup
  <2> QED BY <1>2, <2>1 DEF D!Insert
<1> QED BY <1>1, <1>2 DEF Addable

LEMMA GrowFailsStep ==
  ASSUME MapInv, NEW p \in Ptr, NEW strategy \in {"ADD", "SET", "UPDATE", "APPEND"}, GrowFails(p, strategy)
  PROVE  MapInv' /\ D!Insert(p, strategy) /\ sz' = Cardinality(Stored')
<1>1. Addable(p, strategy) /\ UNCHANGED <<buckets, cap_bits, sz>> /\ ret' = [err |-> "ENOMEM", old |-> NULL]
  BY DEF GrowFails, Returns
<1>2. MapInv' /\ Stored' = Stored /\ Ahead' = Ahead /\ cap' = cap /\ sz' = Cardinality(Stored') BY <1>1, NothingMoved
<1>3. cap \in Nat BY MapFacts, SlotsCount DEF cap
<1>4. D!Extend(p) BY <1>1, <1>2, <1>3 DEF D!Extend, D!Regrown, D!Returns
<1> QED BY <1>1, <1>2, <1>4, AddableExtends

\* An array to add to: the old one, or one that hashmap_grow has filled.
LEMMA RoomToAdd ==
  ASSUME MapInv, NEW bits, bits = (IF hashmap_needs_to_grow THEN NewBits ELSE cap_bits), bits <= MaxBits,
         NEW room, room = (IF hashmap_needs_to_grow THEN hashmap_grow(bits) ELSE buckets)
  PROVE  /\ bits \in Bits /\ GoodChains(room, bits) /\ ValuesIn(room) = Stored
         /\ cap \in Nat
         /\ \/ 2 ^ bits = cap /\ AheadIn(room, bits) = Ahead
            \/ 2 ^ bits > cap /\ AheadIn(room, bits) = Turned(Ahead)
<1>1. cap_bits \in Bits /\ cap_bits \in Nat BY MapFacts, SlotsCount
<1>2. cap \in Nat BY <1>1, PowerIsPositive DEF cap
<1>3. CASE hashmap_needs_to_grow
  <2>1. bits \in Bits
    <3>1. NewBits \in Nat BY <1>1 DEF NewBits, HASHMAP_MIN_CAP_BITS
    <3> QED BY <1>3, <3>1, HashMapAssumption DEF Bits
  <2>2. room = hashmap_grow(bits) BY <1>3
  <2>3. buckets = <<>> \/ (buckets # <<>> /\ GoodChains(buckets, cap_bits)) BY DEF MapInv, Array
  <2>4. /\ GoodChains(room, bits)
        /\ buckets = <<>> => ValuesIn(room) = {} /\ AheadIn(room, bits) = {}
        /\ buckets # <<>> => ValuesIn(room) = ValuesIn(buckets) /\ AheadIn(room, bits) = Turned(AheadIn(buckets, cap_bits))
    BY <1>1, <2>1, <2>2, <2>3, Growth
  <2>5. Turned({}) = {} BY DEF Turned
  <2>6. ValuesIn(room) = Stored /\ AheadIn(room, bits) = Turned(Ahead) BY <2>4, <2>5, MapFacts
  <2>7. 2 ^ bits > cap
    <3>1. bits >= cap_bits + 1 BY <1>1, <1>3 DEF NewBits, HASHMAP_MIN_CAP_BITS
    <3>2. cap_bits + 1 \in Nat /\ bits - (cap_bits + 1) \in Nat BY <1>1, <2>1, <3>1 DEF Bits
    <3>3. PICK m, n : m = bits - (cap_bits + 1) /\ n = cap_bits + 1 OBVIOUS
    <3>4. m \in Nat /\ n \in Nat /\ m + n = bits BY <2>1, <3>2, <3>3 DEF Bits
    <3>5. 2 ^ (m + n) = 2 ^ m * 2 ^ n BY <3>4, PowerSplits
    <3>6. 2 ^ (cap_bits + 1) = 2 * 2 ^ cap_bits BY <1>1, PowerDoubles
    <3>7. PICK x, y : x = 2 ^ m /\ y = 2 ^ cap_bits OBVIOUS
    <3>8. x \in Nat \ {0} /\ y \in Nat \ {0} BY <1>1, <3>4, <3>7, PowerIsPositive
    <3>9. 2 ^ bits = x * (2 * y) BY <3>3, <3>4, <3>5, <3>6, <3>7
    <3>10. x * (2 * y) > y
      <4>1. x * (2 * y) = 2 * y + (x - 1) * (2 * y) BY <3>8
      <4>2. (x - 1) * (2 * y) \in Nat BY <3>8
      <4> QED BY <3>8, <4>1, <4>2
    <3>11. cap = 0 \/ cap = y BY <3>7 DEF cap
    <3> QED BY <3>8, <3>9, <3>10, <3>11
  <2> QED BY <1>2, <2>1, <2>4, <2>6, <2>7
<1>4. CASE ~ hashmap_needs_to_grow
  <2>1. cap # 0 BY <1>4 DEF hashmap_needs_to_grow
  <2>2. buckets # <<>> BY <2>1 DEF cap
  <2>3. bits = cap_bits /\ room = buckets BY <1>4
  <2>4. GoodChains(buckets, cap_bits) /\ Stored = ValuesIn(buckets) /\ Ahead = AheadIn(buckets, cap_bits)
    BY <2>2, MapFacts
  <2>5. 2 ^ cap_bits = cap BY <2>2 DEF cap
  <2> QED BY <1>1, <1>2, <2>3, <2>4, <2>5, Zenon
<1> QED BY <1>3, <1>4

LEMMA InsertNewStep ==
  ASSUME MapInv, NEW p \in Ptr, NEW strategy \in {"ADD", "SET", "UPDATE", "APPEND"}, Fresh(p),
         NEW mallocFails \in BOOLEAN, InsertNew(p, strategy, mallocFails)
  PROVE  MapInv' /\ D!Insert(p, strategy) /\ sz' = Cardinality(Stored')
<1>1. PICK bits : bits = IF hashmap_needs_to_grow THEN NewBits ELSE cap_bits OBVIOUS
<1>2. PICK room : room = IF hashmap_needs_to_grow THEN hashmap_grow(bits) ELSE buckets OBVIOUS
<1>3. /\ Addable(p, strategy) /\ bits <= MaxBits /\ cap_bits' = bits
      /\ mallocFails => buckets' = room /\ sz' = sz /\ ret' = [err |-> "ENOMEM", old |-> NULL]
      /\ ~ mallocFails =>
           /\ buckets' = [room EXCEPT ![hash_bits(p, bits)] =
                            hashmap_add_entry(room[hash_bits(p, bits)], [key |-> p, value |-> p])]
           /\ sz' = sz + 1 /\ ret' = [err |-> "OK", old |-> NULL]
  BY <1>1, <1>2, Zenon DEF InsertNew, Returns
<1>4. /\ bits \in Bits /\ GoodChains(room, bits) /\ ValuesIn(room) = Stored
      /\ cap \in Nat
      /\ \/ 2 ^ bits = cap /\ AheadIn(room, bits) = Ahead
         \/ 2 ^ bits > cap /\ AheadIn(room, bits) = Turned(Ahead)
  BY <1>1, <1>2, <1>3, RoomToAdd
<1>5. ASSUME cap' = 2 ^ bits PROVE cap' >= cap /\ AheadIn(room, bits) = D!Regrown
  <2>1. Ahead \subseteq Stored \X Stored /\ Stored \subseteq Ptr BY MapFacts
  <2>2. Turned(Ahead) = {w \in Stored \X Stored : <<w[2], w[1]>> \in Ahead} BY <2>1 DEF Turned
  <2>3. 2 ^ bits \in Nat BY <1>4, SlotsCount
  <2>4. cap' >= cap /\ (cap' = cap => AheadIn(room, bits) = Ahead) /\ (cap' # cap => AheadIn(room, bits) = Turned(Ahead))
    BY <1>4, <1>5, <2>3
  <2> QED BY <2>2, <2>4 DEF D!Regrown
<1>6. IsFiniteSet(Stored) /\ sz = Cardinality(Stored) /\ p \notin Stored BY MapFacts, FreshIsNotStored
<1>7. PICK bs : bs = buckets' OBVIOUS
<1>8. CASE mallocFails
  <2>1. bs = room BY <1>3, <1>7, <1>8
  <2>2. GoodChains(bs, bits) /\ ValuesIn(bs) = Stored BY <1>4, <2>1
  <2>3. sz' = Cardinality(ValuesIn(bs)) BY <1>3, <1>6, <1>8, <2>2
  <2>4. MapInv' /\ Stored' = ValuesIn(bs) /\ sz' = Cardinality(Stored') /\ Ahead' = AheadIn(bs, bits) /\ cap' = 2 ^ bits
    BY <1>3, <1>4, <1>7, <2>2, <2>3, NewArray
  <2>5. Stored' = Stored BY <2>2, <2>4
  <2>6. cap' >= cap /\ Ahead' = D!Regrown BY <1>5, <2>1, <2>4
  <2>7. D!Extend(p) BY <1>3, <1>8, <2>5, <2>6 DEF D!Extend, D!Returns
  <2> QED BY <1>3, <2>4, <2>7, AddableExtends
<1>9. CASE ~ mallocFails
  <2>1. PICK e : e = [key |-> p, value |-> p] OBVIOUS
  <2>2. Owned(e, p) BY <2>1 DEF Owned, hashmap_entry
  <2>3. PICK h : h = hash_bits(p, bits) OBVIOUS
  <2>4. bs = Pushed(room, h, e) BY <1>3, <1>7, <1>9, <2>1, <2>3 DEF Pushed
  <2>5. GoodChains(bs, bits) /\ ValuesIn(bs) = ValuesIn(room) \cup {p} BY <1>4, <1>6, <2>2, <2>3, <2>4, ArrayPush
  <2>6. ValuesIn(bs) = Stored \cup {p} BY <1>4, <2>5
  <2>7. Cardinality(Stored \cup {p}) = Cardinality(Stored) + 1 BY <1>6, FS_AddElement
  <2>8. sz' = Cardinality(ValuesIn(bs)) BY <1>3, <1>6, <1>9, <2>6, <2>7
  <2>9. MapInv' /\ Stored' = ValuesIn(bs) /\ sz' = Cardinality(Stored') /\ Ahead' = AheadIn(bs, bits) /\ cap' = 2 ^ bits
    BY <1>3, <1>4, <1>7, <2>5, <2>8, NewArray
  <2>10. Stored' = Stored \cup {p} BY <2>6, <2>9
  <2>11. AheadIn(bs, bits) = AheadIn(room, bits) \cup {<<p, q>> : q \in {x \in ValuesIn(room) : Str[x] = Str[p]}}
    BY <1>4, <1>6, <2>2, <2>3, <2>4, ArrayPushOrder
  <2>12. cap' >= cap /\ AheadIn(room, bits) = D!Regrown BY <1>5, <2>9
  <2>13. Ahead' = D!Regrown \cup D!Before(p, D!Same(p)) BY <1>4, <2>9, <2>11, <2>12 DEF D!Before, D!Same
  <2>14. D!Extend(p) BY <1>3, <1>9, <2>10, <2>12, <2>13 DEF D!Extend, D!Returns
  <2> QED BY <1>3, <2>9, <2>14, AddableExtends
<1> QED BY <1>8, <1>9

LEMMA FindStep ==
  ASSUME MapInv, NEW p \in Ptr, hashmap__find(p)
  PROVE  MapInv' /\ D!Find(p) /\ sz' = Cardinality(Stored')
<1>1. UNCHANGED <<buckets, cap_bits, sz>> BY DEF hashmap__find
<1>2. MapInv' /\ Stored' = Stored /\ Ahead' = Ahead /\ cap' = cap /\ sz' = Cardinality(Stored') BY <1>1, NothingMoved
<1>3. CASE Matches(p) = {}
  <2>1. D!Same(p) = {} BY <1>3, Lookup
  <2>2. ret' = [err |-> "missing", old |-> NULL] BY <1>3 DEF hashmap__find, Returns
  <2> QED BY <1>2, <2>1, <2>2 DEF D!Find, D!Returns
<1>4. CASE Matches(p) # {}
  <2>1. Entry(p).value \in D!Front(p) BY <1>4, Lookup
  <2>2. ret' = [err |-> "found", old |-> Entry(p).value] BY <1>4 DEF hashmap__find, Returns
  <2> QED BY <1>2, <2>1, <2>2 DEF D!Find, D!Returns
<1> QED BY <1>3, <1>4

LEMMA DeleteStep ==
  ASSUME MapInv, NEW p \in Ptr, hashmap__delete(p)
  PROVE  MapInv' /\ D!Delete(p) /\ sz' = Cardinality(Stored')
<1>1. CASE Matches(p) = {}
  <2>1. UNCHANGED <<buckets, cap_bits, sz>> /\ ret' = [err |-> "missing", old |-> NULL]
    BY <1>1 DEF hashmap__delete, Returns
  <2>2. MapInv' /\ Stored' = Stored /\ Ahead' = Ahead /\ cap' = cap /\ sz' = Cardinality(Stored') BY <2>1, NothingMoved
  <2>3. D!Same(p) = {} BY <1>1, Lookup
  <2> QED BY <2>1, <2>2, <2>3 DEF D!Delete, D!Returns
<1>2. CASE Matches(p) # {}
  <2>1. PICK h, a, o : h = hash_bits(p, cap_bits) /\ a = hashmap_find_entry(p) /\ o = Entry(p).value OBVIOUS
  <2>2. /\ GoodChains(buckets, cap_bits) /\ h \in Slots(cap_bits) /\ a \in 1 .. Len(buckets[h])
        /\ Entry(p) = buckets[h][a] /\ o \in D!Front(p)
    BY <1>2, <2>1, Lookup
  <2>3. PICK bs, us : bs = buckets /\ us = buckets' OBVIOUS
  <2>4. us = Dropped(bs, h, a) /\ sz' = sz - 1 /\ cap_bits' = cap_bits
        /\ ret' = [err |-> "found", old |-> o]
    BY <1>2, <2>1, <2>3, Zenon DEF hashmap__delete, Returns, Dropped
  <2>5. IsFiniteSet(Stored) /\ sz = Cardinality(Stored) /\ sz \in Nat /\ cap_bits \in Bits BY MapFacts
  <2>6. PICK bits : bits = cap_bits OBVIOUS
  <2>7. GoodChains(us, bits) /\ ValuesIn(us) = ValuesIn(bs) \ {bs[h][a].value}
    <3>1. GoodChains(bs, bits) /\ bits \in Bits /\ h \in Slots(bits) /\ a \in 1 .. Len(bs[h])
      BY <2>2, <2>3, <2>5, <2>6
    <3> QED BY <2>4, <3>1, ArrayDrop
  <2>8. ValuesIn(us) = Stored \ {o}
    <3>1. Stored = ValuesIn(buckets) BY <2>2, StoredIsIn, StoredByChains
    <3> QED BY <2>1, <2>2, <2>3, <2>7, <3>1
  <2>9. o \in Stored BY <2>2 DEF D!Front, D!Same
  <2>10. Cardinality(Stored \ {o}) = Cardinality(Stored) - 1 BY <2>5, <2>9, FS_RemoveElement
  <2>11. sz' = Cardinality(ValuesIn(us)) BY <2>4, <2>5, <2>8, <2>10
  <2>12. MapInv' /\ Stored' = ValuesIn(us) /\ sz' = Cardinality(Stored') /\ Ahead' = AheadIn(us, bits) /\ cap' = 2 ^ bits
    BY <2>3, <2>4, <2>5, <2>6, <2>7, <2>11, NewArray
  <2>13. Stored' = Stored \ {o} BY <2>8, <2>12
  <2>14. cap' = cap
    <3>1. 0 \in DOMAIN buckets BY <2>2, <2>5, SlotsCount DEF GoodChains
    <3>2. buckets # <<>> BY <3>1
    <3> QED BY <2>6, <2>12, <3>2 DEF cap
  <2>15. Ahead' = D!Without(o)
    <3>1. GoodChains(bs, bits) /\ bits \in Bits /\ h \in Slots(bits) /\ a \in 1 .. Len(bs[h]) /\ o = bs[h][a].value
      BY <2>1, <2>2, <2>3, <2>5, <2>6
    <3>2. AheadIn(us, bits) = {w \in AheadIn(bs, bits) : w[1] # o /\ w[2] # o} BY <2>4, <3>1, ArrayDropOrder
    <3>3. OrderIn(bs) = AheadIn(bs, bits) BY <3>1, OrderByChains
    <3>4. Ahead = AheadIn(bs, bits) BY <2>3, <3>3, AheadIsIn
    <3> QED BY <2>12, <3>2, <3>4 DEF D!Without
  <2> QED BY <2>2, <2>4, <2>12, <2>13, <2>14, <2>15 DEF D!Delete, D!Returns
<1> QED BY <1>1, <1>2

\* A map without an array.
LEMMA EmptyMap ==
  ASSUME NEW bs, bs = <<>>, NEW bits, bits = 0
  PROVE  bits \in Bits /\ Array(bs, bits) /\ StoredIn(bs) = {} /\ Cardinality({}) = 0
BY HashMapAssumption, NothingStored, FS_EmptySet DEF Bits, Array

LEMMA FreeStep ==
  ASSUME hashmap__free
  PROVE  MapInv' /\ D!Clear /\ sz' = Cardinality(Stored')
<1>1. buckets' = <<>> /\ cap_bits' = 0 /\ sz' = 0 /\ ret' = [err |-> "none", old |-> NULL]
  BY DEF hashmap__free, Returns
<1>2. cap_bits' \in Bits /\ Array(buckets', cap_bits') /\ StoredIn(buckets') = {} /\ Cardinality({}) = 0
  BY <1>1, EmptyMap
<1>3. Stored' = {} BY <1>2, StoredIsIn
<1>4. Ahead' = {} BY <1>1, AheadIsIn, NothingOrdered
<1>5. cap' = 0 BY <1>1 DEF cap
<1> QED BY <1>1, <1>2, <1>3, <1>4, <1>5 DEF MapInv, D!Clear, D!Returns

LEMMA InitIsEmpty == ASSUME Init PROVE MapInv /\ D!Init
<1>1. cap_bits \in Bits /\ Array(buckets, cap_bits) /\ StoredIn(buckets) = {} /\ Cardinality({}) = 0
  BY EmptyMap DEF Init
<1>2. Stored = {} BY <1>1, StoredIsIn
<1>3. Ahead = {} BY AheadIsIn, NothingOrdered DEF Init
<1>4. cap = 0 BY DEF Init, cap
<1> QED BY <1>1, <1>2, <1>3, <1>4 DEF Init, MapInv, D!Init

\* Dictionary counts with an instance of Cardinality of its own.
LEMMA SameCount == ASSUME NEW S PROVE D!Cardinality(S) = Cardinality(S)
BY DEF Cardinality, D!Cardinality

LEMMA NextIsDictionary == ASSUME MapInv, Next PROVE MapInv' /\ D!Next
<1>1. ASSUME NEW p \in Ptr, NEW strategy \in {"ADD", "SET", "UPDATE", "APPEND"}, hashmap__insert(p, strategy)
      PROVE  MapInv' /\ D!Next
  <2>1. MapInv' /\ D!Insert(p, strategy) /\ sz' = Cardinality(Stored')
    BY <1>1, InsertFoundStep, InsertMissingStep, InsertNewStep, GrowFailsStep DEF hashmap__insert
  <2> QED BY <2>1, SameCount DEF D!Next
<1>2. ASSUME NEW p \in Ptr, hashmap__find(p) PROVE MapInv' /\ D!Next BY <1>2, FindStep, SameCount DEF D!Next
<1>3. ASSUME NEW p \in Ptr, hashmap__delete(p) PROVE MapInv' /\ D!Next BY <1>3, DeleteStep, SameCount DEF D!Next
<1>4. ASSUME hashmap__free PROVE MapInv' /\ D!Next BY <1>4, FreeStep, SameCount DEF D!Next
<1> QED BY <1>1, <1>2, <1>3, <1>4 DEF Next

(***************************************************************************)
(* Theorems.                                                                *)
(***************************************************************************)
\* In every reachable state each object is once in the array, in the chain its
\* hash leads to, under a key it owns, and sz counts the objects.
THEOREM HashMapInvariant == Spec => []MapInv
<1>1. Init => MapInv BY InitIsEmpty
<1>2. MapInv /\ [Next]_vars => MapInv'
  <2> SUFFICES ASSUME MapInv, [Next]_vars PROVE MapInv' OBVIOUS
  <2>1. CASE Next BY <2>1, NextIsDictionary
  <2>2. CASE UNCHANGED vars BY <2>2, NothingMoved DEF vars
  <2> QED BY <2>1, <2>2
<1> QED BY <1>1, <1>2, PTL DEF Spec

\* hashmap__set over an entry takes the new key with the new value, so no
\* entry is left with the key of a node that lawn.c has freed.
THEOREM HashMapKeysAreOwned == Spec => []KeysAreOwned
BY HashMapInvariant, MapInvOwned, PTL

\* hashmap__insert by any strategy, hashmap__find, hashmap__delete and
\* hashmap__free are steps of Dictionary, however keys collide and wherever an
\* allocation failed: the object of a key that is found, replaced and deleted
\* is the one in front, a new one comes in front, and a grow turns the order
\* around, so that it is not always the one inserted last (hashmap.h:77-79).
THEOREM HashMapImplementsDictionary == Spec => ImplementsDictionary
<1>1. Init => D!Init BY InitIsEmpty
<1>2. MapInv /\ [Next]_vars => [D!Next]_(D!vars)
  <2> SUFFICES ASSUME MapInv, [Next]_vars PROVE [D!Next]_(D!vars) OBVIOUS
  <2>1. CASE Next BY <2>1, NextIsDictionary
  <2>2. CASE UNCHANGED vars
    <3>1. UNCHANGED <<buckets, cap_bits, sz, ret>> BY <2>2 DEF vars
    <3>2. Stored' = Stored /\ Ahead' = Ahead /\ cap' = cap BY <3>1, NothingMoved
    <3> QED BY <3>1, <3>2 DEF D!vars
  <2> QED BY <2>1, <2>2
<1> QED BY <1>1, <1>2, HashMapInvariant, PTL DEF Spec, ImplementsDictionary, D!Spec
================================================================================
