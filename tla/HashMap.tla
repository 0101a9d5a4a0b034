------------------------------- MODULE HashMap -------------------------------
(***************************************************************************)
(* src/utils/hashmap.c, the chained hash map that holds the queues and the  *)
(* elements of lawn.c.  A chain is the sequence of its entries.  A caller    *)
(* inserts, under key pointer p, the object that owns what p points to: an   *)
(* entry is made with both fields p.                                        *)
(***************************************************************************)
EXTENDS Iteration, Sequences, FiniteSets

CONSTANTS
  Ptr,      \* key pointers
  Str,      \* what each points to
  Hash,     \* the top MaxBits bits of hash_fn(key) * 11400714819323198485
  MaxBits,  \* bound on cap_bits
  NULL

ASSUME HashMapAssumption ==
  /\ IsFiniteSet(Ptr) /\ NULL \notin Ptr
  /\ MaxBits \in Nat
  /\ \A p, o \in Ptr : Str[p] = Str[o] => Hash[p] = Hash[o]
  /\ \A p \in Ptr : Hash[p] \in 0 .. (2 ^ MaxBits - 1)

VARIABLES
  buckets,   \* the array of chains; <<>> stands for no array
  cap_bits,
  sz,
  ret        \* [err, old] of the last call

vars == <<buckets, cap_bits, sz, ret>>

HASHMAP_MIN_CAP_BITS == 2

\* The types: an entry, and an array of 2^bits chains.
hashmap_entry == [key : Ptr, value : Ptr]
Chains(bits) == [0 .. (2 ^ bits - 1) -> Seq(hashmap_entry)]

cap == IF buckets = <<>> THEN 0 ELSE 2 ^ cap_bits

hash_bits(p, bits) == Hash[p] \div 2 ^ (MaxBits - bits)

Members(chain) == {chain[i] : i \in DOMAIN chain}
Entries == UNION {Members(buckets[b]) : b \in DOMAIN buckets}

hashmap_needs_to_grow == cap = 0 \/ ((sz + 1) * 4) \div 3 > cap

NewBits == IF cap_bits + 1 < HASHMAP_MIN_CAP_BITS THEN HASHMAP_MIN_CAP_BITS ELSE cap_bits + 1

hashmap_add_entry(chain, entry) == <<entry>> \o chain

hashmap_del_entry(chain, i) ==
  [j \in 1 .. (Len(chain) - 1) |-> IF j < i THEN chain[j] ELSE chain[j + 1]]

\* A round of the loop of hashmap_grow over the entries of a chain, and one
\* over the chains: each entry goes to the front of its chain in the array to.
Relinking(chain, bits) ==
  [g \in [i : Nat, to : Chains(bits)] |->
     LET e == chain[g.i + 1]
     IN  [i |-> g.i + 1,
          to |-> [g.to EXCEPT ![hash_bits(e.key, bits)] = hashmap_add_entry(@, e)]]]

Rehashing(bits) ==
  [g \in [bkt : Nat, to : Chains(bits)] |->
     LET chain == buckets[g.bkt]
     IN  [bkt |-> g.bkt + 1,
          to |-> Iterate(Relinking(chain, bits), [i |-> 0, to |-> g.to], Len(chain)).to]]

hashmap_grow_mutant(bits) ==
  [b \in 0 .. (2 ^ bits - 1) |-> IF b < cap THEN buckets[b] ELSE <<>>]

hashmap_grow(bits) ==
  LET new_buckets == [b \in 0 .. (2 ^ bits - 1) |-> <<>>]
  IN  Iterate(Rehashing(bits), [bkt |-> 0, to |-> new_buckets], cap).to

\* Where hashmap_find_entry finds the key of p: positions in its chain, of
\* which the first is taken.
Matches(p) ==
  IF buckets = <<>> THEN {}
  ELSE {i \in DOMAIN buckets[hash_bits(p, cap_bits)] :
          Str[buckets[hash_bits(p, cap_bits)][i].key] = Str[p]}

hashmap_find_entry(p) == CHOOSE i \in Matches(p) : \A j \in Matches(p) : i <= j

Entry(p) == buckets[hash_bits(p, cap_bits)][hashmap_find_entry(p)]

Returns(err, old) == ret' = [err |-> err, old |-> old]

Overwritten_mutant(e, p) == [e EXCEPT !.value = p]

Overwritten(e, p) == [e EXCEPT !.key = p, !.value = p]

\* Each object is in the map at most once.
Fresh(p) == \A e \in Entries : e.value # p

-------------------------------------------------------------------------------
Init ==
  /\ buckets = <<>> /\ cap_bits = 0 /\ sz = 0
  /\ ret = [err |-> "none", old |-> NULL]

\* The key is in the map: SET and UPDATE overwrite its entry, ADD refuses.
InsertFound(p, strategy) ==
  /\ strategy # "APPEND" /\ Matches(p) # {}
  /\ IF strategy = "ADD"
     THEN buckets' = buckets /\ Returns("EEXIST", Entry(p).value)
     ELSE /\ buckets' = [buckets EXCEPT ![hash_bits(p, cap_bits)] =
                           [@ EXCEPT ![hashmap_find_entry(p)] = Overwritten(Entry(p), p)]]
          /\ Returns("OK", Entry(p).value)
  /\ UNCHANGED <<cap_bits, sz>>

InsertMissing(p, strategy) ==
  /\ strategy = "UPDATE" /\ Matches(p) = {}
  /\ Returns("ENOENT", NULL)
  /\ UNCHANGED <<buckets, cap_bits, sz>>

Addable(p, strategy) ==
  strategy = "APPEND" \/ (strategy \in {"ADD", "SET"} /\ Matches(p) = {})

\* A new entry.  malloc fails, if it does, after the map has grown.
InsertNew(p, strategy, mallocFails) ==
  /\ Addable(p, strategy)
  /\ LET bits == IF hashmap_needs_to_grow THEN NewBits ELSE cap_bits
         room == IF hashmap_needs_to_grow THEN hashmap_grow(bits) ELSE buckets
     IN  /\ bits <= MaxBits
         /\ cap_bits' = bits
         /\ IF mallocFails
            THEN buckets' = room /\ sz' = sz /\ Returns("ENOMEM", NULL)
            ELSE /\ buckets' = [room EXCEPT ![hash_bits(p, bits)] =
                                  hashmap_add_entry(@, [key |-> p, value |-> p])]
                 /\ sz' = sz + 1
                 /\ Returns("OK", NULL)

\* calloc of the new array fails.
GrowFails(p, strategy) ==
  /\ Addable(p, strategy)
  /\ hashmap_needs_to_grow
  /\ Returns("ENOMEM", NULL)
  /\ UNCHANGED <<buckets, cap_bits, sz>>

hashmap__insert(p, strategy) ==
  /\ Fresh(p)
  /\ \/ InsertFound(p, strategy)
     \/ InsertMissing(p, strategy)
     \/ \E mallocFails \in BOOLEAN : InsertNew(p, strategy, mallocFails)
     \/ GrowFails(p, strategy)

hashmap__find(p) ==
  /\ IF Matches(p) = {} THEN Returns("missing", NULL) ELSE Returns("found", Entry(p).value)
  /\ UNCHANGED <<buckets, cap_bits, sz>>

hashmap__delete(p) ==
  /\ IF Matches(p) = {} THEN Returns("missing", NULL) /\ UNCHANGED <<buckets, sz>>
     ELSE /\ buckets' = [buckets EXCEPT ![hash_bits(p, cap_bits)] =
                           hashmap_del_entry(@, hashmap_find_entry(p))]
          /\ sz' = sz - 1
          /\ Returns("found", Entry(p).value)
  /\ UNCHANGED cap_bits

\* The map is freed and another made.  hashmap__clear leaves map->buckets
\* dangling; lawn.c calls it only from hashmap__free.
hashmap__free ==
  /\ buckets' = <<>> /\ cap_bits' = 0 /\ sz' = 0
  /\ Returns("none", NULL)

Next ==
  \/ \E p \in Ptr, strategy \in {"ADD", "SET", "UPDATE", "APPEND"} : hashmap__insert(p, strategy)
  \/ \E p \in Ptr : hashmap__find(p)
  \/ \E p \in Ptr : hashmap__delete(p)
  \/ hashmap__free

Spec == Init /\ [][Next]_vars

(***************************************************************************)
(* Properties.                                                              *)
(***************************************************************************)
\* An entry always points to a key that its own value owns: when an element
\* is set again hashmap__set takes the new key too, so freeing the node that
\* was replaced leaves no dangling key in the map.
KeysAreOwned == \A e \in Entries : e.key = e.value

Stored == {e.value : e \in Entries}

\* Of two objects of one key, the first comes before the second in their chain.
Ahead ==
  {w \in Stored \X Stored :
     /\ Str[w[1]] = Str[w[2]]
     /\ \E b \in DOMAIN buckets : \E i, j \in DOMAIN buckets[b] :
          i < j /\ buckets[b][i].value = w[1] /\ buckets[b][j].value = w[2]}

\* Whatever collided, moved or failed in between, insertion by each strategy,
\* find and delete work on the object of the key that is in front, as
\* Dictionary says, and hashmap__size counts the entries.
D == INSTANCE Dictionary WITH
  stored <- Stored,
  ahead <- Ahead,
  capacity <- cap,
  size <- sz

ImplementsDictionary == D!Spec
===============================================================================
