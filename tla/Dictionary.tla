------------------------------ MODULE Dictionary ------------------------------
(***************************************************************************)
(* What a caller of src/utils/hashmap.c sees of it: insertion by one of four *)
(* strategies, lookup and deletion by key, with the chains left out.  A      *)
(* caller in lawn.c stores, under the key pointer p, the object that owns    *)
(* what p points to; here both are p.  Str[p] is what p points to, and keys  *)
(* are compared by that.  HASHMAP_APPEND gives a key several objects, which  *)
(* stand in an order: the one in front is found, replaced and deleted, and a *)
(* new one comes in front.  A grow turns the order around.  So this is what  *)
(* the code does; that the object found is the last inserted, as hashmap.h   *)
(* says (lines 77-79), holds only until the map grows; it is not claimed.   *)
(***************************************************************************)
EXTENDS Naturals, FiniteSets

CONSTANTS Ptr, Str, NULL

VARIABLES
  stored,    \* the objects in the map
  ahead,     \* pairs of objects of one key: the first stands before the second
  capacity,  \* hashmap__capacity
  size,      \* hashmap__size
  ret        \* [err, old] of the last call; old is *old_key and *old_value

vars == <<stored, ahead, capacity, size, ret>>

Same(p) == {o \in stored : Str[o] = Str[p]}

Front(p) == {o \in Same(p) : \A q \in Same(p) \ {o} : <<o, q>> \in ahead}

Init ==
  /\ stored = {} /\ ahead = {} /\ capacity = 0 /\ size = 0
  /\ ret = [err |-> "none", old |-> NULL]

Returns(err, old) == ret' = [err |-> err, old |-> old]

Without(o) == {w \in ahead : w[1] # o /\ w[2] # o}

\* A new object p before the others of its key.
Before(p, others) == {<<p, q>> : q \in others}

\* The key is there and gets a new object, or it stays as it was.
Replace(p) ==
  /\ \E o \in Front(p) :
       /\ stored' = (stored \ {o}) \cup {p}
       /\ ahead' = Without(o) \cup Before(p, Same(p) \ {o})
       /\ Returns("OK", o)
  /\ UNCHANGED capacity

Refuse(p, err) ==
  /\ \E o \in Front(p) : Returns(err, o)
  /\ UNCHANGED <<stored, ahead, capacity>>

\* The order of all objects after a call that may have grown the map.
Regrown ==
  IF capacity' = capacity THEN ahead ELSE {w \in stored \X stored : <<w[2], w[1]>> \in ahead}

\* The key is added, unless memory runs out, perhaps after the map has grown.
Extend(p) ==
  /\ capacity' >= capacity
  /\ \/ /\ stored' = stored \cup {p}
        /\ ahead' = Regrown \cup Before(p, Same(p))
        /\ Returns("OK", NULL)
     \/ /\ stored' = stored
        /\ ahead' = Regrown
        /\ Returns("ENOMEM", NULL)

Insert(p, strategy) ==
  \/ strategy = "ADD" /\ Refuse(p, "EEXIST")
  \/ strategy \in {"SET", "UPDATE"} /\ Replace(p)
  \/ /\ strategy = "UPDATE" /\ Same(p) = {} /\ Returns("ENOENT", NULL)
     /\ UNCHANGED <<stored, ahead, capacity>>
  \/ strategy \in {"ADD", "SET"} /\ Same(p) = {} /\ Extend(p)
  \/ strategy = "APPEND" /\ Extend(p)

Find(p) ==
  /\ \/ \E o \in Front(p) : Returns("found", o)
     \/ Same(p) = {} /\ Returns("missing", NULL)
  /\ UNCHANGED <<stored, ahead, capacity>>

Delete(p) ==
  /\ \/ \E o \in Front(p) : stored' = stored \ {o} /\ ahead' = Without(o) /\ Returns("found", o)
     \/ Same(p) = {} /\ UNCHANGED <<stored, ahead>> /\ Returns("missing", NULL)
  /\ UNCHANGED capacity

Clear == stored' = {} /\ ahead' = {} /\ capacity' = 0 /\ Returns("none", NULL)

Next ==
  /\ \/ \E p \in Ptr, strategy \in {"ADD", "SET", "UPDATE", "APPEND"} : Insert(p, strategy)
     \/ \E p \in Ptr : Find(p) \/ Delete(p)
     \/ Clear
  /\ size' = Cardinality(stored')

Spec == Init /\ [][Next]_vars
===============================================================================
