------------------------------ MODULE MCHashMap ------------------------------
(* An instance of HashMap for TLC. *)
EXTENDS HashMap, TLC

CONSTANTS a1, a2, b1, c1, c2, d1

AllPtr == {a1, a2, b1, c1, c2, d1}

\* a and c have each two copies of their key.
Strings == (a1 :> "a" @@ a2 :> "a" @@ b1 :> "b" @@ c1 :> "c" @@ c2 :> "c" @@ d1 :> "d")

\* a, b and c share a chain of the first array; a and b also one of the
\* second.
Hashes == [p \in AllPtr |-> CASE Strings[p] \in {"a", "b"} -> 2
                               [] Strings[p] = "c" -> 3
                               [] OTHER -> 7]
===============================================================================
