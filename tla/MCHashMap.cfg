\* Colliding keys, keys stored in two copies, and an array that grows twice.
SPECIFICATION Spec
CONSTANTS
  a1 = a1
  a2 = a2
  b1 = b1
  c1 = c1
  c2 = c2
  d1 = d1
  NULL = NULL
  Ptr <- AllPtr
  Str <- Strings
  Hash <- Hashes
  MaxBits = 3
INVARIANTS
  KeysAreOwned
PROPERTY ImplementsDictionary
