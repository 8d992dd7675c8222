\* A compaction cut inside an entry, then puts in two new namespaces.
SPECIFICATION Spec
CONSTANTS
  v1 = v1
  v2 = v2
  v3 = v3
  a = a
  n1 = n1
  n2 = n2
  None = None
  Size <- MCSize
  NPages = 3
  Slots = 7
  Namespaces = {n1, n2, n3}
  Names = {a}
  Values = {v1}
  MaxNamespaces = 3
  MaxChunks = 2
  Images <- CompactableOnly
  MaxCalls = 3
  MaxCrashes = 1
  MaxFaults = 0
INVARIANTS
  NewIndexUnused
\* the callers stop after MaxCalls calls
CHECK_DEADLOCK FALSE
