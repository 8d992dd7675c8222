\* Puts over present values, some larger than MaxChunks chunks, with room enough
\* that no put compacts.
SPECIFICATION UndisturbedSpec
CONSTANTS
  v1 = v1
  v2 = v2
  v3 = v3
  a = a
  n1 = n1
  n2 = n2
  None = None
  Size <- MCSize
  NPages = 5
  Slots = 6
  Namespaces = {n1, n2}
  Names = {a}
  Values = {v1, v2, v3}
  MaxNamespaces = 1
  MaxChunks = 2
  Images <- BlankOnly
  MaxCalls = 4
  MaxCrashes = 0
  MaxFaults = 0
INVARIANTS
  ChunksOwned
PROPERTIES
  ImplementsSeam
\* the callers stop after MaxCalls calls
CHECK_DEADLOCK FALSE
