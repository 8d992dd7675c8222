\* A put cut by power, then the same key put again.
SPECIFICATION FairSpec
CONSTANTS
  v1 = v1
  v2 = v2
  v3 = v3
  a = a
  n1 = n1
  n2 = n2
  None = None
  Size <- MCSize
  NPages = 3
  Slots = 5
  Namespaces = {n1}
  Names = {a}
  Values = {v1, v2}
  MaxNamespaces = 2
  MaxChunks = 2
  Images <- BlankOnly
  MaxCalls = 2
  MaxCrashes = 1
  MaxFaults = 0
INVARIANTS
  PutSticks
\* the callers stop after MaxCalls calls
CHECK_DEADLOCK FALSE
