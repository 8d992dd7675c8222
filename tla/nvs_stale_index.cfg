\* A put that compacts the page of the index it replaces.
SPECIFICATION FairSpec
CONSTANTS
  v1 = v1
  v2 = v2
  v3 = v3
  a = a
  n1 = n1
  n2 = n2
  None = None
  Size <- MCSize
  NPages = 3
  Slots = 5
  Namespaces = {n1}
  Names = {a, b}
  Values = {v1, v2}
  MaxNamespaces = 2
  MaxChunks = 2
  Images <- BlankOnly
  MaxCalls = 5
  MaxCrashes = 0
  MaxFaults = 0
INVARIANTS
  ReaderSeesAValue
\* the callers stop after MaxCalls calls
CHECK_DEADLOCK FALSE
