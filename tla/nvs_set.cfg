\* Puts of absent keys, removes, scrubs on a partition of three pages: compaction
\* and scrubbing at work, no power cut.
SPECIFICATION SetSpec
CONSTANTS
  v1 = v1
  v2 = v2
  v3 = v3
  a = a
  n1 = n1
  n2 = n2
  None = None
  Size <- MCSize
  NPages = 3
  Slots = 4
  Namespaces = {n1, n2}
  Names = {a, b}
  Values = {v1, v2}
  MaxNamespaces = 2
  MaxChunks = 2
  Images <- BlankOrForeign
  MaxCalls = 4
  MaxCrashes = 0
  MaxFaults = 0
INVARIANTS
  TypeOK
  ReserveKept
  ChunksOwned
  OneEntryEach
  ScrubLeavesOnlyLive
  NamespacesApart
  TidyBetweenCalls
PROPERTIES
  ImplementsSeam
\* the callers stop after MaxCalls calls
CHECK_DEADLOCK FALSE
