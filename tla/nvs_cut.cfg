\* One power cut and one failed flash operation anywhere, then more calls; the two caches beside
\* the writer, and a reader between its calls.
SPECIFICATION CacheFairSpec
CONSTANTS
  v1 = v1
  v2 = v2
  v3 = v3
  a = a
  n1 = n1
  n2 = n2
  None = None
  Size <- MCSize
  NPages = 3
  Slots = 5
  Namespaces = {n1, n2}
  Names = {a, b}
  Values = {v1, v2}
  MaxNamespaces = 2
  MaxChunks = 2
  VerifiedPages = 2
  Images <- BlankOrWorn
  MaxCalls = 2
  MaxCrashes = 1
  MaxFaults = 1
INVARIANTS
  PageDiscipline
  RememberedStands
  CachedIsScanned
PROPERTIES
  CallsReturn
