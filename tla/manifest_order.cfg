\* What parse accepts against what its docs say it accepts.
SPECIFICATION ManifestSpec
CONSTANTS
  TagLen <- MCTagLen
  MAX_FIELD_LEN = 64
  FieldLens = {64, 65}
  BackingLens = {0, 2}
  MaxDeclared = 3
INVARIANT
  AcceptedIsCanonical
\* a text is read once
CHECK_DEADLOCK FALSE
