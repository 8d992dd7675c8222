\* Two OTA slots, with and without a factory app.
SPECIFICATION FairSpec
CONSTANTS
  OtaCount = 2
  MaxResets = 4
  MaxFaults = 1
  MaxUpdates = 3
INVARIANTS
  TypeOK
  OneTry
  TrustedEntryKept
PROPERTIES
  BoardBoots
\* the app runs on when its updates and the resets are spent
CHECK_DEADLOCK FALSE
