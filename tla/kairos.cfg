\* The cell as it ships: two workers, fifty hand-offs each.
SPECIFICATION FairSpec
CONSTANTS
  LAPS = 50
INVARIANTS
  ViewsAgree
  FramesKept
  NeverDeclined
  ParkedBeforeReport
PROPERTIES
  Reports
