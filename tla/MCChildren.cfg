CONSTANTS
  Pid = {p1, p2, p3}
  MAX_DELEGATE = 2
  StickyMAX_PARA = 2
  Backlog = 1
  ReportSize = 2
  MaxFrozen = 1
  MaxHups = 1
  MaxLost = 1
SPECIFICATION Spec
SYMMETRY Symmetric
INVARIANTS TypeOK Counted KillsOwn NotTaken
PROPERTY Limited
