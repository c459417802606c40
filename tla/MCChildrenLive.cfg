CONSTANTS
  Pid = {p1, p2, p3}
  MAX_DELEGATE = 2
  StickyMAX_PARA = 2
  Backlog = 1
  ReportSize = 1
  MaxFrozen = 1
  MaxHups = 0
  MaxLost = 0
SPECIFICATION LiveSpec
PROPERTY Accepted
