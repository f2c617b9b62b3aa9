SPECIFICATION Spec
CONSTANTS
  q1 = q1
  q2 = q2
  c1 = c1
  Requests = {q1,q2}
  Clients = {c1}
  DriveKinds = {"nvme"}
  Grace = 1
  Estimated = 2
  Stale = 2
  Lag = 2
  Shortest = 1
  Stall = 1
  DbFails = {"lost"}
  Pass = 1
  LastStart = 1
  MaxTime = 3
INVARIANTS TypeOK VerdictIsTheDrives OneOpenRow
PROPERTIES CompletedStands TestsConclude
CONSTRAINT FirstComes
CHECK_DEADLOCK FALSE
