SPECIFICATION FairSpec
CONSTANTS
  b1 = b1
  b2 = b2
  c1 = c1
  c2 = c2
  w1 = w1
  w2 = w2
  w3 = w3
  Nobody = Nobody
  Bays = {b1,b2}
  Callers = {c1,c2}
  Workers = {w1,w2}
  Starters = {c1}
  Limits = {1,2}
  Ops = {"cancel","limit"}
  Rechecks = FALSE
  MaxTokens = 3
  MaxTimeouts = 0
PROPERTIES QueueDrains WorkersEnd
CHECK_DEADLOCK FALSE
