SPECIFICATION FairSpec
CONSTANTS
  j1 = j1
  j2 = j2
  d1 = d1
  d2 = d2
  r1 = r1
  r2 = r2
  Jobs = {j1}
  Devices = {d1}
  Requests = {r1}
  Batches <- SingleBatches
  Actors = {"cancel","kill","sweep","policy"}
  MaxWipes = 1
  MaxCrashes = 1
  MaxFaults = 0
INVARIANT RowMirrorsMemory
PROPERTIES VerdictFinalInMemory LedgerKept  
