SPECIFICATION Spec
CONSTANTS
  j1 = j1
  j2 = j2
  d1 = d1
  d2 = d2
  r1 = r1
  r2 = r2
  Jobs = {j1,j2}
  Devices = {d1,d2}
  Requests = {r1}
  Batches <- PairBatches
  Actors = {"kill","sweep"}
  MaxWipes = 2
  MaxCrashes = 0
  MaxFaults = 1
INVARIANTS CompletedAfterErase CertificateAgrees
PROPERTIES CompletedKept WithdrawnRefused
