SPECIFICATION FairSpec
CONSTANTS
  j1 = j1
  j2 = j2
  d1 = d1
  d2 = d2
  r1 = r1
  r2 = r2
  Jobs = {j1,j2}
  Devices = {d1,d2}
  Requests = {r1,r2}
  Batches <- FirmwareBatches
  Actors = {"cancel","sweep"}
  MaxWipes = 1
  MaxCrashes = 0
  MaxFaults = 1
INVARIANTS TypeOK PermitsConserved
 
