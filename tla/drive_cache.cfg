CONSTANTS
    x = x  c1 = c1
    Drives = {x}  Clients = {c1}
    Devices = {1}  TTL = 2
    MaxEvents = 2
SPECIFICATION Spec
INVARIANT PendingOwned
PROPERTIES CacheConverges SmartArrives
