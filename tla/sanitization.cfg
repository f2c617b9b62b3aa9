CONSTANTS Last = 2  Retries = 1  MaxErrors = 2  Cap = 2  MaxFaults = 2
SPECIFICATION Spec
INVARIANTS TypeOK VerifiedLeavesNothing RefusedForCause FirmwareAttests
PROPERTY Settles
CHECK_DEADLOCK FALSE
