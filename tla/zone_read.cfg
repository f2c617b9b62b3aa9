CONSTANTS Capacities <- SomeCapacities  Block = 2  Total = 10  ZoneCount = 5  Small = 4
SPECIFICATION ZoneSpec
INVARIANT ZeroedIsRead
PROPERTY CheckEnds
CHECK_DEADLOCK FALSE
