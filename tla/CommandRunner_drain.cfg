SPECIFICATION FairSpec
CONSTANTS
 Capacity=2
 MaxOutput=3
INVARIANTS OutputComplete
CHECK_DEADLOCK FALSE
