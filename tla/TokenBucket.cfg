\* 1 token = 7 units, 3 units per tick, burst of 4, clock set back by up to 2.
SPECIFICATION BucketSpec
CONSTANTS
    Rate = 3
    Burst = 4
    Milli = 7
    Slack = 1
    MaxBack = 2
INVARIANTS
    RateBound
PROPERTIES
    RefinesIdeal
