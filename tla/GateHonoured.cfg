\* Writes wait for a slot of the bucket with the one write slot of their run in
\* hand, and the runs for what the other holds and for what it was refused.
SPECIFICATION FairSpec
CONSTANTS
    Requests <- Four
    Runs = {"sweep", "call"}
    Buckets = {"app"}
    RunOf <- FourRuns
    BucketOf <- FourBuckets
    Writes = {1, 2}
    Fixed = {2, 3}
    WriteBound = 1
    RequestsAtOnce = 2
    RateRetries = 1
    StuckRetries = 1
    MaxRateWait = 1
    Waits = {0, 1, 2}
INVARIANTS
    WritesOnce
    RefusalsHonoured
    SlotsHeld
PROPERTIES
    EveryRequestEnds
