SPECIFICATION FairSpec
CONSTANTS
    a = a
    Names = {1, 2}
    Ours = {1, 2}
    IPs = {a}
    NoIP = NoIP
    MaxAllocations = 2
    MaxRetry = 52
    MaxStops = 1
    Faults = {"call"}
INVARIANTS TypeOK
PROPERTIES KeepsSteadyAddresses OrphansAreCleaned RetriesSlowDown
