SPECIFICATION FairSpec
CONSTANTS
    v1 = v1
    VMs = {v1}
    MaxGetAttempts = 2
    MaxReapplyAttempts = 2
    AttemptsBound = 2
    MaxUid = 1
    MaxGeneration = 1
    MaxLosses = 1
    Faults = {"get", "reapply"}
INVARIANTS TypeOK AlwaysScheduled RetriesBounded
PROPERTIES RepairedOrAlerted AlertEnds DeletionTerminates
