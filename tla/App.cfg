SPECIFICATION FairSpec
CONSTANTS
    r1 = r1  r2 = r2
    Replicas = {r1, r2}
    NoReplica = NoReplica
    Absent = Absent
    Unreadable = Unreadable  NoPath = NoPath  NoCredentials = NoCredentials
    Files <- MCFiles
    Infras <- MCInfras
    Switches <- MCSwitches
    MaxFailures = 3
INVARIANTS TypeOK AtMostOneActs AlwaysResynced DelaysBackOff
PROPERTIES EveryControllerRuns StopEnds
CHECK_DEADLOCK FALSE
