SPECIFICATION FairSpec
CONSTANTS
    n1 = n1
    Nodes = {n1}
    MaxEdits = 5
INVARIANTS TypeOK OrphansAreNoticed
PROPERTIES FinalizerProtects HealthIsTracked OrphansAreReleased DeletionTerminates ImplementsFinalization
CHECK_DEADLOCK FALSE
