SPECIFICATION FairSpec
CONSTANTS
    p1 = p1  p2 = p2  n1 = n1  n2 = n2  ip1 = ip1  ip2 = ip2  s1 = s1  s2 = s2
    NoName = NoName  NoIP = NoIP  NoService = NoService
    Pubips = {p1}
    AzNames = {n1}
    IPs = {ip1, ip2}
    Services = {s1, s2}
    SpecIP <- OneSpecIP
    SpecService <- OneSpecService
    MaxGetAttempts = 2
    MaxCleanAttempts = 2
    AttemptsBound = 2
    DeletionGracePeriod = 1
    MaxTime = 4
    MaxUid = 1
    Faults = {}
    Habits = {"unassign"}
PROPERTIES DeletionTerminates
