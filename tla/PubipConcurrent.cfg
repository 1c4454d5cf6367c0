SPECIFICATION Spec
CONSTANTS
    p1 = p1  p2 = p2  n1 = n1  n2 = n2  ip1 = ip1  ip2 = ip2  s1 = s1  s2 = s2
    NoName = NoName  NoIP = NoIP  NoService = NoService
    Pubips = {p1, p2}
    AzNames = {n1, n2}
    IPs = {ip1, ip2}
    Services = {s1}
    SpecIP <- TwoSpecIP
    SpecService <- TwoSpecService
    MaxGetAttempts = 1
    MaxCleanAttempts = 1
    AttemptsBound = 1
    DeletionGracePeriod = 0
    MaxTime = 2
    MaxUid = 1
    Faults = {}
    Habits = {}
PROPERTIES CleansOnlyItsOwn LeaksOnlyAfterGivingUp
