SPECIFICATION Spec
CONSTANTS
    s1 = s1  s2 = s2  ip1 = ip1  ip2 = ip2  a = a  NoIP = NoIP
    Services = {s1}
    IPs = {ip1, ip2}
    Names = {a}
    NameOf <- MCNameOf
    MaxEdits = 4
    Faults = {"api", "crash", "lag", "expire"}
INVARIANTS TypeOK OrphansAreNoticed
PROPERTIES FinalizerProtects ImplementsFinalization
CHECK_DEADLOCK FALSE
