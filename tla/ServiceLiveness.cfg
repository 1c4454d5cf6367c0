SPECIFICATION FairSpec
CONSTANTS
    s1 = s1  s2 = s2  ip1 = ip1  ip2 = ip2  a = a  NoIP = NoIP
    Services = {s1, s2}
    IPs = {ip1}
    Names = {a}
    NameOf <- MCNameOf
    MaxEdits = 4
    Faults = {"lag", "expire"}
PROPERTIES AddressesAreTracked OrphansAreReleased DeletionTerminates
CHECK_DEADLOCK FALSE
