SPECIFICATION Spec
CONSTANTS
    me = me
    seller = seller
    buyer = buyer
    r1 = r1
    r2 = r2
    loopback = loopback
    p1 = p1
    p2 = p2
    p3 = p3
    EMPTY = EMPTY
    NONE = NONE
    isd_as = me
    IAs <- MCIAs
    Addresses <- MCAddresses
    PublicIPs <- MCPublicIPs
    router <- MCRouter
    min_port = 5
    max_port = 6
    attempts = 2
    Procs = {p1}
    Crashing = {}
    Clashing = {}
    Contracts <- OwnContract
    Topologies <- LowPortTopology
INVARIANTS
    PortInRange
