SPECIFICATION FairSpec
CONSTANTS
    CPUs = {c1, c2}
    Elems = {e1, e2}
    RingSlots = 1
    Packets <- MCMorePackets
    FirstPort = 30042
    LastPort = 30051
    NoKey = NoKey
    NoHop = NoHop
    MaxPackets = 3
INVARIANTS
    TypeOK
    NoHopForgotten
    EveryPacketOnce
    OnlyProviderHops
PROPERTIES
    HopsAreLogged
CHECK_DEADLOCK FALSE
