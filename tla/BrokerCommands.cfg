SPECIFICATION FairSpec
CONSTANTS
    buyer = buyer
    other = other
    s1 = s1
    Admins = {a1, a2}
    Options <- AllOptions
    Servers = {}
    Threads = {}
    ServerOf <- NoThreads
    IAs = {}
    Certs = {}
    NONE = NONE
    EMPTY = EMPTY
    MIXED = MIXED
    MaxBrokers = 3
    MaxRestarts = 0
    MaxContracts = 0
INVARIANTS
    OneBroker
    FilesBelongTogether
PROPERTIES
    CommandsEnd
