SPECIFICATION Spec
CONSTANTS
    buyer = buyer
    other = other
    s1 = s1
    Admins = {a1, a2}
    Options <- ReplaceOnly
    Servers = {s1}
    Threads = {t1, t2}
    ServerOf <- OneProcess
    IAs = {buyer}
    Certs <- MCCerts
    NONE = NONE
    EMPTY = EMPTY
    MIXED = MIXED
    MaxBrokers = 2
    MaxRestarts = 1
    MaxContracts = 2
INVARIANTS
    TypeOK
    ContractsOfOneBroker
    FreshCachesMatch
    BuyersStayVerifiable
PROPERTIES
    KeySettles
