SPECIFICATION FairSpec
CONSTANTS
    BW_PERIOD = 2
    seller = seller
    buyer = buyer
    stranger = stranger
    BROKER = BROKER
    ip = ip
    s1 = s1
    s2 = s2
    t1 = t1
    t2 = t2
    NONE = NONE
    IAs <- MCIAs
    Registered <- MCRegistered
    IPs <- MCIPs
    Threads = {t1, t2}
    Servers = {s1}
    ServerOf <- OneProcess
    Submissions <- AllSubmissions
    Demands <- TwoDemands
    Kinds = {"Purchase", "PurchaseEquivalent"}
    Faults = {"none"}
    Crashing = {s1}
    MaxOffers = 4
INVARIANTS
    FetchedStaysAvailable
    NoIntegrityError
    AnsweredIsStored
    Conservation
    PortsDistinct
PROPERTIES
    MutexReleased
