SPECIFICATION Spec
CONSTANTS
    BW_PERIOD = 2
    seller = seller
    buyer = buyer
    stranger = stranger
    BROKER = BROKER
    ip = ip
    s1 = s1
    s2 = s2
    t1 = t1
    t2 = t2
    NONE = NONE
    IAs <- MCRegistered
    Registered <- MCRegistered
    IPs <- MCIPs
    Threads = {t1, t2}
    Servers = {s1, s2}
    ServerOf <- TwoProcesses
    Submissions <- GoodSubmissions
    Demands <- TwoDemands
    Kinds = {"Purchase", "PurchaseEquivalent"}
    Faults = {"none", "bad_signature"}
    Crashing = {s1}
    MaxOffers = 4
INVARIANTS
    TypeOK
    Lineage
    OriginalsAreSellers
    SaleComplete
    ContractAuthentic
PROPERTIES
    RowsArePermanent
    ImplementsSpotMarket
