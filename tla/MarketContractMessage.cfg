SPECIFICATION Spec
CONSTANTS
    BW_PERIOD = 2
    seller = seller
    buyer = buyer
    stranger = stranger
    BROKER = BROKER
    ip = ip
    s1 = s1
    s2 = s2
    t1 = t1
    t2 = t2
    NONE = NONE
    IAs <- MCIAs
    Registered <- MCRegistered
    IPs <- MCIPs
    Threads = {t1}
    Servers = {s1}
    ServerOf <- OneThread
    Submissions <- GoodSubmissions
    Demands <- TwoDemands
    Kinds = {"Purchase", "PurchaseEquivalent"}
    Faults = {"none"}
    Crashing = {}
    MaxOffers = 4
INVARIANTS
    SignatureCoversMessage
