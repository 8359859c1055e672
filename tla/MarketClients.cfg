SPECIFICATION FairSpec
CONSTANTS
    p1 = p1
    p2 = p2
    g1 = g1
    g2 = g2
    PyBuyers = {p1, p2}
    GoBuyers = {g1, g2}
    Attempts = 2
    Units = 3
    MaxGoods = 1
    Indices <- MCIndices
    Equivalent = {g1}
    Lossy = {p2}
    NONE = NONE
INVARIANTS
    TypeOK
    GivesUpOutbid
    OneContractEach
    NoMoreThanTried
    VerdictIsTrue
PROPERTIES
    BuyersEnd
    ImplementsSpotMarket
CHECK_DEADLOCK FALSE
