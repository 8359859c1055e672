SPECIFICATION Spec
CONSTANTS
    BW_PERIOD = 2
    NONE = NONE
    Profiles <- MCProfiles
    Demands <- MCDemands
INVARIANTS
    Correct
