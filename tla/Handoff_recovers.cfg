CONSTANTS
    Scenario <- MovedOnly

SPECIFICATION FairSpec
PROPERTIES
    Recovers

CHECK_DEADLOCK FALSE
