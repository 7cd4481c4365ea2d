CONSTANTS
    Scenario <- AllScenarios

SPECIFICATION FairSpec
INVARIANTS
    RepliesOnCurrent
    WatchGuards
    
PROPERTIES
    WritingResumes

CHECK_DEADLOCK FALSE
