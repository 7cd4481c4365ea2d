CONSTANTS
    a = a  b = b  c1 = c1  c2 = c2
    Database = {a, b}
    FirstActive = a
    Heavy = {a}
    Command = {c1, c2}
    Policy = "ONE"
    NumProbes = 2
    MinFailures = 1
    MaxAttempts = 2
    Scenario <- AllScenarios
    Early = {"connect", "add"}
    None = None

SPECIFICATION FairSpec
INVARIANTS
    ServingActive
    NothingLeftBehind
    WatchHonoured
    StaysSubscribed
PROPERTIES
    OutageEnds

\* a client that is closed may stay closed
CHECK_DEADLOCK FALSE
