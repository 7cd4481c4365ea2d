CONSTANTS
    n1 = n1  n2 = n2  g1 = g1  g2 = g2
    c1 = c1  c2 = c2  u1 = u1
    Node = {n1, n2}
    FirstMaster = n1
    Guard = {g1, g2}
    Plain = {c1, c2}
    Session = {u1}
    Max = 1
    Scenario <- AllScenarios
    None = None

SPECIFICATION FairSpec
INVARIANTS
    LeaseExclusive
    ReadyMeansServed
    ClosedIsQuiet
    WatchHonoured
PROPERTIES
    CommandsSettle
    DestroyEnds

\* a sentinel client that is closed may stay closed
CHECK_DEADLOCK FALSE
