CONSTANTS
    x = x  y = y  p = p  k = k  l = l
    Channel = {x, y, p}
    TypeOf <- Types
    Listener = {k, l}
    Scenario <- AllScenarios
    None = None

SPECIFICATION FairSpec
INVARIANTS
    Aligned
    Hears
    IntentKept
PROPERTIES
    CallsSettle

CHECK_DEADLOCK FALSE
