CONSTANTS
    n1 = n1  n2 = n2  n3 = n3
    Node = {n1, n2, n3}
    Root = {n1, n2}
    Slot = {1, 2, 3}
    FirstOwner <- Owners
    SlotOf <- Slots
    MaxRedirections = 3
    Copies = 3
    Scenario <- MigrationOnly
    None = None

SPECIFICATION Spec
INVARIANT RepliesMatch

CHECK_DEADLOCK FALSE
