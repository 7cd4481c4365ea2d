CONSTANTS
    Loop = {l1, l2}
    MaxAttempt = 2
    User = {get, set}
    MaxLength = 0
    DisableOfflineQueue = FALSE
    Resubscribe <- OneResubscription
    HandshakeFits = TRUE
    CallsClose = TRUE
    AwaitsClose = TRUE

SPECIFICATION ClientSpec
INVARIANTS
    HandshakeFirst
    NoLeakedSocket
PROPERTIES
    CommandsSettle
    ConnectSettles

\* a client that is closed may stay closed
CHECK_DEADLOCK FALSE
