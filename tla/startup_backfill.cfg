SPECIFICATION StartupSpec
CONSTANTS
    Nodes = {"a"}
    Legacy = {"x"}
    StartupWait = 3
    MaxBackoff = 2
    GatewayEnabled = TRUE
    MaxBootFaults = 0
    MaxRestarts = 1
CHECK_DEADLOCK FALSE
INVARIANT BackfillRetried
