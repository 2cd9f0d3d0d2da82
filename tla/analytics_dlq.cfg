SPECIFICATION Spec
CHECK_DEADLOCK FALSE
CONSTANTS
    N = 2
    PREFETCH = 2
    MAX_RECONNECT_ATTEMPTS = 2
    MAX_RETRIES = 1
    MaxTries = 2
    MaxTimers = 2
    MaxStrays = 1
    BrokerFaults = FALSE
    Crashes = FALSE
    DbFaults = TRUE
INVARIANT FailedClicksAreDeadLetters
