SPECIFICATION FairSpec
CHECK_DEADLOCK FALSE
CONSTANTS
    N = 1
    PREFETCH = 2
    MAX_RECONNECT_ATTEMPTS = 2
    MAX_RETRIES = 1
    MaxTries = 2
    MaxTimers = 2
    MaxStrays = 1
    BrokerFaults = TRUE
    Crashes = FALSE
    DbFaults = FALSE
PROPERTY EventsProcessedAfterRecovery
