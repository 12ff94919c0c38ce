SPECIFICATION ClientFairSpec
CONSTANTS
    NumClients = 2
    Sites = {"s1", "s2"}
    SiteOf <- MCSiteOf
    StatTypes <- MCStatTypes
    Alerts <- MCAlerts
    Readings <- MCReadings
    BadMailboxes = {}
    MaxEpoch = 2
INVARIANTS
    ClientTypeOK
    OwnOutput
    ScriptPresent
    StaleOnlyAfterFailure
PROPERTIES
    RunEnds
CHECK_DEADLOCK FALSE
