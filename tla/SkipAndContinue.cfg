SPECIFICATION Spec
CONSTANTS
    NumClients = 2
    Sites = {"s1"}
    SiteOf <- MCSiteOf
    StatTypes <- MCStatTypes
    Alerts <- MCAlerts
    Readings <- MCReadings
    BadMailboxes = {2}
    Letters <- MCLetters
    MaxEpoch = 1
INVARIANT SkipAndContinue
CHECK_DEADLOCK FALSE
