SPECIFICATION ClientSpec
CONSTANTS
    NumClients = 2
    Sites = {"s1", "s2"}
    SiteOf <- MCSiteOf
    StatTypes <- MCStatTypes
    Alerts <- MCAlerts
    Readings <- MCReadings
    BadMailboxes = {}
    MaxEpoch = 2
INVARIANT FreshOutput
CHECK_DEADLOCK FALSE
