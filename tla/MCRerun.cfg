SPECIFICATION Spec
CONSTANTS
    NumClients = 1
    Sites = {"s1"}
    SiteOf <- MCSiteOf
    StatTypes <- MCStatTypes
    Alerts <- MCAlerts
    Readings <- MCReadings
    BadMailboxes = {}
    Letters <- MCLetters
    MaxEpoch = 2
INVARIANTS
    RowsBeforeMail
    OneBatchPerRun
    AlertsBeforeLogs
PROPERTIES
    ImplementsCollection
CHECK_DEADLOCK FALSE
