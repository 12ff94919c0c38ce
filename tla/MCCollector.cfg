SPECIFICATION FairSpec
CONSTANTS
    NumClients = 2
    Sites = {"s1"}
    SiteOf <- MCSiteOf
    StatTypes <- MCStatTypes
    Alerts <- MCAlerts
    Readings <- MCReadings
    BadMailboxes = {2}
    Letters <- MCLetters
    MaxEpoch = 1
INVARIANTS
    TypeOK
    RowsBeforeMail
    ThreadsIsolated
    SequentialMail
PROPERTIES
    ImplementsCollection
    RunTerminates
CHECK_DEADLOCK FALSE
