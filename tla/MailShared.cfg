SPECIFICATION MailerSpec
CONSTANTS
    NumClients <- MCNumClients
    Sites <- MCSites
    SiteOf <- MCSiteOf
    StatTypes <- MCStatTypes
    Alerts <- MCAlerts
    Readings <- MCReadings
    BadMailboxes <- MCBadMailboxes
    Letters <- MCLetters
INVARIANT SentMeansDelivered
CHECK_DEADLOCK FALSE
