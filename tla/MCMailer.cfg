SPECIFICATION MailerFairSpec
CONSTANTS
    NumClients <- MCNumClients
    Sites <- MCSites
    SiteOf <- MCSiteOf
    StatTypes <- MCStatTypes
    Alerts <- MCAlerts
    Readings <- MCReadings
    BadMailboxes <- MCBadMailboxes
    Letters <- MCLetters
INVARIANTS
    MailerTypeOK
    BodyIsText
    NoLeftoverReply
PROPERTIES
    SendEnds
CHECK_DEADLOCK FALSE
