SPECIFICATION FairSpec
CONSTANTS
    c1 = c1
    c2 = c2
    Clients = {c1, c2}
    Setups <- MCSetups
    MaxSends = 2
INVARIANTS
    SocketTypeOK
    FaithfulReports
    
    TakenOnce
    ClientOrderly
PROPERTIES
    SocketsSettle
CHECK_DEADLOCK FALSE
