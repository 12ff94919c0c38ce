SPECIFICATION PipelineFairSpec
CONSTANTS
    p1 = p1
    p2 = p2
    p3 = p3
    s1 = s1
    s2 = s2
    Processors = {p1, p2, p3}
    Senders = {s1, s2}
    MaxRequests = 3
INVARIANTS
    PipelineTypeOK
    EveryRequestOnce
    OvertakenIsHeld
PROPERTIES
    EveryRequestAnswered
CHECK_DEADLOCK FALSE
