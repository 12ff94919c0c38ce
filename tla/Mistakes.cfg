SPECIFICATION Spec
CONSTANTS
    Documents <- MCDocuments
    EventLogs <- MCEventLogs
    BlockSize = 3
INVARIANT
    MistakesStop
CHECK_DEADLOCK FALSE
