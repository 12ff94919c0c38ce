SPECIFICATION SequentialSpec
CONSTANTS
    Documents <- MCDocuments
    EventLogs <- MCEventLogs
    BlockSize = 3
    Numbers = {"2", "200", "404"}
    Trees <- MCTrees
    Files <- MCFiles
    Messages <- MCMessages
INVARIANTS
    ConfigAgrees
    ReportFaithful
    TreesAgree
    FilesKept
    MessagesReturn
CHECK_DEADLOCK FALSE
