CONSTANTS
    c1 = c1
    Client = {c1}
    Kind = {"get", "delete", "quit", "response"}
    Hdr = 2
    MaxBody = 1
    MaxMessages = 3
    MaxFaults = 1
    MaxNoThread = 1
SPECIFICATION FairSpec
INVARIANTS FramingKept AnswersInOrder
PROPERTIES NoClientLeftWaiting DeadConnectionIsClosed
CHECK_DEADLOCK FALSE
