\* Two faults anywhere, all three stages of a resize.
SPECIFICATION FairSpec
CONSTANTS
    n1 = n1
    n2 = n2
    n3 = n3
    b1 = b1
    b2 = b2
    Server = {n1, n2, n3}
    VBucket = {b1, b2}
    Self = n1
    Config <- MCConfig
    MaxFaults = 2
    InitTag = {TRUE, FALSE}
INVARIANTS
    TrustedTagMeansUpToDate
    NoLostWakeup
    QuietShutdown
    ResyncsNotRepeated
PROPERTIES
    ViewFixedDuringResync
    HandlersRun
    ShutdownCompletes
    ReloadLeadsToResync
    UntaggedIsResynced
    AlarmClears
