CONSTANTS
    t1 = t1
    Tap = {t1}
    Buckets = {1}
    MaxKeys = 1
    MaxResyncs = 2
    MaxPeriods = 1
    MaxUnchanged = 2
SPECIFICATION FairSpec
INVARIANTS LostTickIsReported RecordsOutliveTaps
PROPERTIES FinishedIsResynced ReportsSettle DestructorReturns WaitSyncEnds
