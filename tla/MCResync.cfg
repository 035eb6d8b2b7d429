\* Every interleaving of the control thread and the tap threads of a resync.
SPECIFICATION FairSpec
CONSTANTS
    n1 = n1
    n2 = n2
    n3 = n3
    n4 = n4
    b1 = b1
    b2 = b2
    b3 = b3
    Server = {n1, n2, n3, n4}
    VBucket = {b1, b2, b3}
    Self = n1
    Views <- MCViews
INVARIANTS
    InTurn
    BlacklistHolds
    AllReplicasTried
    ReportIsTruthful
    ProgressBounded
PROPERTIES
    ImplementsBucketResync
    ResyncTerminates
