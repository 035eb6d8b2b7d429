CONSTANTS
    k1 = k1
    other = other
    tag = tag
    Key = {k1, tag}
    BucketKey = {k1, tag}
    TagKey = {tag}
    Half = 4
    StartTime = 8
    MaxWrites = 0
    MaxFaults = 1
SPECIFICATION Spec
INVARIANTS SuccessMeansAllSent
CHECK_DEADLOCK FALSE
