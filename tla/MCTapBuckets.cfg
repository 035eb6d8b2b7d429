CONSTANTS
    k1 = k1
    other = other
    tag = tag
    Key = {k1, other, tag}
    BucketKey = {k1, tag}
    TagKey = {tag}
    Half = 4
    StartTime = 8
    MaxWrites = 2
    MaxFaults = 1
SPECIFICATION MCFairSpec
INVARIANTS NoRecordLost
PROPERTIES TapNeverGoesBack TapEnds
CHECK_DEADLOCK FALSE
