CONSTANTS
    Frames <- MCFrames
    Results <- MCResults
    BucketLists <- MCBucketLists
    MaxFrames = 2
SPECIFICATION Spec
INVARIANTS DecodedAsSent SentIsProtocol RecordKept
