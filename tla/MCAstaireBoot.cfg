\* A node boots: memcached has no tag and nothing goes wrong.
SPECIFICATION Spec
CONSTANTS
    n1 = n1
    n2 = n2
    n3 = n3
    b1 = b1
    b2 = b2
    Server = {n1, n2, n3}
    VBucket = {b1, b2}
    Self = n1
    Config <- MCConfig
    MaxFaults = 0
    InitTag = {FALSE}
INVARIANT
    TagMeansUpToDate
