CONSTANTS
    a = a
    b = b
    c = c
    d = d
    t1 = t1
    t2 = t2
    k1 = k1
    k2 = k2
    Server = {a, b}
    Thread = {t1}
    Key = {k1, k2}
    View <- PairsOrNone
    MaxChanges = 1
    MaxErrors = 2
    MaxRestarts = 0
SPECIFICATION FairSpec
INVARIANTS FailureMeansNoAnswer FailCountIsExact
PROPERTIES AlarmIsCleared
