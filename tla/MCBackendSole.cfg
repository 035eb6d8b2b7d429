CONSTANTS
    a = a
    b = b
    c = c
    d = d
    t1 = t1
    t2 = t2
    k1 = k1
    k2 = k2
    Server = {a}
    Thread = {t1}
    Key = {k1}
    View <- Sole
    MaxChanges = 0
    MaxErrors = 1
    MaxRestarts = 0
SPECIFICATION Spec
INVARIANTS NotFoundIsReported
