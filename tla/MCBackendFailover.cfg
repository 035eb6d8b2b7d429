CONSTANTS
    a = a
    b = b
    c = c
    d = d
    t1 = t1
    t2 = t2
    k1 = k1
    k2 = k2
    Server = {a, b, c}
    Thread = {t1}
    Key = {k1}
    View <- Resize
    MaxChanges = 4
    MaxErrors = 0
    MaxRestarts = 1
SPECIFICATION Spec
INVARIANTS AckedIsRead
