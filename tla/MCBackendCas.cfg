CONSTANTS
    a = a
    b = b
    c = c
    d = d
    t1 = t1
    t2 = t2
    k1 = k1
    k2 = k2
    Server = {a, b}
    Thread = {t1, t2}
    Key = {k1}
    View <- Pair
    MaxChanges = 3
    MaxErrors = 0
    MaxRestarts = 0
SPECIFICATION Spec
PROPERTIES NoLostUpdate
SYMMETRY Swapped
