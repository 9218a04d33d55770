SPECIFICATION Spec
CONSTANTS
    t1 = t1 t2 = t2 p1 = p1 p2 = p2
    Thread = {t1, t2}
    Process = {p1, p2}
    Owner <- Pair
    Type = {r, e}
    Unrestricted = any
    FromFilter = {any, p2}
    TypeFilter = {any, r}
    MaxLife = 2
    MaxSent = 1
CHECK_DEADLOCK FALSE
INVARIANTS TypeOK FifoDelivery
