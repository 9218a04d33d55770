SPECIFICATION FairSpec
CONSTANTS
    t1 = t1 t2 = t2 p1 = p1 p2 = p2
    Thread = {t1, t2}
    Process = {p1, p2}
    Owner <- Pair
    Type = {r}
    Unrestricted = any
    FromFilter = {any}
    TypeFilter = {any}
    MaxLife = 1
    MaxSent = 2
CHECK_DEADLOCK FALSE
PROPERTIES NoLostWakeup
