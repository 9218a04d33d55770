SPECIFICATION FairSpec
CONSTANTS
    Thread = {t1, t2, t3}
    NoThread = null
    MaxWaits = 3
CHECK_DEADLOCK FALSE
PROPERTIES WaiterServed
