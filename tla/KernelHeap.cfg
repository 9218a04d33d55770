SPECIFICATION Spec
CONSTANTS
    startAddress = 32
    endAddress = 172
    Request = {0, 5, 24}
    Alignment = {16}
    MaxLive = 4
CHECK_DEADLOCK FALSE
INVARIANTS TypeOK ListSound Coalesced ClientsIntact
