SPECIFICATION Spec
CONSTANTS
    terminal = terminal
    child = child
    terminalThread = terminalThread
    childThread = childThread
    Process <- MCProcess
    Thread <- MCThread
    Parent <- MCParent
    FirstProcess = terminal
    Stream = {s1, s2, s3}
    Keyboard = Keyboard
    Console = Console
    Null = Null
    capacity = 2
    PacketSize = 2
    MaxWrite = 2
INVARIANTS CountIsOccupancy
CHECK_DEADLOCK FALSE
