SPECIFICATION FSpec
CONSTANTS
    Clients = {c1}
    Slots = {s1}
    Server = Server
    None = None
    MaxWrite = 1
    Environments <- OneClient
PROPERTIES ClosedIsRecycled ConnectReturnsAtLast
CHECK_DEADLOCK FALSE
