SPECIFICATION Spec
CONSTANTS
    a = a
    b = b
    Elsewhere = Elsewhere
    Clients = {a, b}
    Devices = {a, b}
    DeviceOf <- OneEach
    Entities = {e1}
    MaxRows <- MCMaxRows
    RowsOfA = 1
    RowsOfB = 1
    MaxHub = 2
    MaxFaults = 0
    PageLimit = 4
    PushLimit = 4
    HubCap = 4
INVARIANT
    MemoriesArrive
