SPECIFICATION Spec
CONSTANTS
    a = a
    b = b
    Elsewhere = Elsewhere
    Clients = {a}
    Devices = {a}
    DeviceOf <- OneEach
    Entities = {e1}
    MaxRows <- MCMaxRows
    RowsOfA = 2
    RowsOfB = 0
    MaxHub = 3
    MaxFaults = 0
    PageLimit = 4
    PushLimit = 4
    HubCap = 4
INVARIANT
    SyncedWasDelivered
