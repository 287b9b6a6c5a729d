SPECIFICATION FairSpec
CONSTANTS
    a = a
    b = b
    Elsewhere = Elsewhere
    Clients = {a, b}
    Devices = {a, b}
    DeviceOf <- OneEach
    Entities = {e1}
    MaxRows <- MCMaxRows
    RowsOfA = 0
    RowsOfB = 2
    MaxHub = 2
    MaxFaults = 1
    PageLimit = 1
    PushLimit = 4
    HubCap = 4
INVARIANTS
    TypeOK
    NothingElseSkipped
PROPERTY
    EveryChangeReaches
