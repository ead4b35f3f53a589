SPECIFICATION Spec
CONSTANTS
    Missing = Missing
    code = code
    data = data
    Service <- MCService
    FirstPublic = 10
    PublicIds = 5
    Manager = 1
    Registrar = 1
    k = k
    Item = {k}
    Hash = {code, data}
    Length = {1, 2}
    BlobSize <- MCBlobSize
    Expunge = 2
    Accounts0 <- MCAccounts0
    Slot0 = 4
    Worker = {1, 2}
    Late = {2}
    Program <- MCProgram
    Amount = {5}
    UpgradeCode = {1}
    Offset = {0, 300}
    ValueSize = {0, 1, 2}
    FirstId = {10}
    MaxSlot = 6
    MaxCalls = 3
CHECK_DEADLOCK FALSE
INVARIANT MapsFindAccount
