SPECIFICATION Spec
CONSTANTS
    Queues = {{}, {1, 2}, {1, 2, 3}}
    MaxRecords = 3
    RecordsPerPacket = 2
    Modulus = 16
    Start = 14
    MaxTransactions = 3
    MaxData = 2
    MaxControl = 1
INVARIANT TypeOK
INVARIANT ShowsSnapshot
INVARIANT BasesAgree
PROPERTY ImplementsRegister
