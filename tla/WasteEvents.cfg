CONSTANTS
    p1 = p1
    p2 = p2
    p3 = p3
    a = a
    Attempts <- ThreeAttempts
    NoAttempt = NoAttempt
    Keys = {k}
    NoKey = NoKey
    NoRow = NoRow
    Lots = {a}
    NoLot = NoLot
    InitialStock <- Single
    Quantities = {1}
    BulkSize = 2
SPECIFICATION FairSpec
INVARIANTS
    TypeOK
    OneEventPerKey
    NoNegativeStock
PROPERTIES
    ConflictIsAnswered
    KeepsPromise
    Answered
CHECK_DEADLOCK FALSE
