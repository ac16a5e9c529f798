\* Two concurrent first receipts without a lot.
SPECIFICATION Spec
CONSTANTS
    r1 = r1  r2 = r2  r3 = r3
    b1 = b1  b2 = b2  b3 = b3
    lotA = lotA  lotB = lotB
    Requests = {r1, r2}
    Rows = {b1, b2, b3}
    NoRow = NoRow
    NoRequest = NoRequest
    Lots = {lotA}
    NoLot = NoLot
    Unused = Unused
    Unpriced = Unpriced
    Quantities = {1}
    Costs = {1}
    Expiry <- MCExpiry
CHECK_DEADLOCK FALSE
INVARIANTS OneRowPerLotId
