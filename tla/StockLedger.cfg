\* Two fair requests, on empty tables or on a lot in stock: two writers of one
\* row meet, two first movements of a lot, and an average mixes moments.
SPECIFICATION FairStockedSpec
CONSTANTS
    r1 = r1  r2 = r2  r3 = r3
    b1 = b1  b2 = b2  b3 = b3
    lotA = lotA  lotB = lotB
    Requests = {r1, r2}
    Rows = {b1, b2, b3}
    NoRow = NoRow
    NoRequest = NoRequest
    Lots = {lotA}
    NoLot = NoLot
    Unused = Unused
    Unpriced = Unpriced
    Quantities = {1, 2}
    Costs = {1, 4}
    Expiry <- MCExpiry
CHECK_DEADLOCK FALSE
INVARIANTS TypeOK NoNegativeStock OneRowPerLot CostWithinPaid
PROPERTIES Answered
