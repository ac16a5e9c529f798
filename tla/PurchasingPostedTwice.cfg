CONSTANTS
    p1 = p1
    p2 = p2
    s1 = s1
    q1 = q1
    r1 = r1
    r2 = r2
    flour = flour
    butter = butter
    Requests <- TwoRequests
    NoRequest = NoRequest
    Suppliers <- OneSupplier
    NoSupplier = NoSupplier
    Quotations <- OneQuotation
    NoQuotation = NoQuotation
    AnswerTo <- Answers
    MaxOrder = 1
    Receipts <- TwoReceipts
    NoReceipt = NoReceipt
    Items = {flour, butter}
    Ordered <- Wanted
    Deliveries <- Loads
SPECIFICATION Spec
INVARIANT PostedOnce
