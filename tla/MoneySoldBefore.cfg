\* A sale, then a change of market, one request at a time.
SPECIFICATION Spec
CONSTANTS
    p1 = p1  p2 = p2  variant = variant  profile = profile
    friday = friday  india = india  usa = usa  None = None  Unknown = Unknown
    Requests = {p1}
    Priced = {variant}
    Vended = variant
    Days = {friday}
    Profile = profile
    Markets = {india, usa}
    CurrencyOf <- MCCurrencyOf
    MaxCalls = 2
CHECK_DEADLOCK FALSE
INVARIANTS SalesInItsCurrency
