CONSTANTS
    p1 = p1
    midnight = midnight
    noon = noon
    Slots = {p1}
    Variants = {v}
    Units = {1}
    Prices = {1}
    Unset = Unset
    Stamps = {midnight, noon}
    Labour = {1}
    MaxCalls = 2
SPECIFICATION Spec
INVARIANT DayClosedOnce
CHECK_DEADLOCK FALSE
