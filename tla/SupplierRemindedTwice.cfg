\* One call after the other, none lost track of.
CONSTANTS
    email = email
    sms = sms
    Email = email
    MaxCalls = 4
    Channels = {email}
    Reachable = {email}
    Day = 2
    MaxTime = 1
SPECIFICATION SerialSpec
INVARIANTS RemindersApart
CHECK_DEADLOCK FALSE
