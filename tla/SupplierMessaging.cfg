CONSTANTS
    email = email
    sms = sms
    Email = email
    MaxCalls = 3
    Channels = {email, sms}
    Reachable = {email, sms}
    Day = 1
    MaxTime = 1
SPECIFICATION FairSpec
INVARIANTS
    TypeOK
    RecordedIsTaken
    NothingTwice
PROPERTY SendingIsLeft
CHECK_DEADLOCK FALSE
