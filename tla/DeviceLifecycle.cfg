\* A device is created and deleted from both sides while the queue works.
CONSTANTS
    phone = phone
    laptop = laptop
    user = user
    admin = admin
    Devices <- OnlyPhone
    Existing <- Nobody
    Lapsed <- Nobody
    Admins <- OnlyAdmin
    Users <- OnlyUser
    MaxAttempts = 2
    MaxFaults = 4
    MaxCrashes = 1
    NoDevice = NoDevice
    NoJob = NoJob
SPECIFICATION FairSpec
INVARIANTS FailureIsCovered FinalizedIsWhole
PROPERTY JobsEnd
CHECK_DEADLOCK FALSE
