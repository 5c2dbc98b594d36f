\* A dashboard deletion whose panel call fails, and what becomes of the client.
CONSTANTS
    phone = phone
    laptop = laptop
    user = user
    admin = admin
    Devices <- OnlyLaptop
    Existing <- OnlyLaptop
    Lapsed <- Nobody
    Admins <- OnlyAdmin
    Users <- Nobody
    MaxAttempts = 2
    MaxFaults = 1
    MaxCrashes = 0
    NoDevice = NoDevice
    NoJob = NoJob
SPECIFICATION FairSpec
PROPERTY DeferredCleanupHappens
CHECK_DEADLOCK FALSE
