\* The worker dies with a job in hand.
CONSTANTS
    phone = phone
    laptop = laptop
    user = user
    admin = admin
    Devices <- OnlyLaptop
    Existing <- OnlyLaptop
    Lapsed <- Nobody
    Admins <- OnlyAdmin
    Users <- Nobody
    MaxAttempts = 2
    MaxFaults = 1
    MaxCrashes = 1
    NoDevice = NoDevice
    NoJob = NoJob
SPECIFICATION FairSpec
PROPERTY StaleJobsAreRetaken
CHECK_DEADLOCK FALSE
