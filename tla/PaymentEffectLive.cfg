\* Liveness: a subscription or a gift, one handler without fairness, the fair
\* reconciler, two faults.
CONSTANTS
    sub = sub
    gift = gift
    webhook = webhook
    admin = admin
    reconciler = reconciler
    Records <- BothProducts
    Handlers <- OneHandler
    Reconciler = reconciler
    Subscription <- OnlySub
    Keyed <- OnlyGift
    Gift <- OnlyGift
    Revenue <- OnlySub
    MaxConfirmed = 1
    Window = 1
    MaxFaults = 2
    NoRecord = NoRecord
SPECIFICATION FairSpec
PROPERTY EventuallyConverged
CHECK_DEADLOCK FALSE
