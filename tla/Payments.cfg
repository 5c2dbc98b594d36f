\* Two handlers and the reconciler race for a subscription and a gift; a manual
\* and a Platega payment share a balance, two writers do not lock what they read.
CONSTANTS
    sub = sub
    gift = gift
    webhook = webhook
    admin = admin
    reconciler = reconciler
    Records <- BothProducts
    Handlers <- TwoHandlers
    Reconciler = reconciler
    Subscription <- OnlySub
    Keyed <- OnlyGift
    Gift <- OnlyGift
    Revenue <- Nothing
    MaxConfirmed = 2
    Window = 2
    MaxFaults = 2
    NoRecord = NoRecord
    manual = manual
    platega = platega
    w1 = w1
    Payments <- BothPayments
    Manual <- OnlyManual
    Price <- Prices
    Opening = 1
    MaxCredits = 1
    Writers <- TwoHandlers
    NoTask = NoTask
SPECIFICATION PaymentsSpec
SYMMETRY HandlerSymmetry
INVARIANTS BoundedRepeats AppliedMeansDelivered ClaimExclusive NeverOvercharged ReservesBacked SettledInFull
PROPERTIES KeepsPromise KeepsPurse
CHECK_DEADLOCK FALSE
