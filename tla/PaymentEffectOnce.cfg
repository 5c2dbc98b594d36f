\* One payment, one delivery: what the claim is read to promise.
CONSTANTS
    sub = sub
    gift = gift
    webhook = webhook
    admin = admin
    reconciler = reconciler
    Records <- BothProducts
    Handlers <- TwoHandlers
    Reconciler = reconciler
    Subscription <- OnlySub
    Keyed <- OnlyGift
    Gift <- OnlyGift
    Revenue <- Nothing
    MaxConfirmed = 2
    Window = 2
    MaxFaults = 2
    NoRecord = NoRecord
SPECIFICATION Spec
INVARIANT EffectOnce
CHECK_DEADLOCK FALSE
