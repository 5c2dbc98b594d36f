\* One manual payment: the buyer cancels while an administrator confirms.
CONSTANTS
    manual = manual
    platega = platega
    w1 = w1
    Payments <- OnlyManual
    Manual <- OnlyManual
    Price <- Prices
    Opening = 1
    MaxCredits = 1
    Writers <- OneWriter
    NoTask = NoTask
SPECIFICATION RecordsSpec
PROPERTY ConfirmedIsFinal
CHECK_DEADLOCK FALSE
