\* One Platega payment: the balance is credited between the quote and the record.
CONSTANTS
    manual = manual
    platega = platega
    w1 = w1
    Payments <- OnlyPlatega
    Manual <- NoPayments
    Price <- Prices
    Opening = 1
    MaxCredits = 1
    Writers <- OneWriter
    NoTask = NoTask
SPECIFICATION RecordsSpec
INVARIANT MoneyIsTheRest
CHECK_DEADLOCK FALSE
