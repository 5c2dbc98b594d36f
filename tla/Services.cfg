\* Two users and three payments, three codes, a loud and a muted node, two
\* devices and a late one, two e-mails with two addresses.
CONSTANTS
    ann = ann
    bob = bob
    first = first
    second = second
    third = third
    days = days
    sale = sale
    gift = gift
    one = one
    two = two
    page = page
    phone = phone
    tablet = tablet
    home = home
    office = office
    People = {ann, bob}
    Bills = {first, second, third}
    Payer <- MCPayer
    Route <- MCRoute
    Bonus = 2
    Legacy <- MCLegacy
    Finalizers = {one, two}
    Readers = {page}
    MaxVisits = 2
    MaxDemotions = 1
    MaxAborts = 1
    Nobody = Nobody
    Buyers = {ann, bob}
    Codes = {days, sale, gift}
    Discounts = {sale, gift}
    Dated = {sale}
    Uses <- MCUses
    Redeemers = {one, two}
    Orders = {first, second}
    MaxRedeems = 2
    MaxLost = 1
    NoCode = NoCode
    Nodes = {1, 2}
    Muted = {2}
    Threshold <- MCThreshold
    Cooldown = 2
    MaxPasses = 3
    MaxHealthChanges = 3
    MaxPassDeaths = 1
    LastTick = 2
    OldDevices = {1, 2}
    NewDevices = {3}
    MaxRestoreTries = 2
    MaxCallFaults = 4
    MaxDashDeaths = 1
    Mails = {phone, tablet}
    Addresses = {home, office}
    Whitelist <- MCWhitelist
    Savers = {one}
    Enforcer = Enforcer
    MaxAddresses = 1
    LeaseTime = 1
    LastMoment = 4
    MaxSaves = 3
    MaxSeen = 2
    MaxNodeStops = 1
    NoFile = NoFile
SPECIFICATION Spec
SYMMETRY MCSymmetry
INVARIANTS OneRewardEach BalanceIsLedger FirstPaymentRewarded DaysAsRedeemed DiscountFollowsPayment AlarmsMatchFile UsersHearTheEnd FailedDeletionUndone OrphansExplained ConfigAsOrdered
PROPERTIES AlarmsSpaced PlacesKept
CHECK_DEADLOCK FALSE
