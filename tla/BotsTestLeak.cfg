\* As Bots.cfg: one composer and the timer, a test of a message.
CONSTANTS
    one = one
    two = two
    hello = hello
    again = again
    ann = ann
    bob = bob
    desk1 = desk1
    Taps = {one, two}
    Products = {"renew", "gift", "topup", "slot"}
    MethodOf <- MCMethods
    Price <- MCPrice
    Discounted = 1
    StartBalance = 1
    MaxBills = 2
    MaxTaps = 3
    MaxLapses = 1
    LastAdmin = 2
    Messages = {hello, again}
    MaxActs = 2
    MaxFaults = 1
    NoOwner = NoOwner
    Composers = {desk1}
    Subscribers = {ann, bob}
    Reached = ann
    Forms <- MCForms
    Owner = Owner
    Timer = Timer
    MaxCampaigns = 2
    MaxDrafts = 1
    MaxTimerPasses = 2
    MaxMishaps = 1
    Items = {1, 2}
    Runners = {one, two}
    MaxTexts = 2
    MaxRuns = 3
    MaxPostFaults = 1
    f1 = f1
    f2 = f2
    f3 = f3
    s1 = s1
    Facts = {f1, f2, f3}
    Starts = {f1}
    Alarms = {hello, again}
    Tables <- MCTables
    Scheduled = Scheduled
    Operator = Operator
    Spawned = {s1}
    DayLength = 2
    HourLength = 2
    Lookback = 3
    RewindHours = 1
    Retention = 3
    LastTick = 5
    MaxRefreshes = 3
    MaxTogether = 2
    MaxRunDeaths = 1
    Devices = {1, 2}
    Home <- MCHome
    Staff = {one, two}
    MaxRepairs = 3
    MaxRepairFaults = 2
    MaxRepairDeaths = 1
SPECIFICATION Spec
SYMMETRY MCSymmetry
INVARIANT TestStaysWithTester
CHECK_DEADLOCK FALSE
