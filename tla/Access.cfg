\* One device and two requests beside the worker; two countries of two slots,
\* two phones and one sync.
CONSTANTS
    phone = phone
    laptop = laptop
    bot = bot
    panel = panel
    view = view
    Devices = {1}
    Handlers = {bot, panel}
    Worker = "worker"
    PaidDays = 2
    AdminDays = 1
    TrialDays = 2
    Horizon = 3
    MaxOperations = 3
    MaxPushFaults = 1
    MaxDeaths = 1
    Countries <- MCCountries
    Visible = "de"
    XrayCountries = {"dk"}
    MaxSlots = 2
    Phones = {phone, laptop}
    Syncers = {view}
    MaxLegacy = 1
    MaxChanges = 2
    MaxRuns = 2
    MaxNodeFaults = 1
    MaxSlotCrashes = 1
    NoPhone = "nobody"
SPECIFICATION Spec
SYMMETRY MCSymmetry
INVARIANTS OffClockIsMarked BindingsExclusive RoutesMatchPanel
PROPERTIES PaidDaysKept DevicesWithinLimit
CHECK_DEADLOCK FALSE
