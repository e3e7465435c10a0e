SPECIFICATION Spec
CONSTANTS
    customer = customer
    None = None
    Reservations = {r1}
    PayIds = {p1, p2}
    SessionIds = {}
    Requests = {q1, q2}
    Slots <- OneSlot
    Accounts = {customer}
    AccountOf <- OneCustomer
    PreventOverlaps = TRUE
    PolicyActive = TRUE
    Reported = {"SUCCEEDED"}
    Enabled = {"createPublic", "cancel", "customerCancel", "initiate", "webhook", "abort"}
SYMMETRY MoneySymmetry
INVARIANTS
    TypeOK
    OnlyReportedIsCredited
    OneRequestPerEvent
PROPERTIES
    CancelLeavesNothingPaid
    KeyLeftOnlyByRedis
    OnlyEventsRefundAgain
