SPECIFICATION Spec
CONSTANTS
    customer = customer
    None = None
    Reservations = {r1}
    PayIds = {}
    SessionIds = {s1, s2}
    Requests = {q1, q2}
    Slots <- TwoSlots
    Accounts = {customer}
    AccountOf <- OneCustomer
    PreventOverlaps = TRUE
    PolicyActive = TRUE
    Reported = {"SUCCEEDED", "FAILED"}
    Enabled = {"createPublic", "update", "confirm", "cancel", "start", "complete", "abort"}
SYMMETRY RequestSymmetry
INVARIANTS
    RunningHasItsSession
    AnnouncedIsCommitted
PROPERTY
    EditsOnlyLive
