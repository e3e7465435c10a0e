SPECIFICATION Spec
CONSTANTS
    customer = customer
    None = None
    Reservations = {r1}
    PayIds = {p1, p2}
    SessionIds = {s1}
    Requests = {q1}
    Slots <- OneSlot
    Accounts = {customer}
    AccountOf <- OneCustomer
    PreventOverlaps = TRUE
    PolicyActive = FALSE
    Reported = {"SUCCEEDED", "FAILED"}
    Enabled = {"createPublic", "confirm", "cancel", "start", "complete", "noShow", "sessionStart", "sessionPause", "sessionResume", "sessionStop", "initiate", "webhook", "abort", "crash", "expire"}
SYMMETRY PaymentSymmetry
VIEW TillView
INVARIANTS
    WalletMatchesRefunds
    PaymentStateIsBacked
    StampsMatchStatus
PROPERTIES
    TerminalIsFinal
    KeepsItsPromise
    EndedSessionIsFinal
