SPECIFICATION Spec
CONSTANTS
    customer = customer
    None = None
    Reservations = {r1}
    PayIds = {}
    SessionIds = {s1}
    Requests = {q1, q2}
    Slots <- OneSlot
    Accounts = {customer}
    AccountOf <- OneCustomer
    PreventOverlaps = TRUE
    PolicyActive = TRUE
    Reported = {}
    Enabled = {"createPanel", "cancel", "start", "complete"}
PROPERTY
    ContractTerminal
