SPECIFICATION Spec
CONSTANTS
    customer = customer
    None = None
    Reservations = {r1}
    PayIds = {p1}
    SessionIds = {}
    Requests = {q1}
    Slots <- OneSlot
    Accounts = {customer}
    AccountOf <- OneCustomer
    PreventOverlaps = TRUE
    PolicyActive = TRUE
    Reported = {"SUCCEEDED"}
    Enabled = {"createPanel", "cancel", "initiate", "webhook"}
PROPERTY KeepsDocumentedPromise
