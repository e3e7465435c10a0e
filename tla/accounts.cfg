SPECIFICATION Spec
CONSTANTS
    None = None
    international = international
    Phones = {international}
    Normal <- OneSpelling
    MaxCodes = 2
    SessionIds = {s1}
    ProfileIds = {f1, f2}
    Bookings = {b1}
    Calls = {c1, c2}
    RequireOtp = TRUE
SYMMETRY CallSymmetry
INVARIANTS
    TypeOK
    SessionHasCode
    CustomerIsVerified
    NoOrphans
CHECK_DEADLOCK FALSE
