SPECIFICATION Spec
CONSTANTS
    None = None
    Managers = {m1, m2}
    PageIds = {p1, p2}
    Slugs = {a, b, c}
    Rows = {"GamingCenter", "GameStation", "User", "Settings", "CommissionPolicy"}
    Prices = {1, 2}
    Amounts = {1, 2}
    Commission = 2
    MaxEdits = 3
SYMMETRY OfficeSymmetry
CHECK_DEADLOCK FALSE
INVARIANTS
    TypeOK
    OldLinksWork
    NotModifiedIsRight
    BrandHasAltText
    AuditSpansItsEdit
    ChargedIsCovered
PROPERTY
    CenterStaysDeleted
