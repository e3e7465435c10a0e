SPECIFICATION Spec
CONSTANTS
    None = None
    Bookings = {b1, b2}
    DayLength = 24
    Week = 2
    Minute = 2
    Interval = 2
    Duration = 6
    Lengths <- TwoLengths
    Hours <- NightHours
    Starts <- MixedStarts
    Windows <- TwoPages
    Clock = {0, 10}
    Offsets <- ThreeZones
    PreventOverlaps = TRUE
    MaxClosed = 1
SYMMETRY BookingSymmetry
INVARIANTS
    TypeOK
    OffersAreBookable
    NothingHidden
    BookedInCenterHours
