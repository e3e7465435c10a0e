---- MODULE Schedule ----
(***************************************************************************)
(* The calendar of one staff member at one station: the weekly shifts, the *)
(* reservations that fall on it, the switches that open it to the public,  *)
(* and the free slots the availability page computes from them.  The       *)
(* page's arithmetic and the check a public booking makes are two separate *)
(* programs over the same rows; this module puts them side by side.        *)
(*                                                                         *)
(* Times are instants, counted in whole units since a midnight of the      *)
(* server's clock, Minute units to a minute, so that seconds exist.  The   *)
(* center has its own clock, ahead of the server's or behind: the code     *)
(* takes weekdays and hours from the one and dates from the other.  Both   *)
(* zones are assumed to keep their offset (no daylight saving).            *)
(*                                                                         *)
(* Each transaction is one step here: how two of them interleave is the    *)
(* subject of Booking.  Finding the customer is the subject of Accounts.   *)
(***************************************************************************)
EXTENDS LifecycleTables, Integers, FiniteSets, Folds

CONSTANTS
    None,
    Bookings,        \* reservations of the staff member
    DayLength,       \* units in a day
    Week,            \* days in a week
    Minute,          \* units in a minute
    Interval,        \* SLOT_INTERVAL_MINUTES
    Duration,        \* the station's defaultDurationHours, in units
    Lengths,         \* durations of the stations the staff member plays
    Hours,           \* rows a manager may enter for a day: [from, to, active]
    Starts,          \* start times that arrive in requests
    Windows,         \* [from, to]: the startDate and endDate of a page
    Clock,           \* the instants at which something happens
    Offsets,         \* units by which the zones in use are ahead of the server's
    PreventOverlaps, \* the center's setting of that name
    MaxClosed        \* bound: switches off at the same time

Switches == {"station", "staff", "public", "online"}

ASSUME CalendarAssumption ==
    /\ {DayLength, Week, Minute, Interval, Duration} \cup Lengths \subseteq Nat \ {0}
    /\ Starts \cup Clock \subseteq Nat
    /\ Offsets \subseteq Int /\ Offsets # {}
    /\ \A h \in Hours : /\ {h.from, h.to} \subseteq 0..(DayLength - 1)
                        /\ h.from % Minute = 0 /\ h.to % Minute = 0
    \* The query is refused unless endDate is after startDate.
    /\ \A w \in Windows : {w.from, w.to} \subseteq Nat /\ w.from < w.to

Row == [from : Nat, to : Nat, status : ReservationStatus]
ASSUME RowsAssumption == IsFiniteSet(Bookings) /\ None \notin Hours \cup Row

VARIABLES
    shift,   \* day of the week -> its StaffShift row, or None
    booking, \* reservation -> [from, to, status], or None
    open,    \* which of the Switches are on
    ahead,   \* the center's timeZone: how far it is ahead of the server's
    now

vars == <<shift, booking, open, ahead, now>>

\* Every variable holds a value of its kind: the upsert of some days leaves
\* the rows of the others in place, and a reservation ends after it starts.
TypeOK ==
    /\ shift \in [0..(Week - 1) -> Hours \cup {None}]
    /\ booking \in [Bookings -> Row \cup {None}]
    /\ \A b \in Bookings : booking[b] # None => booking[b].from < booking[b].to
    /\ open \subseteq Switches
    /\ ahead \in Offsets
    /\ now \in Clock
----------------------------------------------------------------------------
(* The rows as both programs read them.                                    *)

\* formatTz(t, 'yyyy-MM-dd', { timeZone }) names the date of the process's
\* own zone; format takes timeZone only to print it.
Date(t) == t \div DayLength

\* toZonedTime(t, timeZone): the date whose getDay() is asked for.
CenterDate(t) == (t + ahead) \div DayLength

ShiftOf(t) == shift[CenterDate(t) % Week]
Works(t) == ShiftOf(t) # None /\ ShiftOf(t).active

\* Mutant: the shift's hours are taken to be the server's.
ShiftStart_ServerClock(t) == Date(t) * DayLength + ShiftOf(t).from

\* getZonedStartAndEnd: the server's date with the center's time of day.  A
\* shift that ends after midnight ends before it starts.
ShiftStart(t) == Date(t) * DayLength + ShiftOf(t).from - ahead
ShiftEnd(t) == Date(t) * DayLength + ShiftOf(t).to - ahead

Held == {b \in Bookings : booking[b] # None}
Meets(b, from, to) == booking[b].from < to /\ booking[b].to > from

\* findOverlappingReservation does not count a session in progress.
Overlapping(from, to) ==
    {b \in Held : /\ booking[b].status \in {"PENDING", "CONFIRMED", "COMPLETED"}
                  /\ Meets(b, from, to)}

\* The shift is the one found for the start, and contains both ends.
FitsShift(from, to) ==
    Works(from) /\ from >= ShiftStart(from) /\ to <= ShiftEnd(from)
----------------------------------------------------------------------------
(* What changes the rows.                                                  *)

Init ==
    /\ shift = [w \in 0..(Week - 1) |-> None]
    /\ booking = [b \in Bookings |-> None]
    /\ open = Switches
    /\ ahead \in Offsets
    /\ now \in Clock

\* Mutant: the days that the batch does not name are dropped.
UpsertShifts_Replaces(batch) ==
    shift' = batch /\ UNCHANGED <<booking, open, ahead, now>>

\* One transaction for the whole batch; the reservations already on those
\* days are not looked at.
UpsertShifts(batch) ==
    /\ shift' = [d \in DOMAIN shift |-> IF d \in DOMAIN batch THEN batch[d] ELSE shift[d]]
    /\ UNCHANGED <<booking, open, ahead, now>>

\* An edit of the station, the staff member or the center's settings.
Switch(s) ==
    /\ open' = (open \cup {s}) \ (open \cap {s})
    /\ Cardinality(Switches \ open') <= MaxClosed
    /\ UNCHANGED <<shift, booking, ahead, now>>

\* The settings take any zone at any time; shifts and reservations stay.
SetTimeZone(z) ==
    ahead' = z /\ UNCHANGED <<shift, booking, open, now>>

Write(b, from, length, status) ==
    /\ booking' = [booking EXCEPT
           ![b] = [from |-> from, to |-> from + length, status |-> status]]
    /\ UNCHANGED <<shift, open, ahead, now>>

\* The desk books an active station and an active staff member at any time:
\* neither the shift nor the other reservations are checked.
CreateReservation(b, start, length) ==
    /\ booking[b] = None
    /\ {"station", "staff"} \subseteq open
    /\ Write(b, start, length, "CONFIRMED")

\* What createPublicReservation asks of a start time.
Bookable(start) ==
    /\ open = Switches
    /\ start >= now
    /\ FitsShift(start, start + Duration)
    /\ Overlapping(start, start + Duration) = {}

CreatePublicReservation(b, start) ==
    /\ booking[b] = None
    /\ Bookable(start)
    /\ \E status \in {"PENDING", "CONFIRMED"} : Write(b, start, Duration, status)

\* A new start time for a reservation at the same station, which may have
\* become inactive.
UpdateReservation(b, start) ==
    /\ b \in Held /\ booking[b].status \notin TerminalStates
    /\ LET length == booking[b].to - booking[b].from IN
          /\ FitsShift(start, start + length)
          /\ PreventOverlaps => Overlapping(start, start + length) \subseteq {b}
          /\ Write(b, start, length, booking[b].status)

Move(b, next) ==
    /\ b \in Held /\ MayMove(booking[b].status, next)
    /\ booking' = [booking EXCEPT ![b].status = next]
    /\ UNCHANGED <<shift, open, ahead, now>>

Pass == \E t \in Clock : t > now /\ now' = t /\ UNCHANGED <<shift, booking, open, ahead>>

Next ==
    \/ \E days \in SUBSET (0..(Week - 1)) \ {{}} :
          \E batch \in [days -> Hours] : UpsertShifts(batch)
    \/ \E s \in Switches : Switch(s)
    \/ \E z \in Offsets : SetTimeZone(z)
    \/ \E b \in Bookings :
          \/ \E t \in Starts : \/ CreatePublicReservation(b, t) \/ UpdateReservation(b, t)
                               \/ \E n \in Lengths : CreateReservation(b, t, n)
          \/ \E next \in ReservationStatus : Move(b, next)
    \/ Pass

Spec == Init /\ [][Next]_vars
----------------------------------------------------------------------------
(* The availability page: getAvailableSlots.                               *)

\* With a staffId the page shows an inactive staff member too; without one,
\* the active ones.  Whether the station is active is not asked.
ShowsStaff(named) == named \/ "staff" \in open

\* Mutant: only the reservations still to be played are read.
Fetched_Upcoming(w) ==
    {b \in Held : /\ booking[b].status \in {"PENDING", "CONFIRMED"}
                  /\ w.from <= booking[b].from /\ booking[b].to <= w.to}

\* findReservation: what starts and ends inside the window.
Fetched(w) ==
    {b \in Held : /\ booking[b].status \notin {"CANCELED", "NO_SHOW"}
                  /\ w.from <= booking[b].from /\ booking[b].to <= w.to}

\* The cursor starts at startDate and advances a day at a time to endDate,
\* included: a window of one whole day visits two days.
Cursors(w) == {w.from + n * DayLength : n \in 0..((w.to - w.from) \div DayLength)}

\* A reservation is keyed by the date it starts on.
Busy(w, d) == {b \in Fetched(w) : Date(booking[b].from) = Date(d)}

\* The day is walked from the start of the shift, in order of the starts.
Gap(from, to) == IF from < to THEN {[from |-> from, to |-> to]} ELSE {}
AtShiftStart(d) == [at |-> ShiftStart(d), done |-> FALSE, gaps |-> {}]
LastOf(bs) == CHOOSE b \in bs : \A c \in bs : booking[c].from <= booking[b].from

\* The gap before a reservation; the walk stops after the one that reaches
\* the end of the shift, and a gap before a later one is not cut there.
WalkPast(d, b, walk) ==
    IF walk.done THEN walk
    ELSE LET at == IF booking[b].to > walk.at THEN booking[b].to ELSE walk.at IN
         [at |-> at, done |-> at >= ShiftEnd(d),
          gaps |-> walk.gaps \cup Gap(walk.at, booking[b].from)]

Walk(d, bs) ==
    MapThenFoldSet(LAMBDA b, walk : WalkPast(d, b, walk), AtShiftStart(d), LAMBDA b : b, LastOf, bs)

Gaps(w, d) ==
    LET end == Walk(d, Busy(w, d)) IN end.gaps \cup Gap(end.at, ShiftEnd(d))

\* The first slot of a gap is on the shift's grid: whole minutes since the
\* shift began (seconds are dropped), rounded up to the next grid line.
FirstSlot(d, gap) ==
    LET minutes == (gap.from - ShiftStart(d)) \div Minute
    IN ShiftStart(d) + ((minutes + Interval - 1) \div Interval) * Interval * Minute

\* Mutant: a slot that ends when the gap does is left out.
SlotsIn_Short(d, gap) ==
    {s \in FirstSlot(d, gap)..(gap.to - Duration - 1) :
        (s - FirstSlot(d, gap)) % (Interval * Minute) = 0}

SlotsIn(d, gap) ==
    {s \in FirstSlot(d, gap)..(gap.to - Duration) :
        (s - FirstSlot(d, gap)) % (Interval * Minute) = 0}

Slots(w, d) == UNION {SlotsIn(d, gap) : gap \in Gaps(w, d)}

DaysShown(w, named) == IF ShowsStaff(named) THEN {d \in Cursors(w) : Works(d)} ELSE {}
GetAvailableSlots(w, named) == UNION {Slots(w, d) : d \in DaysShown(w, named)}
----------------------------------------------------------------------------
(* The page against the booking.                                           *)

\* Whether the two clocks show the same date: when they do not, the weekday
\* and the date that the code combines belong to different days.
SameDate(t) == CenterDate(t) = Date(t)

\* Reservations in the way of a slot that the page does not subtract from
\* its day: outside the window, or keyed to another date.
Unseen(w, d, s) ==
    {b \in Overlapping(s, s + Duration) :
        \/ booking[b].from < w.from \/ booking[b].to > w.to
        \/ Date(booking[b].from) # Date(d)}

\* The seconds that the alignment dropped.
EndsWithinMinute(s) ==
    \E b \in Overlapping(s, s + Duration) : booking[b].to - s \in 1..(Minute - 1)

\* A reservation that starts after the shift stretches the last gap.
Stretched(d) ==
    \E b \in Held : Date(booking[b].from) = Date(d) /\ booking[b].from > ShiftEnd(d)

\* A public booking of a slot the page shows is accepted, unless the slot is
\* already past, a switch is off that the page does not look at, an unread
\* reservation or less than a minute of one is in the way, the day has a
\* reservation past the end of the shift, or the center has another date than
\* the server, at the slot or at the instant the page asks for the weekday:
\* there the page shows another weekday's hours, which is not the center's local
\* time that docs/api.md:15 speaks of
\* (availability.station.ts:24-169 against reservation.station.ts:148-224).
OffersAreBookable ==
    \A w \in Windows, named \in BOOLEAN : \A d \in DaysShown(w, named) :
        \A s \in Slots(w, d) :
            \/ Bookable(s)
            \/ s < now \/ open # Switches
            \/ Unseen(w, d, s) # {} \/ EndsWithinMinute(s) \/ Stretched(d)
            \/ ~SameDate(d) \/ ~SameDate(s)

\* The slots of the date of d that a booking accepts, on the shift's grid.
BookableOn(d) ==
    {s \in (Date(d) * DayLength)..((Date(d) + 1) * DayLength - 1) :
        Bookable(s) /\ (s - ShiftStart(s)) % (Interval * Minute) = 0}

\* The page shows every slot of the grid that could be booked, but for those
\* a session in progress covers, which the booking would not count
\* (availability.repo.ts:52 against reservation.repo.ts:60), and for dates of
\* whose weekday the page asks while the center has another date.
NothingHidden ==
    \A w \in Windows : \A d \in Cursors(w) : \A s \in BookableOn(d) :
        \/ s \in GetAvailableSlots(w, FALSE)
        \/ \E b \in Held : booking[b].status = "IN_PROGRESS" /\ Meets(b, s, s + Duration)
        \/ ~SameDate(d)
----------------------------------------------------------------------------
(* The center's local time.                                                *)

\* What the shifts say, on the center's own clock.
InCenterHours(from, to) ==
    LET c == CenterDate(from) IN
    /\ Works(from)
    /\ from + ahead >= c * DayLength + ShiftOf(from).from
    /\ to + ahead <= c * DayLength + ShiftOf(from).to

\* Whatever zones center and server are in, a time that a booking or an edit
\* accepts lies in the center's hours of the center's weekday: where weekday
\* and date belong to different days, every time is refused
\* (reservation.station.ts:198-218, 404-430, common/utils/date.ts:19).
BookedInCenterHours ==
    \A t \in Starts, n \in Lengths \cup {Duration} :
        FitsShift(t, t + n) => InCenterHours(t, t + n)
====
