---- MODULE Statistics ----
(***************************************************************************)
(* The daily figures of a center, its staff and its stations, and what     *)
(* keeps them up to date: every change of a reservation, payment or review *)
(* is followed by a job that recomputes the figures the row counts in.     *)
(* Changes made at the desk queue the job (BullMQ, three attempts); the    *)
(* customer panel recomputes on the spot.  Recomputing is some aggregates  *)
(* and then an upsert, with no transaction around them.                    *)
(*                                                                         *)
(* A figure is the set of rows it counts: the sums and counts the code     *)
(* stores are functions of that set.                                       *)
(***************************************************************************)
EXTENDS LifecycleTables, Naturals, FiniteSets, FiniteSetsExt

CONSTANTS
    Reservations,
    Slots,       \* [day : Nat, staff, station] records a reservation can occupy
    Tables,      \* bound: the analytics tables looked at
    Openings,    \* [status, slot, paidOn] of a reservation at the start
    Reviews,     \* bound: reviews written
    MaxJobs,     \* bound: changes that are followed by a job
    FaultyJobs,  \* bound: the jobs that failures happen to
    Workers,     \* instances, each of which runs one queued job at a time
    MaxAttempts, \* attempts of a queued job
    None

ASSUME BoundsAssumption ==
    MaxAttempts \in Nat \ {0} /\ Workers \in Nat \ {0} /\ MaxJobs \in Nat
ASSUME TablesAssumption ==
    {"center", "staff"} \subseteq Tables /\ Tables \subseteq {"center", "staff", "station"}
ASSUME OpeningsAssumption ==
    /\ Openings \subseteq [status : {None, "CONFIRMED", "COMPLETED"}, slot : Slots,
                          paidOn : {s.day : s \in Slots} \cup {None}]
    /\ \A o \in Openings : o.status = None => o.paidOn = None

ReviewRecord == [of : Reservations, status : {"PUBLISHED", "HIDDEN"}]

ASSUME NoneAssumption ==
    /\ None \notin Slots \cup Reservations \cup Reviews \cup ReviewRecord
    /\ None \notin ReservationStatus /\ \A s \in Slots : s.day # None
ASSUME FiniteAssumption ==
    /\ IsFiniteSet(Reservations) /\ IsFiniteSet(Reviews) /\ IsFiniteSet(Slots)
    /\ \A s \in Slots : s.day \in Nat

VARIABLES
    status,   \* Reservation.status, None before the row exists
    slot,     \* when, by whom and where the reservation is served
    paidOn,   \* the day of paidAt while the payment is PAID, else None
    review,   \* review[v]: [of, status], or None
    figures,  \* figures[k]: the row of an analytics table (none: zeroes)
    job,      \* job[j]: what it recomputes and how far it is
    tasks,    \* single figures being recomputed
    excused   \* figures known to be stale for good (history)

rowVars == <<status, slot, paidOn, review>>
vars == <<rowVars, figures, job, tasks, excused>>
----------------------------------------------------------------------------
Jobs == 1..MaxJobs
Days == {s.day : s \in Slots}
CenterOn(d) == [table |-> "center", who |-> None, day |-> d]
StaffOf(s) == [table |-> "staff", who |-> s.staff, day |-> s.day]
StationOf(s) == [table |-> "station", who |-> s.station, day |-> s.day]
KeysOf(s) == {k \in {CenterOn(s.day), StaffOf(s), StationOf(s)} : k.table \in Tables}
Keys == UNION {KeysOf(s) : s \in Slots}

Rows == {r \in Reservations : status[r] # None}
OnDay(k) == {r \in Rows : slot[r].day = k.day}
Done(rs) == {r \in rs : status[r] = "COMPLETED"}

\* The reservations of the day by status; only two of them are told apart.
CenterBookings(k) ==
    [total |-> OnDay(k), completed |-> Done(OnDay(k)),
     canceled |-> {r \in OnDay(k) : status[r] = "CANCELED"}]

\* Staff and station figures count what was completed.
OwnBookings(k) ==
    LET mine == {r \in OnDay(k) : k \in {StaffOf(slot[r]), StationOf(slot[r])}}
    IN  [total |-> Done(mine), completed |-> Done(mine), canceled |-> {}]

BookingsPart(k) == IF k.table = "center" THEN CenterBookings(k) ELSE OwnBookings(k)

\* Payments received that day, whichever day they pay for.
RealizedCash(k) == {r \in Reservations : paidOn[r] = k.day}

\* Published reviews of what the staff member did that day.
PublishedRatings(k) ==
    {v \in Reviews : /\ review[v] # None /\ review[v].status = "PUBLISHED"
                     /\ StaffOf(slot[review[v].of]) = k}

ExtraPart(k) ==
    CASE k.table = "center" -> RealizedCash(k)
      [] k.table = "staff" -> PublishedRatings(k)
      [] OTHER -> {}

Actual(k) == [bookings |-> BookingsPart(k), extra |-> ExtraPart(k)]
----------------------------------------------------------------------------
NoJob == [kind |-> "unused", of |-> None, phase |-> "unused", attempts |-> 0]
Kinds == {"RESERVATION", "PAYMENT", "REVIEW", "directReservation", "directReview"}
Phases == {"committed", "waiting", "find", "paidDay", "findRow", "syncing", "done", "dropped"}
JobRecord ==
    [kind : Kinds, of : Reservations \cup Reviews, phase : Phases, attempts : 0..MaxAttempts]
Direct == {"directReservation", "directReview"}
Running == {"find", "paidDay", "findRow", "syncing"}
BookingSets ==
    [total : SUBSET Reservations, completed : SUBSET Reservations, canceled : SUBSET Reservations]
ExtraSets == SUBSET (Reservations \cup Reviews)
TaskRecord ==
    [job : Jobs, attempt : 1..MaxAttempts, key : Keys, overtaken : BOOLEAN,
     read : [bookings : BookingSets \cup {None}, extra : ExtraSets \cup {None}]]

\* Any day's business whose jobs are done: every figure is right.
Init ==
    /\ \E o \in [Reservations -> Openings] :
        /\ status = [r \in Reservations |-> o[r].status]
        /\ slot = [r \in Reservations |-> o[r].slot]
        /\ paidOn = [r \in Reservations |-> o[r].paidOn]
    /\ review = [v \in Reviews |-> None]
    /\ figures = [k \in Keys |-> Actual(k)]
    /\ job = [j \in Jobs |-> NoJob]
    /\ tasks = {}
    /\ excused = {}

\* A figure that comes out right, with nobody about to overwrite it, needs no
\* excuse.
Excuse(ks) ==
    excused' = {k \in excused \cup ks :
                    figures'[k] # Actual(k)' \/ \E t \in tasks' : t.key = k}
----------------------------------------------------------------------------
(* The changes.  Each commits and hands its job over in a later step.      *)

Announce(j, kind, id) ==
    /\ job[j] = NoJob /\ \A i \in 1..(j - 1) : job[i] # NoJob
    /\ job' = [job EXCEPT ![j] =
                [kind |-> kind, of |-> id, attempts |-> 0,
                 phase |-> IF kind \in Direct THEN "find" ELSE "committed"]]
    /\ UNCHANGED <<figures, tasks>>

Book(r, s, j) ==
    /\ status[r] = None
    /\ status' = [status EXCEPT ![r] = "CONFIRMED"]
    /\ slot' = [slot EXCEPT ![r] = s]
    /\ Announce(j, "RESERVATION", r)
    /\ UNCHANGED <<paidOn, review>> /\ Excuse({})

\* An edit's job knows only where the reservation is now: the figures of the
\* day, staff member or station it left are not recomputed.
Edit(r, s, j) ==
    /\ status[r] = "CONFIRMED" /\ s # slot[r]
    /\ slot' = [slot EXCEPT ![r] = s]
    /\ Announce(j, "RESERVATION", r)
    /\ UNCHANGED <<status, paidOn, review>>
    /\ Excuse(KeysOf(slot[r]) \ KeysOf(s))

\* A cancellation refunds the payment, which may have been received on
\* another day than the one whose figures are recomputed.
Cancel(r, kind, j) ==
    /\ status[r] # None /\ MayMove(status[r], "CANCELED") /\ status[r] # "CANCELED"
    /\ status' = [status EXCEPT ![r] = "CANCELED"]
    /\ paidOn' = [paidOn EXCEPT ![r] = None]
    /\ Announce(j, kind, r)
    /\ UNCHANGED <<slot, review>>
    /\ Excuse({CenterOn(d) : d \in {paidOn[r]} \ {None, slot[r].day}})

Close(r, end, j) ==
    /\ status[r] # None /\ status[r] \notin TerminalStates /\ MayMove(status[r], end)
    /\ status' = [status EXCEPT ![r] = end]
    /\ Announce(j, "RESERVATION", r)
    /\ UNCHANGED <<slot, paidOn, review>> /\ Excuse({})

Pay(r, d, j) ==
    /\ status[r] # None /\ paidOn[r] = None /\ status[r] # "CANCELED"
    /\ paidOn' = [paidOn EXCEPT ![r] = d]
    /\ Announce(j, "PAYMENT", r)
    /\ UNCHANGED <<status, slot, review>> /\ Excuse({})

\* Both routes read the reservation first; COMPLETED stays true until the insert.
Reviewable(r) == status[r] = "COMPLETED"

\* The insert; the unique key does not limit reviews without a station.
CreateReview(v, r) ==
    /\ review[v] = None
    /\ review' = [review EXCEPT ![v] = [of |-> r, status |-> "PUBLISHED"]]

SubmitReview(v, r, kind, j) ==
    /\ Reviewable(r) /\ CreateReview(v, r)
    /\ Announce(j, kind, v)
    /\ UNCHANGED <<status, slot, paidOn>> /\ Excuse({})

ModerateReview(v, st, j) ==
    /\ review[v] # None
    /\ review' = [review EXCEPT ![v].status = st]
    /\ Announce(j, "REVIEW", v)
    /\ UNCHANGED <<status, slot, paidOn>> /\ Excuse({})
----------------------------------------------------------------------------
(* The queue.                                                              *)

Attempt(j) == job[j].attempts + 1
OfReview(j) == job[j].kind \in {"REVIEW", "directReview"}
RowOf(j) == IF OfReview(j) THEN review[job[j].of].of ELSE job[j].of
\* What the job recomputes, as things are now.
Covers(j) ==
    CASE OfReview(j) -> {StaffOf(slot[RowOf(j)])}
      [] job[j].kind = "PAYMENT" ->
            KeysOf(slot[RowOf(j)]) \cup {CenterOn(d) : d \in {paidOn[RowOf(j)]} \ {None}}
      [] OTHER -> KeysOf(slot[RowOf(j)])

Phase(j, p) == job' = [job EXCEPT ![j].phase = p]

Enqueue(j) ==
    /\ job[j].phase = "committed" /\ Phase(j, "waiting")
    /\ UNCHANGED <<rowVars, figures, tasks, excused>>

\* queue.add failed (logged only), or the instance died before it.
Lost(j) ==
    /\ job[j].phase = "committed" /\ j \in FaultyJobs /\ Phase(j, "dropped")
    /\ UNCHANGED <<rowVars, figures, tasks>> /\ Excuse(Covers(j))

Start(j) ==
    /\ job[j].phase = "waiting"
    /\ Cardinality({i \in Jobs : job[i].phase \in Running /\ job[i].kind \notin Direct}) < Workers
    /\ Phase(j, "find")
    /\ UNCHANGED <<rowVars, figures, tasks, excused>>

\* Mutant: the limit of attempts is missed by one.
JobFails_OneMore(j) ==
    LET last == job[j].kind \in Direct \/ Attempt(j) > MaxAttempts IN
    /\ job' = [job EXCEPT ![j].attempts = Attempt(j),
                          ![j].phase = IF last THEN "dropped" ELSE "waiting"]
    /\ Excuse(IF last THEN Covers(j) ELSE {})

\* A failed attempt goes back to the queue, the last one is given up.  The
\* customer panel only logs.
JobFails(j) ==
    LET n == Attempt(j)
        last == job[j].kind \in Direct \/ n = MaxAttempts
    IN
    /\ job' = [job EXCEPT ![j].attempts = n, ![j].phase = IF last THEN "dropped" ELSE "waiting"]
    /\ Excuse(IF last THEN Covers(j) ELSE {})

FindFails(j) ==
    /\ job[j].phase \in {"find", "findRow"} /\ j \in FaultyJobs
    /\ UNCHANGED <<rowVars, figures, tasks>>
    /\ JobFails(j)
----------------------------------------------------------------------------
(* Recomputing.                                                            *)

TaskFor(j, k) ==
    [job |-> j, attempt |-> Attempt(j), key |-> k, overtaken |-> FALSE,
     read |-> [bookings |-> None, extra |-> IF k.table = "station" THEN {} ELSE None]]

Sync(j, ks, phase) ==
    /\ Phase(j, phase)
    /\ tasks' = tasks \cup {TaskFor(j, k) : k \in ks}
    /\ UNCHANGED <<rowVars, figures, excused>>

\* Mutant: a reservation's job recomputes the center's and the station's
\* figures only.
SyncReservation_WithoutStaff(j) ==
    /\ \/ job[j].phase = "find" /\ job[j].kind \in {"RESERVATION", "directReservation"}
       \/ job[j].phase = "findRow"
    /\ Sync(j, KeysOf(slot[job[j].of]) \ {StaffOf(slot[job[j].of])}, "syncing")

\* syncAllStatsForReservation: where the row is now, three figures at once.
SyncReservation(j) ==
    /\ \/ job[j].phase = "find" /\ job[j].kind \in {"RESERVATION", "directReservation"}
       \/ job[j].phase = "findRow"
    /\ Sync(j, KeysOf(slot[job[j].of]), "syncing")

\* syncAllStatsForPayment: first the day the money came in, then as above.
SyncPayment(j) ==
    LET d == paidOn[job[j].of] IN
    /\ job[j].phase = "find" /\ job[j].kind = "PAYMENT"
    /\ IF d # None THEN Sync(j, {CenterOn(d)}, "paidDay") ELSE Sync(j, {}, "findRow")

SyncReview(j) ==
    /\ job[j].phase = "find" /\ OfReview(j)
    /\ Sync(j, {StaffOf(slot[RowOf(j)])}, "syncing")

\* The two aggregates of a figure are separate statements, in either order.
ReadPart(t) ==
    /\ \/ t.read.bookings = None
          /\ tasks' = (tasks \ {t}) \cup {[t EXCEPT !.read.bookings = BookingsPart(t.key)]}
       \/ t.read.extra = None
          /\ tasks' = (tasks \ {t}) \cup {[t EXCEPT !.read.extra = ExtraPart(t.key)]}
    /\ UNCHANGED <<rowVars, figures, job, excused>>

HasRead(t) == t.read.bookings # None /\ t.read.extra # None
Untouched(t) == t.read = TaskFor(t.job, t.key).read

Current(t) == job[t.job].phase \in Running /\ t.attempt = Attempt(t.job)
IsLast(t) == \A u \in tasks \ {t} : ~(u.job = t.job /\ u.attempt = t.attempt)
Advance(t) ==
    IF Current(t) /\ IsLast(t)
    THEN Phase(t.job, IF job[t.job].phase = "paidDay" THEN "findRow" ELSE "done")
    ELSE UNCHANGED job

\* Tasks for the same figure that have read are overtaken by t.
Overtake(t) ==
    {IF u.key = t.key /\ ~Untouched(u) THEN [u EXCEPT !.overtaken = TRUE] ELSE u :
        u \in tasks \ {t}}

\* Mutant: the staff figure's update forgets the ratings.
Upsert_BookingsOnly(t) ==
    /\ HasRead(t)
    /\ figures' = [figures EXCEPT ![t.key].bookings = t.read.bookings]
    /\ tasks' = Overtake(t)
    /\ Advance(t)
    /\ UNCHANGED rowVars
    /\ Excuse(IF t.overtaken THEN {t.key} ELSE {})

\* The upsert replaces the figure by what was read, however long ago.
Upsert(t) ==
    /\ HasRead(t)
    /\ figures' = [figures EXCEPT ![t.key] = t.read]
    /\ tasks' = Overtake(t)
    /\ Advance(t)
    /\ UNCHANGED rowVars
    /\ Excuse(IF t.overtaken THEN {t.key} ELSE {})

\* A statement fails: Promise.all rejects and the attempt is over, while the
\* other figures of that attempt go on being recomputed.
TaskFails(t) ==
    /\ t.job \in FaultyJobs /\ Untouched(t)
    /\ tasks' = tasks \ {t}
    /\ UNCHANGED <<rowVars, figures>>
    /\ IF Current(t) THEN JobFails(t.job) ELSE UNCHANGED <<job, excused>>
----------------------------------------------------------------------------
(* The manager's reports add up the rows of the analytics tables.          *)

FiguresOf(table, who, from, to) ==
    {k \in Keys : k.table = table /\ k.who = who /\ k.day \in from..to}
SumOf(size, ks) == MapThenSumSet(LAMBDA k : size[k], ks)
Completed == [k \in Keys |-> Cardinality(figures[k].bookings.completed)]
Total == [k \in Keys |-> Cardinality(figures[k].bookings.total)]
Canceled == [k \in Keys |-> Cardinality(figures[k].bookings.canceled)]
Extra == [k \in Keys |-> Cardinality(figures[k].extra)]

GetSummary(from, to) ==
    LET ks == FiguresOf("center", None, from, to) IN
    [total |-> SumOf(Total, ks), completed |-> SumOf(Completed, ks),
     canceled |-> SumOf(Canceled, ks), cash |-> SumOf(Extra, ks)]

GetStaffPerformance(staff, from, to) ==
    LET ks == FiguresOf("staff", staff, from, to) IN
    [completed |-> SumOf(Completed, ks), ratings |-> SumOf(Extra, ks)]

GetStationPerformance(station, from, to) ==
    SumOf(Completed, FiguresOf("station", station, from, to))
\* The completed bookings, which bring in the revenue, of each day.
GetRevenueChart(from, to) ==
    [d \in Days \cap (from..to) |-> Completed[CenterOn(d)]]
----------------------------------------------------------------------------
Change(j) ==
    \/ \E r \in Reservations :
        \/ \E s \in Slots : Book(r, s, j) \/ Edit(r, s, j)
        \/ \E kind \in {"RESERVATION", "directReservation"} : Cancel(r, kind, j)
        \/ \E end \in {"COMPLETED", "NO_SHOW"} : Close(r, end, j)
        \/ \E d \in Days : Pay(r, d, j)
        \/ \E v \in Reviews, kind \in {"REVIEW", "directReview"} : SubmitReview(v, r, kind, j)
    \/ \E v \in Reviews, st \in {"PUBLISHED", "HIDDEN"} : ModerateReview(v, st, j)

Works(j) == Enqueue(j) \/ Start(j) \/ SyncReservation(j) \/ SyncPayment(j) \/ SyncReview(j)

Next ==
    \/ \E j \in Jobs : Change(j) \/ Lost(j) \/ FindFails(j) \/ Works(j)
    \/ \E t \in tasks : ReadPart(t) \/ Upsert(t) \/ TaskFails(t)

Spec == Init /\ [][Next]_vars
----------------------------------------------------------------------------
\* Types: only a running attempt, or one that has failed, has tasks.
TypeOK ==
    /\ status \in [Reservations -> ReservationStatus \cup {None}]
    /\ slot \in [Reservations -> Slots]
    /\ paidOn \in [Reservations -> Days \cup {None}]
    /\ review \in [Reviews -> ReviewRecord \cup {None}]
    /\ figures \in [Keys -> [bookings : BookingSets, extra : ExtraSets]]
    /\ job \in [Jobs -> JobRecord \cup {NoJob}]
    /\ tasks \subseteq TaskRecord
    /\ \A t \in tasks : t.attempt <= Attempt(t.job)
    /\ excused \subseteq Keys

\* A task will still bring k up to date, or has what is up to date in hand.
WillRefresh(t, k) ==
    /\ t.key = k /\ Current(t)
    /\ t.read.bookings \in {None, BookingsPart(k)} /\ t.read.extra \in {None, ExtraPart(k)}

\* A figure that does not agree with the rows is still being worked on, or one
\* of the known reasons applies: its reservation was moved away, a refund of
\* another day's payment, a job lost or given up, or an overtaken upsert.
StaleIsExplained ==
    \A k \in Keys : figures[k] # Actual(k) =>
        \/ k \in excused
        \/ \E t \in tasks : WillRefresh(t, k)
        \/ \E j \in Jobs : /\ job[j].phase \in {"committed", "waiting", "find", "paidDay", "findRow"}
                           /\ k \in Covers(j)

\* Nothing is left to do, and none of the reasons above applies.
Quiet ==
    /\ excused = {} /\ tasks = {}
    /\ \A j \in Jobs : job[j].phase \in {"unused", "done", "dropped"}
Between(from, to) == {r \in Rows : slot[r].day \in from..to}

\* In quiet times every report, for whatever period, says what the rows say:
\* each reservation is counted once, on the day and for the staff member and
\* station it ended up with, and each payment once, on the day it came in.
QuietReports ==
    Quiet => \A from, to \in Days :
        LET period == Between(from, to) IN
        /\ GetSummary(from, to) =
            [total |-> Cardinality(period), completed |-> Cardinality(Done(period)),
             canceled |-> Cardinality({r \in period : status[r] = "CANCELED"}),
             cash |-> Cardinality({r \in Rows : paidOn[r] # None /\ paidOn[r] \in from..to})]
        /\ GetRevenueChart(from, to) =
            [d \in Days \cap (from..to) |-> Cardinality(Done(Between(d, d)))]
        /\ "staff" \in Tables => \A s \in {slot[r].staff : r \in Rows} :
            LET mine == {r \in period : slot[r].staff = s} IN
            GetStaffPerformance(s, from, to) =
                [completed |-> Cardinality(Done(mine)),
                 ratings |-> Cardinality({v \in Reviews : /\ review[v] # None
                                /\ review[v].of \in mine /\ review[v].status = "PUBLISHED"})]
        /\ "station" \in Tables => \A s \in {slot[r].station : r \in Rows} :
            GetStationPerformance(s, from, to) =
                Cardinality(Done({r \in period : slot[r].station = s}))
====
