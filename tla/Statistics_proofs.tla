---- MODULE Statistics_proofs ----
(***************************************************************************)
(* Proofs about the daily figures: types, that a figure which does not     *)
(* agree with the rows is being worked on or excused, and that otherwise   *)
(* the reports say what the rows say.                                      *)
(***************************************************************************)
EXTENDS StatisticsInvariants, SumTheorems, TLAPS
----------------------------------------------------------------------------
(* Keys and parts of figures.                                              *)

\* The figures of a slot, and the center's of a day, are figures.
LEMMA SlotKeys ==
    ASSUME NEW s \in Slots
    PROVE  /\ KeysOf(s) \subseteq Keys
           /\ CenterOn(s.day) \in KeysOf(s) /\ StaffOf(s) \in KeysOf(s)
<1>1. KeysOf(s) \subseteq Keys
    BY DEF Keys
<1>2. CenterOn(s.day) \in KeysOf(s) /\ StaffOf(s) \in KeysOf(s)
    BY TablesAssumption DEF KeysOf, CenterOn, StaffOf
<1> QED BY <1>1, <1>2

LEMMA DayKeys ==
    ASSUME NEW d \in Days
    PROVE  CenterOn(d) \in Keys /\ d # None
<1>1. PICK s \in Slots : d = s.day
    BY DEF Days
<1>2. CenterOn(d) \in Keys
    BY <1>1, SlotKeys
<1>3. d # None
    BY <1>1, NoneAssumption
<1> QED BY <1>2, <1>3

\* A key is what it says it is.
LEMMA KeyShape ==
    ASSUME NEW k \in Keys
    PROVE  /\ k.table \in Tables /\ k.day # None
           /\ k.table = "center" => k = CenterOn(k.day)
<1>1. PICK s \in Slots : k \in KeysOf(s)
    BY DEF Keys
<1>2. k \in {CenterOn(s.day), StaffOf(s), StationOf(s)} /\ k.table \in Tables
    BY <1>1 DEF KeysOf
<1> QED BY <1>2, NoneAssumption DEF CenterOn, StaffOf, StationOf

\* What a figure should be has the type of a figure.
LEMMA PartTypes ==
    ASSUME NEW k
    PROVE  /\ BookingsPart(k) \in BookingSets
           /\ ExtraPart(k) \in ExtraSets
           /\ Actual(k) \in [bookings : BookingSets, extra : ExtraSets]
<1>1. \A rs : Done(rs) \subseteq rs
    BY DEF Done
<1>2. OnDay(k) \subseteq Reservations
    BY DEF OnDay, Rows
<1>3. CenterBookings(k) \in BookingSets
  <2>1. {r \in OnDay(k) : status[r] = "CANCELED"} \subseteq Reservations
      BY <1>2
  <2> QED BY <2>1, <1>1, <1>2 DEF CenterBookings, BookingSets
<1>4. OwnBookings(k) \in BookingSets
  <2> DEFINE mine == {r \in OnDay(k) : k \in {StaffOf(slot[r]), StationOf(slot[r])}}
  <2>1. Done(mine) \subseteq Reservations
      BY <1>1, <1>2
  <2>2. OwnBookings(k) = [total |-> Done(mine), completed |-> Done(mine), canceled |-> {}]
      BY DEF OwnBookings
  <2> HIDE DEF mine
  <2> QED BY <2>1, <2>2 DEF BookingSets
<1>5. BookingsPart(k) \in BookingSets
    BY <1>3, <1>4 DEF BookingsPart
<1>6. RealizedCash(k) \subseteq Reservations /\ PublishedRatings(k) \subseteq Reviews
    BY DEF RealizedCash, PublishedRatings
<1>7. ExtraPart(k) \in ExtraSets
    BY <1>6 DEF ExtraPart, ExtraSets
<1> QED BY <1>5, <1>7 DEF Actual
----------------------------------------------------------------------------
(* The effect on the figures of a change to one row.                       *)

SameParts(k) == BookingsPart(k)' = BookingsPart(k) /\ ExtraPart(k)' = ExtraPart(k)

\* A change to one reservation shows in the figures of the slot it had and of
\* the slot it has, and on the days its payment came in and goes.
LEMMA OneReservationChanges ==
    ASSUME TypeOK, TypeOK', ReviewsOK, NEW r \in Reservations, NEW k \in Keys,
           review' = review,
           \A x \in Reservations \ {r} :
              status'[x] = status[x] /\ slot'[x] = slot[x] /\ paidOn'[x] = paidOn[x],
           k \notin KeysOf(slot'[r]),
           status[r] # None => k \notin KeysOf(slot[r]),
           paidOn'[r] # paidOn[r] => k \notin {CenterOn(paidOn[r]), CenterOn(paidOn'[r])}
    PROVE  SameParts(k)
<1> USE KeyShape
<1>1. slot[r] \in Slots /\ slot'[r] \in Slots
    BY DEF TypeOK
<1>2. ASSUME NEW s \in Slots, k \notin KeysOf(s)
      PROVE  /\ k.table = "center" => s.day # k.day
             /\ k \notin {StaffOf(s), StationOf(s)}
    BY <1>2 DEF KeysOf, CenterOn, StaffOf, StationOf
<1>3. CASE k.table = "center"
  <2>1. OnDay(k)' = OnDay(k)
      BY <1>1, <1>2, <1>3 DEF OnDay, Rows
  <2>2. r \notin OnDay(k)
      BY <1>1, <1>2, <1>3 DEF OnDay, Rows
  <2>3. \A x \in OnDay(k) : status'[x] = status[x]
      BY <2>2 DEF OnDay, Rows
  <2>4. CenterBookings(k)' = CenterBookings(k)
    <3>1. Done(OnDay(k))' = Done(OnDay(k))
        BY <2>1, <2>3 DEF Done
    <3>2. {x \in OnDay(k) : status[x] = "CANCELED"}' = {x \in OnDay(k) : status[x] = "CANCELED"}
        BY <2>1, <2>3
    <3> QED BY <2>1, <3>1, <3>2 DEF CenterBookings
  <2>5. RealizedCash(k)' = RealizedCash(k)
      BY <1>3 DEF RealizedCash, CenterOn
  <2> QED BY <1>3, <2>4, <2>5 DEF SameParts, BookingsPart, ExtraPart
<1>4. CASE k.table # "center"
  <2> DEFINE mine == {x \in OnDay(k) : k \in {StaffOf(slot[x]), StationOf(slot[x])}}
  <2>1. mine' = mine /\ r \notin mine
      BY <1>1, <1>2 DEF OnDay, Rows
  <2>2. \A x \in mine : status'[x] = status[x]
      BY <2>1 DEF OnDay, Rows
  <2>3. OwnBookings(k)' = OwnBookings(k)
    <3>1. Done(mine)' = Done(mine)
        BY <2>1, <2>2 DEF Done
    <3> QED BY <3>1 DEF OwnBookings
  <2>4. \A v \in Reviews : review[v] # None =>
            (StaffOf(slot'[review[v].of]) = k <=> StaffOf(slot[review[v].of]) = k)
    <3> SUFFICES ASSUME NEW v \in Reviews, review[v] # None
                 PROVE  StaffOf(slot'[review[v].of]) = k <=> StaffOf(slot[review[v].of]) = k
        OBVIOUS
    <3>1. review[v].of \in Reservations /\ status[review[v].of] # None
        BY DEF TypeOK, ReviewsOK, ReviewRecord
    <3>2. CASE review[v].of = r
        BY <3>1, <3>2, <1>1, <1>2
    <3>3. CASE review[v].of # r
        BY <3>1, <3>3
    <3> QED BY <3>2, <3>3
  <2>5. PublishedRatings(k)' = PublishedRatings(k)
      BY <2>4 DEF PublishedRatings
  <2> QED BY <1>4, <2>3, <2>5 DEF SameParts, BookingsPart, ExtraPart
<1> QED BY <1>3, <1>4

\* A change to one review shows in the figure of the staff member it is about.
LEMMA OneReviewChanges ==
    ASSUME NEW v \in Reviews, NEW k \in Keys,
           status' = status, slot' = slot, paidOn' = paidOn,
           \A x \in Reviews \ {v} : review'[x] = review[x],
           review'[v] # None, k # StaffOf(slot[review'[v].of]),
           review[v] # None => review[v].of = review'[v].of
    PROVE  SameParts(k)
<1>1. PublishedRatings(k)' = PublishedRatings(k)
    BY DEF PublishedRatings
<1>2. BookingsPart(k)' = BookingsPart(k)
    BY DEF BookingsPart, CenterBookings, OwnBookings, OnDay, Rows, Done
<1>3. RealizedCash(k)' = RealizedCash(k)
    BY DEF RealizedCash
<1> QED BY <1>1, <1>2, <1>3 DEF SameParts, ExtraPart
----------------------------------------------------------------------------
(* What a job covers.                                                      *)

PaidKeys(j) == {CenterOn(d) : d \in {paidOn[RowOf(j)]} \ {None}}

LEMMA CoversCases ==
    ASSUME NEW j
    PROVE  /\ OfReview(j) => Covers(j) = {StaffOf(slot[RowOf(j)])}
           /\ job[j].kind = "PAYMENT" => Covers(j) = KeysOf(slot[RowOf(j)]) \cup PaidKeys(j)
           /\ ~OfReview(j) /\ job[j].kind # "PAYMENT" => Covers(j) = KeysOf(slot[RowOf(j)])
<1>1. job[j].kind = "PAYMENT" => ~OfReview(j)
    BY DEF OfReview
<1> QED BY <1>1 DEF Covers, PaidKeys

LEMMA CoversCasesNext ==
    ASSUME NEW CONSTANT j
    PROVE  /\ OfReview(j)' => Covers(j)' = {StaffOf(slot'[RowOf(j)'])}
           /\ job'[j].kind = "PAYMENT" =>
                Covers(j)' = KeysOf(slot'[RowOf(j)']) \cup PaidKeys(j)'
           /\ ~OfReview(j)' /\ job'[j].kind # "PAYMENT" => Covers(j)' = KeysOf(slot'[RowOf(j)'])
<1>1. /\ (OfReview(j) => Covers(j) = {StaffOf(slot[RowOf(j)])})'
      /\ (job[j].kind = "PAYMENT" => Covers(j) = KeysOf(slot[RowOf(j)]) \cup PaidKeys(j))'
      /\ (~OfReview(j) /\ job[j].kind # "PAYMENT" => Covers(j) = KeysOf(slot[RowOf(j)]))'
    BY CoversCases, PTL
<1> QED BY <1>1

\* A job is about a reservation that has a row.
LEMMA RowExists ==
    ASSUME StatisticsShape, NEW j \in Jobs, job[j].kind # "unused"
    PROVE  /\ RowOf(j) \in Reservations /\ status[RowOf(j)] # None
           /\ OfReview(j) => job[j].of \in Reviews /\ review[job[j].of] # None
           /\ ~OfReview(j) => RowOf(j) = job[j].of
<1>1. JobOK(j)
    BY DEF StatisticsShape
<1>2. CASE OfReview(j)
    BY <1>1, <1>2 DEF JobOK, RowOf, StatisticsShape, TypeOK, ReviewsOK, ReviewRecord
<1>3. CASE ~OfReview(j)
    BY <1>1, <1>3 DEF JobOK, RowOf
<1> QED BY <1>2, <1>3

LEMMA CoversTypes ==
    ASSUME StatisticsShape, NEW j \in Jobs, job[j].kind # "unused"
    PROVE  /\ Covers(j) \subseteq Keys /\ Ahead(j) \subseteq Covers(j)
           /\ ~OfReview(j) => KeysOf(slot[RowOf(j)]) \subseteq Covers(j)
<1>1. slot[RowOf(j)] \in Slots /\ paidOn[RowOf(j)] \in Days \cup {None}
    BY RowExists DEF StatisticsShape, TypeOK
<1>2. KeysOf(slot[RowOf(j)]) \subseteq Keys /\ StaffOf(slot[RowOf(j)]) \in Keys
    BY <1>1, SlotKeys
<1>3. PaidKeys(j) \subseteq Keys
    BY <1>1, DayKeys DEF PaidKeys
<1>4. job[j].phase \in {"paidDay", "findRow"} => job[j].kind = "PAYMENT"
    BY DEF StatisticsShape, JobOK
<1>5. Covers(j) \subseteq Keys
    BY <1>2, <1>3, CoversCases
<1>6. ~OfReview(j) => KeysOf(slot[RowOf(j)]) \subseteq Covers(j)
    BY CoversCases
<1>7. Ahead(j) \subseteq Covers(j)
    BY <1>4, <1>6, CoversCases DEF Ahead, OfReview
<1> QED BY <1>5, <1>6, <1>7

\* A number that has been given to no job covers nothing.
LEMMA UnusedJob ==
    ASSUME TypeOK, NEW j \in Jobs
    PROVE  /\ job[j] = NoJob <=> job[j].phase = "unused"
           /\ job[j] = NoJob <=> job[j].kind = "unused"
           /\ job[j] = NoJob => Ahead(j) = {}
           /\ job[j] # NoJob => job[j] \in JobRecord
<1>1. job[j] \in JobRecord \cup {NoJob}
    BY DEF TypeOK
<1>2. \A x \in JobRecord : x.phase # "unused" /\ x.kind # "unused"
    BY DEF JobRecord, Phases, Kinds
<1> QED BY <1>1, <1>2 DEF NoJob, Ahead
----------------------------------------------------------------------------
(* The changes, in two kinds.                                              *)

RowTypes ==
    /\ status \in [Reservations -> ReservationStatus \cup {None}]
    /\ slot \in [Reservations -> Slots]
    /\ paidOn \in [Reservations -> Days \cup {None}]
    /\ review \in [Reviews -> ReviewRecord \cup {None}]

\* One reservation changes.  What it leaves is excused: the figures of its old
\* slot, and the day of a refunded payment if it is another day.
ReservationChange(r, j, kind, E) ==
    /\ r \in Reservations /\ kind \in {"RESERVATION", "directReservation", "PAYMENT"}
    /\ Announce(j, kind, r) /\ Excuse(E) /\ E \subseteq Keys
    /\ RowTypes' /\ review' = review /\ status'[r] # None
    /\ \A x \in Reservations \ {r} :
          status'[x] = status[x] /\ slot'[x] = slot[x] /\ paidOn'[x] = paidOn[x]
    /\ status[r] # None => KeysOf(slot[r]) \subseteq KeysOf(slot'[r]) \cup E
    /\ \/ paidOn'[r] = paidOn[r]
       \/ kind = "PAYMENT" /\ paidOn[r] = None
       \/ /\ paidOn'[r] = None
          /\ paidOn[r] # None => CenterOn(paidOn[r]) \in KeysOf(slot'[r]) \cup E

\* One review is written or moderated.
ReviewChange(v, j, kind) ==
    /\ v \in Reviews /\ kind \in {"REVIEW", "directReview"}
    /\ Announce(j, kind, v) /\ Excuse({})
    /\ RowTypes' /\ status' = status /\ slot' = slot /\ paidOn' = paidOn
    /\ review'[v] # None /\ status[review'[v].of] # None
    /\ \A x \in Reviews \ {v} : review'[x] = review[x]
    /\ review[v] # None => review'[v].of = review[v].of

LEMMA BookChanges ==
    ASSUME StatisticsShape, NEW j \in Jobs, NEW r \in Reservations, NEW s \in Slots,
           Book(r, s, j)
    PROVE  ReservationChange(r, j, "RESERVATION", {})
<1>1. RowTypes'
    BY DEF Book, StatisticsShape, TypeOK, RowTypes, ReservationStatus
<1>2. status'[r] # None
    BY NoneAssumption DEF Book, StatisticsShape, TypeOK, ReservationStatus
<1> QED BY <1>1, <1>2 DEF Book, ReservationChange, StatisticsShape, TypeOK

LEMMA EditChanges ==
    ASSUME StatisticsShape, NEW j \in Jobs, NEW r \in Reservations, NEW s \in Slots,
           Edit(r, s, j)
    PROVE  ReservationChange(r, j, "RESERVATION", KeysOf(slot[r]) \ KeysOf(s))
<1>1. RowTypes' /\ slot'[r] = s
    BY DEF Edit, StatisticsShape, TypeOK, RowTypes
<1>2. KeysOf(slot[r]) \subseteq Keys
    BY SlotKeys DEF StatisticsShape, TypeOK
<1>3. status'[r] # None
    BY NoneAssumption DEF Edit, ReservationStatus
<1> QED BY <1>1, <1>2, <1>3 DEF Edit, ReservationChange, StatisticsShape, TypeOK

LEMMA CancelChanges ==
    ASSUME StatisticsShape, NEW j \in Jobs, NEW r \in Reservations,
           NEW kind \in {"RESERVATION", "directReservation"}, Cancel(r, kind, j)
    PROVE  ReservationChange(r, j, kind,
                             {CenterOn(d) : d \in {paidOn[r]} \ {None, slot[r].day}})
<1> DEFINE E == {CenterOn(d) : d \in {paidOn[r]} \ {None, slot[r].day}}
<1>1. RowTypes' /\ slot' = slot /\ paidOn'[r] = None
    BY DEF Cancel, StatisticsShape, TypeOK, RowTypes, ReservationStatus
<1>2. E \subseteq Keys
    BY DayKeys DEF StatisticsShape, TypeOK
<1>3. status'[r] # None
    BY NoneAssumption DEF Cancel, StatisticsShape, TypeOK, ReservationStatus
<1>4. paidOn[r] # None => CenterOn(paidOn[r]) \in KeysOf(slot'[r]) \cup E
    BY <1>1, SlotKeys DEF StatisticsShape, TypeOK
<1>5. Announce(j, kind, r) /\ Excuse(E) /\ review' = review
    BY DEF Cancel
<1>6. \A x \in Reservations \ {r} : status'[x] = status[x] /\ paidOn'[x] = paidOn[x]
    BY DEF Cancel, StatisticsShape, TypeOK
<1>7. kind \in {"RESERVATION", "directReservation", "PAYMENT"}
    OBVIOUS
<1> HIDE DEF E
<1>8. ReservationChange(r, j, kind, E)
    BY <1>1, <1>2, <1>3, <1>4, <1>5, <1>6, <1>7 DEF ReservationChange
<1> QED BY <1>8 DEF E

LEMMA CloseChanges ==
    ASSUME StatisticsShape, NEW j \in Jobs, NEW r \in Reservations,
           NEW end \in {"COMPLETED", "NO_SHOW"}, Close(r, end, j)
    PROVE  ReservationChange(r, j, "RESERVATION", {})
<1>1. RowTypes'
    BY DEF Close, StatisticsShape, TypeOK, RowTypes, ReservationStatus
<1>2. status'[r] # None
    BY NoneAssumption DEF Close, StatisticsShape, TypeOK, ReservationStatus
<1> QED BY <1>1, <1>2 DEF Close, ReservationChange, StatisticsShape, TypeOK

LEMMA PayChanges ==
    ASSUME StatisticsShape, NEW j \in Jobs, NEW r \in Reservations, NEW d \in Days,
           Pay(r, d, j)
    PROVE  ReservationChange(r, j, "PAYMENT", {})
<1>1. RowTypes'
    BY DEF Pay, StatisticsShape, TypeOK, RowTypes
<1> QED BY <1>1 DEF Pay, ReservationChange, StatisticsShape, TypeOK

LEMMA SubmitReviewChanges ==
    ASSUME StatisticsShape, NEW j \in Jobs, NEW r \in Reservations, NEW v \in Reviews,
           NEW kind \in {"REVIEW", "directReview"}, SubmitReview(v, r, kind, j)
    PROVE  ReviewChange(v, j, kind)
<1>1. review'[v] = [of |-> r, status |-> "PUBLISHED"]
    BY DEF SubmitReview, CreateReview, StatisticsShape, TypeOK
<1>2. RowTypes'
    BY DEF SubmitReview, CreateReview, StatisticsShape, TypeOK, RowTypes, ReviewRecord
<1>3. review[v] = None /\ review'[v].of = r /\ status[r] # None
    BY <1>1, NoneAssumption DEF SubmitReview, CreateReview, Reviewable, ReservationStatus
<1>4. review'[v] # None
    BY <1>1, NoneAssumption DEF ReviewRecord
<1> QED BY <1>2, <1>3, <1>4 DEF SubmitReview, CreateReview, ReviewChange, StatisticsShape, TypeOK

LEMMA ModerateReviewChanges ==
    ASSUME StatisticsShape, NEW j \in Jobs, NEW v \in Reviews,
           NEW st \in {"PUBLISHED", "HIDDEN"}, ModerateReview(v, st, j)
    PROVE  ReviewChange(v, j, "REVIEW")
<1>1. review[v] \in ReviewRecord /\ review[v] # None
    BY DEF ModerateReview, StatisticsShape, TypeOK
<1>2. review'[v] \in ReviewRecord /\ review'[v].of = review[v].of
    BY <1>1 DEF ModerateReview, StatisticsShape, TypeOK, ReviewRecord
<1>3. RowTypes'
    BY <1>2 DEF ModerateReview, StatisticsShape, TypeOK, RowTypes
<1>4. review'[v] # None
    BY <1>2, NoneAssumption
<1>5. status[review'[v].of] # None
    BY <1>1, <1>2 DEF StatisticsShape, ReviewsOK
<1>6. \A x \in Reviews \ {v} : review'[x] = review[x]
    BY DEF ModerateReview, StatisticsShape, TypeOK
<1> QED BY <1>2, <1>3, <1>4, <1>5, <1>6 DEF ModerateReview, ReviewChange

LEMMA ChangeKinds ==
    ASSUME StatisticsShape, NEW j \in Jobs, Change(j)
    PROVE  \/ \E r, kind, E : ReservationChange(r, j, kind, E)
           \/ \E v, kind : ReviewChange(v, j, kind)
<1>1. ASSUME NEW r \in Reservations, NEW s \in Slots, Book(r, s, j) \/ Edit(r, s, j)
      PROVE  \E kind, E : ReservationChange(r, j, kind, E)
    BY <1>1, BookChanges, EditChanges
<1>2. ASSUME NEW r \in Reservations, NEW kind \in {"RESERVATION", "directReservation"},
             Cancel(r, kind, j)
      PROVE  \E k, E : ReservationChange(r, j, k, E)
    BY <1>2, CancelChanges
<1>3. ASSUME NEW r \in Reservations, NEW end \in {"COMPLETED", "NO_SHOW"}, Close(r, end, j)
      PROVE  \E kind, E : ReservationChange(r, j, kind, E)
    BY <1>3, CloseChanges
<1>4. ASSUME NEW r \in Reservations, NEW d \in Days, Pay(r, d, j)
      PROVE  \E kind, E : ReservationChange(r, j, kind, E)
    BY <1>4, PayChanges
<1>5. ASSUME NEW r \in Reservations, NEW v \in Reviews,
             NEW kind \in {"REVIEW", "directReview"}, SubmitReview(v, r, kind, j)
      PROVE  \E k : ReviewChange(v, j, k)
    BY <1>5, SubmitReviewChanges
<1>6. ASSUME NEW v \in Reviews, NEW st \in {"PUBLISHED", "HIDDEN"}, ModerateReview(v, st, j)
      PROVE  \E k : ReviewChange(v, j, k)
    BY <1>6, ModerateReviewChanges
<1> QED BY <1>1, <1>2, <1>3, <1>4, <1>5, <1>6 DEF Change
----------------------------------------------------------------------------
(* A change keeps the shape.                                               *)

\* An excuse is for figures.
LEMMA ExcuseTypes ==
    ASSUME TypeOK, NEW E, E \subseteq Keys, Excuse(E)
    PROVE  excused' \subseteq Keys
    BY DEF TypeOK, Excuse

\* The job that is announced is new, and about a row that is there.
LEMMA AnnounceShape ==
    ASSUME StatisticsShape, NEW j \in Jobs, NEW kind \in Kinds, NEW id,
           Announce(j, kind, id), RowTypes', ReviewsOK', excused' \subseteq Keys,
           \A r \in Reservations : status[r] # None => status'[r] # None,
           \A v \in Reviews : review[v] # None => review'[v] # None,
           kind \in {"REVIEW", "directReview"} => id \in Reviews /\ review'[id] # None,
           kind \notin {"REVIEW", "directReview"} => id \in Reservations /\ status'[id] # None
    PROVE  StatisticsShape' /\ job'[j].kind # "unused"
<1> USE DEF StatisticsShape
<1>1. job[j] = NoJob /\ figures' = figures /\ tasks' = tasks
    BY DEF Announce
<1>2. \A i \in Jobs \ {j} : job'[i] = job[i]
    BY DEF Announce, TypeOK
<1>3. /\ job'[j] = [kind |-> kind, of |-> id, attempts |-> 0,
                    phase |-> IF kind \in Direct THEN "find" ELSE "committed"]
      /\ job'[j] \in JobRecord
    BY BoundsAssumption DEF Announce, TypeOK, JobRecord, Phases
<1>4. job' \in [Jobs -> JobRecord \cup {NoJob}]
    BY <1>3 DEF Announce, TypeOK
<1>5. \A t \in tasks : t.job \in Jobs /\ t.job # j
  <2> SUFFICES ASSUME NEW t \in tasks, t.job = j PROVE FALSE
      BY DEF TypeOK, TaskRecord
  <2>1. Attempt(j) = 1 /\ t.attempt = 1
      BY <1>1 DEF TypeOK, TaskRecord, Attempt, NoJob
  <2>2. job[j].phase \in {"paidDay", "syncing"}
      BY <2>1 DEF TaskOK
  <2> QED BY <1>1, <2>2 DEF NoJob
<1>6. \A t \in tasks : Attempt(t.job)' = Attempt(t.job) /\ job'[t.job] = job[t.job]
    BY <1>2, <1>5 DEF Attempt
<1>7. TypeOK'
    BY <1>1, <1>4, <1>6 DEF TypeOK, RowTypes
<1>8. \A t \in tasks' : TaskOK(t)'
    BY <1>1, <1>6 DEF TaskOK
<1>9. ASSUME NEW i \in Jobs PROVE JobOK(i)'
  <2>1. CASE i = j
      BY <2>1, <1>3, BoundsAssumption DEF JobOK, OfReview
  <2>2. CASE i # j
    <3>1. job'[i] = job[i] /\ JobOK(i) /\ OfReview(i)' = OfReview(i)
        BY <1>2, <2>2 DEF OfReview
    <3> QED BY <3>1 DEF JobOK
  <2> QED BY <2>1, <2>2
<1>10. job'[j].kind # "unused"
    BY <1>3 DEF Kinds
<1> QED BY <1>7, <1>8, <1>9, <1>10

LEMMA ReservationChangeShape ==
    ASSUME StatisticsShape, NEW j \in Jobs, NEW r, NEW kind, NEW E,
           ReservationChange(r, j, kind, E)
    PROVE  StatisticsShape' /\ job'[j].kind # "unused"
<1>1. /\ kind \in Kinds /\ kind \notin {"REVIEW", "directReview"}
      /\ Announce(j, kind, r) /\ RowTypes' /\ review' = review
      /\ r \in Reservations /\ status'[r] # None
    BY DEF ReservationChange, Kinds
<1>2. excused' \subseteq Keys
    BY ExcuseTypes DEF ReservationChange, StatisticsShape
<1>3. \A x \in Reservations : status[x] # None => status'[x] # None
    BY DEF ReservationChange
<1>4. ReviewsOK'
    BY <1>1, <1>3 DEF ReviewsOK, StatisticsShape, TypeOK, ReviewRecord
<1> QED BY <1>1, <1>2, <1>3, <1>4, AnnounceShape

LEMMA ReviewChangeShape ==
    ASSUME StatisticsShape, NEW j \in Jobs, NEW v, NEW kind, ReviewChange(v, j, kind)
    PROVE  StatisticsShape' /\ job'[j].kind # "unused"
<1>1. /\ kind \in Kinds /\ kind \in {"REVIEW", "directReview"}
      /\ Announce(j, kind, v) /\ RowTypes' /\ status' = status
      /\ v \in Reviews /\ review'[v] # None
    BY DEF ReviewChange, Kinds
<1>2. excused' \subseteq Keys
    BY ExcuseTypes DEF ReviewChange, StatisticsShape
<1>3. \A x \in Reviews : review[x] # None => review'[x] # None
    BY DEF ReviewChange
<1>4. ReviewsOK'
    BY <1>1 DEF ReviewsOK, StatisticsShape, ReviewChange
<1> QED BY <1>1, <1>2, <1>3, <1>4, AnnounceShape
----------------------------------------------------------------------------
(* The queue and the recomputation keep the shape.                         *)

\* One job goes on to phase p, with n attempts behind it.
JobMoves(j, p, n) ==
    /\ j \in Jobs /\ job[j] # NoJob
    /\ job' \in [Jobs -> JobRecord \cup {NoJob}]
    /\ \A i \in Jobs \ {j} : job'[i] = job[i]
    /\ job'[j].kind = job[j].kind /\ job'[j].of = job[j].of
    /\ job'[j].phase = p /\ job'[j].attempts = n

LEMMA PhaseMoves ==
    ASSUME StatisticsShape, NEW j \in Jobs, job[j] # NoJob, NEW p \in Phases, Phase(j, p)
    PROVE  JobMoves(j, p, job[j].attempts)
<1>1. job[j] \in JobRecord
    BY UnusedJob DEF StatisticsShape
<1>2. [job[j] EXCEPT !.phase = p] \in JobRecord
    BY <1>1 DEF JobRecord
<1> QED BY <1>1, <1>2 DEF Phase, JobMoves, StatisticsShape, TypeOK, JobRecord

\* After the last attempt the job is given up, with what it covers excused.
FailsTo(j, p, n) ==
    \/ p = "dropped" /\ Excuse(Covers(j))
    \/ p = "waiting" /\ Excuse({}) /\ n < MaxAttempts

LEMMA FailureMoves ==
    ASSUME StatisticsShape, NEW j \in Jobs, job[j].phase \in Running, JobFails(j),
           NEW n, n = Attempt(j)
    PROVE  job[j] # NoJob /\ \E p : JobMoves(j, p, n) /\ FailsTo(j, p, n)
<1>1. job[j] # NoJob /\ job[j] \in JobRecord
    BY UnusedJob DEF StatisticsShape, Running
<1>2. job[j].attempts < MaxAttempts /\ job[j].attempts \in Nat
    BY <1>1, UnusedJob DEF StatisticsShape, JobOK, Running, JobRecord
<1>3. n \in 0..MaxAttempts
    BY <1>2, BoundsAssumption DEF Attempt
<1> DEFINE moved(p) == [job EXCEPT ![j].attempts = n, ![j].phase = p]
<1>4. ASSUME NEW p \in Phases, job' = moved(p)
      PROVE  JobMoves(j, p, n)
  <2>1. [kind |-> job[j].kind, of |-> job[j].of, phase |-> p, attempts |-> n] \in JobRecord
      BY <1>1, <1>3 DEF JobRecord
  <2>2. moved(p)[j] = [kind |-> job[j].kind, of |-> job[j].of, phase |-> p, attempts |-> n]
      BY <1>1 DEF StatisticsShape, TypeOK, JobRecord
  <2> QED BY <1>1, <1>4, <2>1, <2>2 DEF JobMoves, StatisticsShape, TypeOK
<1>5. "dropped" \in Phases /\ "waiting" \in Phases
    BY DEF Phases
<1>6. CASE job[j].kind \in Direct \/ Attempt(j) = MaxAttempts
  <2>1. job' = moved("dropped") /\ Excuse(Covers(j))
      BY <1>6 DEF JobFails
  <2> QED BY <1>1, <1>4, <1>5, <2>1 DEF FailsTo
<1>7. CASE ~(job[j].kind \in Direct \/ Attempt(j) = MaxAttempts)
  <2>1. job' = moved("waiting") /\ Excuse({})
      BY <1>7 DEF JobFails
  <2>2. n < MaxAttempts
      BY <1>3, <1>7, BoundsAssumption
  <2> QED BY <1>1, <1>4, <1>5, <2>1, <2>2 DEF FailsTo
<1> QED BY <1>6, <1>7

\* What a job's move must respect to keep the shape.
LEMMA MoveShape ==
    ASSUME StatisticsShape, NEW j, NEW p \in Phases, NEW n, JobMoves(j, p, n),
           UNCHANGED rowVars, n >= job[j].attempts,
           p \notin {"done", "dropped"} => n < MaxAttempts,
           p \in {"paidDay", "findRow"} => job[j].kind = "PAYMENT",
           excused' \subseteq Keys,
           figures' \in [Keys -> [bookings : BookingSets, extra : ExtraSets]],
           tasks' \subseteq TaskRecord,
           \A t \in tasks' :
              \/ t.job = j /\ t.attempt = n + 1 /\ p \in {"paidDay", "syncing"}
              \/ /\ \E u \in tasks : u.job = t.job /\ u.attempt = t.attempt
                 /\ t.job = j => t.attempt # n + 1 \/ p \in {"paidDay", "syncing"}
    PROVE  StatisticsShape'
<1> USE DEF StatisticsShape
<1>1. j \in Jobs /\ job[j] \in JobRecord /\ job'[j] \in JobRecord /\ n \in Nat
  <2>1. j \in Jobs /\ job[j] \in JobRecord
      BY UnusedJob DEF JobMoves
  <2>2. job'[j] # NoJob
      BY <2>1 DEF JobMoves, NoJob, Phases
  <2> QED BY <2>1, <2>2 DEF JobMoves, JobRecord
<1>2. \A t \in tasks : t.job \in Jobs /\ t.attempt \in Nat /\ t.attempt <= Attempt(t.job)
    BY DEF TypeOK, TaskRecord
<1>3. \A i \in Jobs \ {j} : Attempt(i)' = Attempt(i)
    BY DEF JobMoves, Attempt
<1>4. Attempt(j)' = n + 1 /\ Attempt(j)' >= Attempt(j)
    BY <1>1 DEF JobMoves, Attempt, JobRecord
<1>5. ASSUME NEW t \in tasks' PROVE t.attempt <= Attempt(t.job)' /\ TaskOK(t)'
  <2>1. CASE t.job = j
    <3>1. t.attempt <= n + 1
        BY <1>1, <1>2, <1>4, <2>1 DEF Attempt, JobRecord
    <3>2. t.attempt = n + 1 => p \in {"paidDay", "syncing"}
        BY <2>1
    <3> QED BY <3>1, <3>2, <2>1, <1>4 DEF TaskOK, JobMoves
  <2>2. CASE t.job # j
    <3>1. PICK u \in tasks : u.job = t.job /\ u.attempt = t.attempt
        BY <2>2
    <3>2. TaskOK(u) /\ t.job \in Jobs \ {j}
        BY <3>1, <1>2, <2>2
    <3> QED BY <3>1, <3>2, <1>2, <1>3 DEF TaskOK, JobMoves
  <2> QED BY <2>1, <2>2
<1>6. TypeOK'
    BY <1>5 DEF TypeOK, JobMoves, rowVars
<1>7. ASSUME NEW i \in Jobs PROVE JobOK(i)'
  <2>1. JobOK(i) /\ (OfReview(i)' <=> OfReview(i))
      BY DEF OfReview, JobMoves
  <2>2. CASE i = j
      BY <1>1, <2>1, <2>2 DEF JobOK, JobMoves, rowVars
  <2>3. CASE i # j
      BY <2>1, <2>3 DEF JobOK, JobMoves, rowVars
  <2> QED BY <2>2, <2>3
<1>8. ReviewsOK'
    BY DEF ReviewsOK, rowVars
<1> QED BY <1>5, <1>6, <1>7, <1>8
----------------------------------------------------------------------------
(* A change leaves no figure stale without a reason.                       *)

\* Nobody needs the excuse of a figure that is right, and nobody recomputes.
AtRest(k) == figures[k] = Actual(k) /\ \A t \in tasks : t.key # k

LEMMA ExcuseKeeps ==
    ASSUME NEW E, Excuse(E), NEW k \in excused \cup E
    PROVE  k \in excused' \/ AtRest(k)'
    BY DEF Excuse, AtRest

\* What a change does to the figures: a new job, which has not begun, covers
\* those that become wrong, or they are excused; so are those that other jobs
\* no longer cover.
ChangeEffect(j, E) ==
    /\ job[j] = NoJob /\ job'[j].phase \in {"committed", "find"}
    /\ \A i \in Jobs \ {j} : job'[i] = job[i]
    /\ figures' = figures /\ tasks' = tasks /\ Excuse(E)
    /\ \A k \in Keys : k \in E \cup Covers(j)' \/ SameParts(k)
    /\ \A i \in Jobs \ {j} : job[i] # NoJob =>
          Ahead(i) \subseteq Ahead(i)' \cup E /\ Covers(i) \subseteq Covers(i)' \cup E

LEMMA AnnounceEffect ==
    ASSUME TypeOK, NEW j \in Jobs, NEW kind, NEW id, Announce(j, kind, id)
    PROVE  /\ job[j] = NoJob /\ job'[j].phase \in {"committed", "find"}
           /\ job'[j].kind = kind /\ job'[j].of = id
           /\ \A i \in Jobs \ {j} : job'[i] = job[i]
           /\ figures' = figures /\ tasks' = tasks
    BY DEF Announce, TypeOK

LEMMA ReservationChangeEffect ==
    ASSUME StatisticsShape, StatisticsShape', NEW j \in Jobs, NEW r, NEW kind, NEW E,
           ReservationChange(r, j, kind, E)
    PROVE  ChangeEffect(j, E)
<1>1. r \in Reservations /\ Announce(j, kind, r) /\ Excuse(E) /\ review' = review
    BY DEF ReservationChange
<1>2. /\ job[j] = NoJob /\ job'[j].phase \in {"committed", "find"}
      /\ job'[j].kind = kind /\ job'[j].of = r
      /\ \A i \in Jobs \ {j} : job'[i] = job[i]
      /\ figures' = figures /\ tasks' = tasks
    BY <1>1, AnnounceEffect DEF StatisticsShape
<1>3. KeysOf(slot'[r]) \subseteq Covers(j)' /\ (kind = "PAYMENT" => PaidKeys(j)' \subseteq Covers(j)')
  <2>1. ~OfReview(j)' /\ RowOf(j)' = r
      BY <1>2 DEF ReservationChange, OfReview, RowOf
  <2> QED BY <1>2, <2>1, CoversCasesNext
<1>4. ASSUME NEW k \in Keys PROVE k \in E \cup Covers(j)' \/ SameParts(k)
  <2> SUFFICES ASSUME k \notin E, k \notin Covers(j)' PROVE SameParts(k)
      OBVIOUS
  <2>1. k \notin KeysOf(slot'[r])
      BY <1>3
  <2>2. status[r] # None => k \notin KeysOf(slot[r])
      BY <2>1 DEF ReservationChange
  <2>3. ASSUME paidOn'[r] # paidOn[r], NEW d \in {paidOn[r], paidOn'[r]}
        PROVE  k # CenterOn(d)
    <3>1. CASE d = None
        BY <3>1, KeyShape DEF CenterOn
    <3>2. CASE d # None /\ d = paidOn'[r]
      <4>1. kind = "PAYMENT" /\ RowOf(j)' = r
          BY <2>3, <3>2, <1>2 DEF ReservationChange, RowOf, OfReview
      <4>2. CenterOn(d) \in PaidKeys(j)'
          BY <4>1, <3>2 DEF PaidKeys
      <4> QED BY <4>1, <4>2, <1>3
    <3>3. CASE d # None /\ d = paidOn[r]
        BY <3>3, <2>3, <2>1 DEF ReservationChange
    <3> QED BY <3>1, <3>2, <3>3, <2>3
  <2>4. TypeOK /\ TypeOK' /\ ReviewsOK
      BY DEF StatisticsShape
  <2>5. \A x \in Reservations \ {r} :
            status'[x] = status[x] /\ slot'[x] = slot[x] /\ paidOn'[x] = paidOn[x]
      BY DEF ReservationChange
  <2>6. paidOn'[r] # paidOn[r] => k \notin {CenterOn(paidOn[r]), CenterOn(paidOn'[r])}
      BY <2>3
  <2> QED BY <1>1, <2>1, <2>2, <2>4, <2>5, <2>6, OneReservationChanges
<1>5. ASSUME NEW i \in Jobs \ {j}, job[i] # NoJob
      PROVE  Ahead(i) \subseteq Ahead(i)' \cup E /\ Covers(i) \subseteq Covers(i)' \cup E
  <2>1. job'[i] = job[i] /\ job[i].kind # "unused"
      BY <1>2, <1>5, UnusedJob DEF StatisticsShape
  <2>2. RowOf(i)' = RowOf(i) /\ (OfReview(i)' <=> OfReview(i))
      BY <1>1, <2>1 DEF RowOf, OfReview
  <2>3. RowOf(i) \in Reservations /\ status[RowOf(i)] # None
      BY <2>1, RowExists
  <2> DEFINE x == RowOf(i)
  <2>4. KeysOf(slot[x]) \subseteq KeysOf(slot'[x]) \cup E
      BY <2>3 DEF ReservationChange
  <2>5. slot[x] \in Slots /\ slot'[x] \in Slots
      BY <2>3 DEF StatisticsShape, TypeOK
  <2>6. StaffOf(slot[x]) \in {StaffOf(slot'[x])} \cup E
    <3>1. CASE x = r
        \* The staff member's figure is the only one of the table in KeysOf.
      <4>1. StaffOf(slot[x]) \in KeysOf(slot'[x]) \cup E
          BY <2>4, <2>5, SlotKeys
      <4>2. StaffOf(slot[x]).table = "staff"
          BY DEF StaffOf
      <4>3. \A k \in KeysOf(slot'[x]) : k.table = "staff" => k = StaffOf(slot'[x])
          BY DEF KeysOf, CenterOn, StaffOf, StationOf
      <4> QED BY <4>1, <4>2, <4>3
    <3>2. CASE x # r
        BY <2>3, <3>2 DEF ReservationChange
    <3> QED BY <3>1, <3>2
  <2>7. PaidKeys(i) \subseteq PaidKeys(i)' \cup KeysOf(slot'[x]) \cup E
    <3>1. CASE x = r /\ paidOn'[r] # paidOn[r]
        BY <2>2, <3>1 DEF PaidKeys, ReservationChange
    <3>2. CASE x # r \/ paidOn'[r] = paidOn[r]
        BY <2>2, <2>3, <3>2 DEF PaidKeys, ReservationChange
    <3> QED BY <3>1, <3>2
  <2>8. Covers(i) \subseteq Covers(i)' \cup E
    <3>1. CASE OfReview(i)
        BY <3>1, <2>1, <2>2, <2>6, CoversCases, CoversCasesNext
    <3>2. CASE job[i].kind = "PAYMENT"
        BY <3>2, <2>1, <2>2, <2>4, <2>7, CoversCases, CoversCasesNext
    <3>3. CASE ~OfReview(i) /\ job[i].kind # "PAYMENT"
        BY <3>3, <2>1, <2>2, <2>4, CoversCases, CoversCasesNext
    <3> QED BY <3>1, <3>2, <3>3
  <2>9. Ahead(i) \subseteq Ahead(i)' \cup E
    <3>1. CASE job[i].phase \in {"committed", "waiting", "find"}
        BY <3>1, <2>1, <2>8 DEF Ahead
    <3>2. CASE job[i].phase \in {"paidDay", "findRow"}
        BY <3>2, <2>1, <2>2, <2>4 DEF Ahead
    <3>3. CASE job[i].phase \notin {"committed", "waiting", "find", "paidDay", "findRow"}
        BY <3>3 DEF Ahead
    <3> QED BY <3>1, <3>2, <3>3
  <2> QED BY <2>8, <2>9
<1> QED BY <1>1, <1>2, <1>4, <1>5 DEF ChangeEffect

LEMMA ReviewChangeEffect ==
    ASSUME StatisticsShape, StatisticsShape', NEW j \in Jobs, NEW v, NEW kind,
           ReviewChange(v, j, kind)
    PROVE  ChangeEffect(j, {})
<1>1. /\ v \in Reviews /\ kind \in {"REVIEW", "directReview"} /\ Announce(j, kind, v)
      /\ Excuse({}) /\ status' = status /\ slot' = slot /\ paidOn' = paidOn
    BY DEF ReviewChange
<1>2. /\ job[j] = NoJob /\ job'[j].phase \in {"committed", "find"}
      /\ job'[j].kind = kind /\ job'[j].of = v
      /\ \A i \in Jobs \ {j} : job'[i] = job[i]
      /\ figures' = figures /\ tasks' = tasks
    BY <1>1, AnnounceEffect DEF StatisticsShape
<1>3. Covers(j)' = {StaffOf(slot[review'[v].of])}
    BY <1>1, <1>2, CoversCasesNext DEF OfReview, RowOf
<1>4. ASSUME NEW k \in Keys PROVE k \in Covers(j)' \/ SameParts(k)
    BY <1>1, <1>3, OneReviewChanges DEF ReviewChange
<1>5. ASSUME NEW i \in Jobs \ {j}, job[i] # NoJob
      PROVE  Ahead(i)' = Ahead(i) /\ Covers(i)' = Covers(i)
  <2>1. job'[i] = job[i] /\ job[i].kind # "unused"
      BY <1>2, <1>5, UnusedJob DEF StatisticsShape
  <2>2. OfReview(i) => job[i].of \in Reviews /\ review[job[i].of] # None
      BY <2>1, RowExists
  <2>3. (OfReview(i)' <=> OfReview(i)) /\ RowOf(i)' = RowOf(i)
    <3>1. OfReview(i) => review'[job[i].of].of = review[job[i].of].of
        BY <2>2 DEF ReviewChange
    <3> QED BY <2>1, <3>1 DEF RowOf, OfReview
  <2>4. Covers(i)' = Covers(i)
      BY <1>1, <2>1, <2>3, CoversCases, CoversCasesNext DEF PaidKeys
  <2> QED BY <1>1, <2>1, <2>3, <2>4 DEF Ahead
<1> QED BY <1>1, <1>2, <1>4, <1>5 DEF ChangeEffect

LEMMA ChangeIsFresh ==
    ASSUME StatisticsShape, StatisticsShape', FreshInv, NEW j \in Jobs, NEW E,
           ChangeEffect(j, E), job'[j].kind # "unused"
    PROVE  FreshInv'
<1> USE DEF ChangeEffect
<1>1. Ahead(j)' = Covers(j)'
    BY DEF Ahead
<1>2. \A t \in tasks : t.job \in Jobs /\ t.key \in Keys
    BY DEF StatisticsShape, TypeOK, TaskRecord
<1>3. ASSUME NEW t \in tasks
      PROVE  /\ Current(t)' <=> Current(t)
             /\ Current(t) => t.job \in Jobs \ {j} /\ job[t.job] # NoJob
  <2>1. CASE t.job = j
    <3>1. ~Current(t)
        BY <2>1 DEF Current, NoJob, Running
    <3>2. TaskOK(t)'
        BY DEF StatisticsShape
    <3>3. ~Current(t)'
        BY <2>1, <3>2 DEF Current, TaskOK, Attempt
    <3> QED BY <3>1, <3>3
  <2>2. CASE t.job # j
      BY <1>2, <2>2 DEF Current, Attempt, NoJob, Running
  <2> QED BY <2>1, <2>2
<1>4. ASSUME NEW k \in Keys, k \in E \cup Covers(j)'
      PROVE  Awaited(k)' \/ AtRest(k)'
    BY <1>1, <1>4, ExcuseKeeps DEF Awaited
<1>5. ASSUME NEW k \in Keys, Awaited(k)
      PROVE  Awaited(k)' \/ AtRest(k)'
  <2>1. CASE k \in excused
      BY <2>1, ExcuseKeeps DEF Awaited
  <2>2. ASSUME NEW t \in tasks, WillRefresh(t, k)
        PROVE  Awaited(k)' \/ AtRest(k)'
    <3>1. CASE SameParts(k)
      <4>1. WillRefresh(t, k)'
          BY <1>3, <2>2, <3>1 DEF WillRefresh, SameParts
      <4> QED BY <4>1 DEF Awaited
    <3>2. CASE ~SameParts(k)
        BY <1>4, <3>2
    <3> QED BY <3>1, <3>2
  <2>3. ASSUME NEW i \in Jobs, k \in Ahead(i)
        PROVE  Awaited(k)' \/ AtRest(k)'
    <3>1. job[i] # NoJob
        BY <2>3, UnusedJob DEF StatisticsShape
    <3>2. k \in Ahead(i)' \/ k \in E
        BY <2>3, <3>1
    <3> QED BY <3>2, <1>4 DEF Awaited
  <2> QED BY <1>5, <2>1, <2>2, <2>3 DEF Awaited
<1>6. ASSUME NEW k \in Keys, figures'[k] # Actual(k)'
      PROVE  Awaited(k)'
  <2>1. CASE SameParts(k)
    <3>1. figures[k] # Actual(k)
        BY <1>6, <2>1 DEF SameParts, Actual
    <3> QED BY <1>5, <1>6, <3>1 DEF FreshInv, AtRest
  <2>2. CASE ~SameParts(k)
      BY <1>4, <1>6, <2>2 DEF AtRest
  <2> QED BY <2>1, <2>2
<1>7. ASSUME NEW t \in tasks, Stale(t)', ~t.overtaken
      PROVE  Awaited(t.key)'
  <2>1. ~AtRest(t.key)' /\ t.key \in Keys
      BY <1>2 DEF AtRest
  <2>2. CASE SameParts(t.key)
    <3>1. Stale(t)
        BY <1>7, <2>2 DEF Stale, SameParts
    <3> QED BY <1>5, <1>7, <2>1, <3>1 DEF FreshInv, StaleTasksAwaited
  <2>3. CASE ~SameParts(t.key)
      BY <1>4, <2>1, <2>3
  <2> QED BY <2>2, <2>3
<1>8. ASSUME NEW t \in tasks, Current(t)'
      PROVE  t.key \in Covers(t.job)' \cup excused'
  <2>1. Current(t) /\ t.job \in Jobs \ {j} /\ job[t.job] # NoJob
      BY <1>3, <1>8
  <2>2. t.key \in Covers(t.job) \cup excused
      BY <2>1 DEF FreshInv, TasksCovered
  <2>3. t.key \in Covers(t.job)' \cup E \cup excused
      BY <2>1, <2>2
  <2> QED BY <2>3, ExcuseKeeps DEF AtRest
<1>9. StaleTasksAwaited'
    BY <1>7 DEF StaleTasksAwaited
<1>10. TasksCovered'
    BY <1>8 DEF TasksCovered
<1> QED BY <1>6, <1>9, <1>10 DEF FreshInv
----------------------------------------------------------------------------
(* Steps that leave the rows alone.                                        *)

LEMMA PartsStay ==
    ASSUME UNCHANGED rowVars, NEW k
    PROVE  SameParts(k) /\ Actual(k)' = Actual(k)
<1>1. /\ OnDay(k)' = OnDay(k) /\ RealizedCash(k)' = RealizedCash(k)
      /\ PublishedRatings(k)' = PublishedRatings(k)
    BY DEF rowVars, OnDay, Rows, RealizedCash, PublishedRatings
<1>2. CenterBookings(k)' = CenterBookings(k) /\ OwnBookings(k)' = OwnBookings(k)
    BY <1>1 DEF rowVars, CenterBookings, OwnBookings, Done
<1>3. BookingsPart(k)' = BookingsPart(k)
    BY <1>2 DEF BookingsPart
<1>4. ExtraPart(k)' = ExtraPart(k)
    BY <1>1 DEF ExtraPart
<1> QED BY <1>3, <1>4 DEF SameParts, Actual

LEMMA CoversStay ==
    ASSUME UNCHANGED rowVars, NEW j, job'[j].kind = job[j].kind, job'[j].of = job[j].of
    PROVE  /\ Covers(j)' = Covers(j) /\ KeysOf(slot[RowOf(j)])' = KeysOf(slot[RowOf(j)])
           /\ job'[j].phase = job[j].phase => Ahead(j)' = Ahead(j)
<1>1. (OfReview(j)' <=> OfReview(j)) /\ RowOf(j)' = RowOf(j)
    BY DEF OfReview, RowOf, rowVars
<1>2. Covers(j)' = Covers(j)
    BY <1>1, CoversCases, CoversCasesNext DEF rowVars, PaidKeys
<1> QED BY <1>1, <1>2 DEF Ahead, rowVars

\* A task that has not begun has nothing stale in hand.
LEMMA NewTask ==
    ASSUME StatisticsShape, NEW j \in Jobs, job[j] # NoJob,
           job[j].phase \notin {"done", "dropped"}, NEW k \in Keys
    PROVE  /\ TaskFor(j, k) \in TaskRecord
           /\ \A t : t.key = k /\ t.read = TaskFor(j, k).read => ~Stale(t)
<1>1. k.table = "station" => ExtraPart(k) = {}
    BY DEF ExtraPart
<1>2. Attempt(j) \in 1..MaxAttempts
    BY UnusedJob, BoundsAssumption DEF StatisticsShape, JobOK, JobRecord, Attempt
<1>3. TaskFor(j, k) \in TaskRecord
    BY <1>2 DEF TaskFor, TaskRecord, ExtraSets
<1>4. \A t : t.key = k /\ t.read = TaskFor(j, k).read => ~Stale(t)
    BY <1>1 DEF TaskFor, Stale
<1> QED BY <1>3, <1>4

\* A job that waits for no task goes on, and starts tasks for ks.
GoesOn(j, p, ks) ==
    /\ JobMoves(j, p, job[j].attempts)
    /\ job[j].phase \in {"committed", "waiting", "find", "findRow"}
    /\ p \in {"waiting", "find", "paidDay", "findRow", "syncing"}
    /\ p \in {"paidDay", "findRow"} => job[j].kind = "PAYMENT"
    /\ ks # {} => p \in {"paidDay", "syncing"}
    /\ ks \subseteq Covers(j) /\ Ahead(j) \subseteq ks \cup Ahead(j)'
    /\ tasks' = tasks \cup {TaskFor(j, k) : k \in ks}
    /\ UNCHANGED <<rowVars, figures, excused>>

LEMMA GoesOnInv ==
    ASSUME StatisticsShape, FreshInv, NEW j, NEW p, NEW ks, GoesOn(j, p, ks)
    PROVE  StatisticsShape' /\ FreshInv'
<1>1. /\ j \in Jobs /\ job[j] # NoJob /\ job[j].kind # "unused" /\ job[j] \in JobRecord
      /\ p \in Phases /\ UNCHANGED rowVars
      /\ job'[j].kind = job[j].kind /\ job'[j].of = job[j].of
    BY UnusedJob DEF GoesOn, JobMoves, StatisticsShape, Phases
<1>2. ks \subseteq Keys
    BY <1>1, CoversTypes DEF GoesOn
<1>3. \A k \in ks : TaskFor(j, k) \in TaskRecord
    BY <1>1, <1>2, NewTask DEF GoesOn
<1>4. \A t \in tasks : t.job \in Jobs /\ t.key \in Keys
    BY DEF StatisticsShape, TypeOK, TaskRecord
<1>5. \A t \in tasks : t.job = j => t.attempt # Attempt(j)
    BY DEF StatisticsShape, TaskOK, GoesOn
<1>6. StatisticsShape'
  <2>1. job[j].attempts < MaxAttempts /\ job[j].attempts \in Nat
      BY <1>1 DEF StatisticsShape, JobOK, JobRecord, GoesOn
  <2>2. tasks' \subseteq TaskRecord
      BY <1>3 DEF GoesOn, StatisticsShape, TypeOK
  <2>3. ASSUME NEW t \in tasks'
        PROVE  \/ /\ t.job = j /\ t.attempt = job[j].attempts + 1
                  /\ p \in {"paidDay", "syncing"}
               \/ /\ \E u \in tasks : u.job = t.job /\ u.attempt = t.attempt
                  /\ t.job = j =>
                       t.attempt # job[j].attempts + 1 \/ p \in {"paidDay", "syncing"}
    <3>1. CASE t \in tasks
        BY <3>1, <1>5 DEF Attempt
    <3>2. CASE t \notin tasks
        BY <3>2 DEF GoesOn, TaskFor, Attempt
    <3> QED BY <3>1, <3>2
  <2>4. /\ excused' \subseteq Keys
        /\ figures' \in [Keys -> [bookings : BookingSets, extra : ExtraSets]]
      BY DEF GoesOn, StatisticsShape, TypeOK
  <2>5. PICK n : n = job[j].attempts
      OBVIOUS
  <2>6. JobMoves(j, p, n) /\ (p \in {"paidDay", "findRow"} => job[j].kind = "PAYMENT")
      BY <2>5 DEF GoesOn, JobMoves
  <2>7. n >= job[j].attempts /\ n < MaxAttempts
      BY <2>1, <2>5, BoundsAssumption
  <2>8. ASSUME NEW t \in tasks'
        PROVE  \/ t.job = j /\ t.attempt = n + 1 /\ p \in {"paidDay", "syncing"}
               \/ /\ \E u \in tasks : u.job = t.job /\ u.attempt = t.attempt
                  /\ t.job = j => t.attempt # n + 1 \/ p \in {"paidDay", "syncing"}
      BY <2>3, <2>5
  <2> QED BY <1>1, <2>2, <2>4, <2>6, <2>7, <2>8, MoveShape
<1>7. \A k : SameParts(k) /\ Actual(k)' = Actual(k)
    BY <1>1, PartsStay
<1>8. \A i \in Jobs : Covers(i)' = Covers(i) /\ (i # j => Ahead(i)' = Ahead(i))
    BY <1>1, CoversStay DEF GoesOn, JobMoves
<1>9. \A t \in tasks : Current(t)' <=> Current(t)
    BY <1>1, <1>4, <1>5 DEF Current, Attempt, GoesOn, JobMoves
<1>10. ASSUME NEW k \in ks PROVE WillRefresh(TaskFor(j, k), k)' /\ ~Stale(TaskFor(j, k))'
  <2> DEFINE t == TaskFor(j, k)
  <2>1. p \in Running
      BY DEF GoesOn, Running
  <2>2. t.job = j /\ t.key = k /\ t.attempt = job[j].attempts + 1
      BY DEF TaskFor, Attempt
  <2>3. ~Stale(t)
      BY <1>1, <1>2, NewTask DEF GoesOn, TaskFor
  <2>4. (k.table = "station" => ExtraPart(k) = {}) /\ t.read.bookings = None
        /\ t.read.extra = IF k.table = "station" THEN {} ELSE None
      BY DEF TaskFor, ExtraPart
  <2>5. t' = t
      BY <1>1 DEF TaskFor, Attempt, GoesOn, JobMoves
  <2>6. Current(t)'
      BY <2>1, <2>2, <2>5 DEF Current, Attempt, GoesOn, JobMoves
  <2>7. WillRefresh(t, k)'
      BY <1>7, <2>2, <2>4, <2>5, <2>6 DEF WillRefresh, SameParts
  <2> QED BY <1>7, <2>2, <2>4, <2>5, <2>7 DEF Stale, SameParts
<1>11. ASSUME NEW k \in Keys, Awaited(k) PROVE Awaited(k)'
  <2>1. CASE k \in excused
      BY <2>1 DEF Awaited, GoesOn
  <2>2. ASSUME NEW t \in tasks, WillRefresh(t, k) PROVE Awaited(k)'
    <3>1. WillRefresh(t, k)' /\ t \in tasks'
        BY <1>7, <1>9, <2>2 DEF WillRefresh, SameParts, GoesOn
    <3> QED BY <3>1 DEF Awaited
  <2>3. ASSUME NEW i \in Jobs, k \in Ahead(i) PROVE Awaited(k)'
    <3>1. CASE i # j
        BY <1>8, <2>3, <3>1 DEF Awaited
    <3>2. CASE i = j /\ k \in ks
      <4>1. TaskFor(j, k) \in tasks' /\ WillRefresh(TaskFor(j, k), k)'
          BY <1>10, <3>2 DEF GoesOn
      <4>2. TaskFor(j, k)' = TaskFor(j, k)
          BY <1>1 DEF TaskFor, Attempt, GoesOn, JobMoves
      <4>3. \E t \in tasks' : WillRefresh(t, k)'
          BY <4>1, <4>2 DEF WillRefresh, Current
      <4> QED BY <4>3 DEF Awaited
    <3>3. CASE i = j /\ k \notin ks
        BY <1>1, <2>3, <3>3 DEF Awaited, GoesOn
    <3> QED BY <3>1, <3>2, <3>3
  <2> QED BY <1>11, <2>1, <2>2, <2>3 DEF Awaited
<1>12. \A k \in Keys : figures'[k] # Actual(k)' => Awaited(k)'
    BY <1>7, <1>11 DEF FreshInv, GoesOn
<1>13. ASSUME NEW t \in tasks', Stale(t)' PROVE t.overtaken \/ Awaited(t.key)'
  <2>1. CASE t \in tasks
    <3>1. Stale(t)
        BY <1>7, <1>13 DEF Stale, SameParts
    <3> QED BY <1>4, <1>11, <2>1, <3>1 DEF FreshInv, StaleTasksAwaited
  <2>2. ASSUME NEW k \in ks, t = TaskFor(j, k) PROVE FALSE
      BY <1>10, <1>13, <2>2, <1>1 DEF Stale, TaskFor, Attempt, GoesOn, JobMoves
  <2> QED BY <2>1, <2>2 DEF GoesOn
<1>14. ASSUME NEW t \in tasks', Current(t)' PROVE t.key \in Covers(t.job)' \cup excused'
  <2>1. CASE t \in tasks
      BY <1>4, <1>8, <1>9, <1>14, <2>1 DEF FreshInv, TasksCovered, GoesOn
  <2>2. ASSUME NEW k \in ks, t = TaskFor(j, k) PROVE t.key \in Covers(t.job)'
      BY <1>1, <1>8, <2>2 DEF TaskFor, GoesOn
  <2> QED BY <2>1, <2>2 DEF GoesOn
<1>15. StaleTasksAwaited'
    BY <1>13 DEF StaleTasksAwaited
<1>16. TasksCovered'
    BY <1>14 DEF TasksCovered
<1> QED BY <1>6, <1>12, <1>15, <1>16 DEF FreshInv

\* A job fails: it waits again, or is given up with what it covers excused.
GivesUp(j, p, n) ==
    /\ JobMoves(j, p, n) /\ n >= job[j].attempts
    /\ FailsTo(j, p, n)
    /\ UNCHANGED <<rowVars, figures>>
    /\ tasks' \subseteq tasks /\ \A t \in tasks \ tasks' : t.job = j
    /\ \A t \in tasks : t.job = j => t.attempt # n + 1

LEMMA GivesUpInv ==
    ASSUME StatisticsShape, FreshInv, NEW j, NEW p, NEW n, GivesUp(j, p, n)
    PROVE  StatisticsShape' /\ FreshInv'
<1>1. /\ j \in Jobs /\ job[j] # NoJob /\ job[j].kind # "unused" /\ job[j] \in JobRecord
      /\ p \in Phases /\ UNCHANGED rowVars
      /\ job'[j].kind = job[j].kind /\ job'[j].of = job[j].of
    BY UnusedJob DEF GivesUp, FailsTo, JobMoves, StatisticsShape, Phases
<1>2. Covers(j) \subseteq Keys /\ Ahead(j) \subseteq Covers(j)
    BY <1>1, CoversTypes
<1>3. \A t \in tasks : t.job \in Jobs /\ t.key \in Keys
    BY DEF StatisticsShape, TypeOK, TaskRecord
<1>4. StatisticsShape'
  <2>1. excused' \subseteq Keys
      BY <1>2, ExcuseTypes DEF GivesUp, FailsTo, StatisticsShape
  <2>2. /\ tasks' \subseteq TaskRecord
        /\ figures' \in [Keys -> [bookings : BookingSets, extra : ExtraSets]]
      BY DEF GivesUp, FailsTo, StatisticsShape, TypeOK
  <2>3. /\ JobMoves(j, p, n) /\ n >= job[j].attempts
        /\ p \notin {"done", "dropped"} => n < MaxAttempts
        /\ p \notin {"paidDay", "findRow"}
      BY DEF GivesUp, FailsTo
  <2>4. ASSUME NEW t \in tasks'
        PROVE  \/ t.job = j /\ t.attempt = n + 1 /\ p \in {"paidDay", "syncing"}
               \/ /\ \E u \in tasks : u.job = t.job /\ u.attempt = t.attempt
                  /\ t.job = j => t.attempt # n + 1 \/ p \in {"paidDay", "syncing"}
      BY DEF GivesUp, FailsTo
  <2> QED BY <1>1, <2>1, <2>2, <2>3, <2>4, MoveShape
<1>5. \A k : SameParts(k) /\ Actual(k)' = Actual(k)
    BY <1>1, PartsStay
<1>6. \A i \in Jobs : Covers(i)' = Covers(i) /\ (i # j => Ahead(i)' = Ahead(i))
    BY <1>1, CoversStay DEF GivesUp, FailsTo, JobMoves
<1>7. \A t \in tasks : t.job # j => (Current(t)' <=> Current(t)) /\ t \in tasks'
    BY <1>3 DEF Current, Attempt, GivesUp, JobMoves
<1>8. \A t \in tasks : t.job = j => ~Current(t)'
    BY DEF Current, Running, GivesUp, FailsTo, JobMoves
<1>9. ASSUME NEW k \in Covers(j) PROVE Awaited(k)' \/ AtRest(k)'
  <2>1. CASE p = "dropped"
      BY <1>9, <2>1, ExcuseKeeps DEF GivesUp, FailsTo, Awaited
  <2>2. CASE p = "waiting"
    <3>1. k \in Ahead(j)'
        BY <1>1, <1>6, <1>9, <2>2 DEF Ahead, GivesUp, JobMoves
    <3> QED BY <1>1, <3>1 DEF Awaited
  <2> QED BY <2>1, <2>2 DEF GivesUp, FailsTo
<1>10. \A k \in excused : k \in excused' \/ AtRest(k)'
    BY ExcuseKeeps DEF GivesUp, FailsTo
<1>11. ASSUME NEW k \in Keys, Awaited(k) PROVE Awaited(k)' \/ AtRest(k)'
  <2>1. CASE k \in excused
      BY <1>10, <2>1 DEF Awaited
  <2>2. ASSUME NEW t \in tasks, WillRefresh(t, k) PROVE Awaited(k)' \/ AtRest(k)'
    <3>1. CASE t.job = j
      <4>1. k \in Covers(j) \cup excused
          BY <2>2, <3>1 DEF WillRefresh, FreshInv, TasksCovered
      <4> QED BY <1>9, <1>10, <4>1 DEF Awaited
    <3>2. CASE t.job # j
      <4>1. WillRefresh(t, k)' /\ t \in tasks'
          BY <1>5, <1>7, <2>2, <3>2 DEF WillRefresh, SameParts
      <4> QED BY <4>1 DEF Awaited
    <3> QED BY <3>1, <3>2
  <2>3. ASSUME NEW i \in Jobs, k \in Ahead(i) PROVE Awaited(k)' \/ AtRest(k)'
    <3>1. CASE i = j
        BY <1>2, <1>9, <2>3, <3>1
    <3>2. CASE i # j
        BY <1>6, <2>3, <3>2 DEF Awaited
    <3> QED BY <3>1, <3>2
  <2> QED BY <1>11, <2>1, <2>2, <2>3 DEF Awaited
<1>12. \A k \in Keys : figures'[k] # Actual(k)' => Awaited(k)'
    BY <1>5, <1>11 DEF FreshInv, GivesUp, AtRest
<1>13. ASSUME NEW t \in tasks', Stale(t)' PROVE t.overtaken \/ Awaited(t.key)'
  <2>1. t \in tasks /\ Stale(t)
      BY <1>5, <1>13 DEF Stale, SameParts, GivesUp
  <2>2. ~AtRest(t.key)'
      BY DEF AtRest
  <2> QED BY <1>3, <1>11, <2>1, <2>2 DEF FreshInv, StaleTasksAwaited
<1>14. ASSUME NEW t \in tasks', Current(t)' PROVE t.key \in Covers(t.job)' \cup excused'
  <2>1. t \in tasks /\ t.job # j /\ Current(t)
      BY <1>7, <1>8, <1>14 DEF GivesUp, FailsTo
  <2>2. t.key \in Covers(t.job) \cup excused
      BY <2>1 DEF FreshInv, TasksCovered
  <2>3. ~AtRest(t.key)'
      BY DEF AtRest
  <2> QED BY <1>3, <1>6, <1>10, <2>1, <2>2, <2>3
<1>15. StaleTasksAwaited'
    BY <1>13 DEF StaleTasksAwaited
<1>16. TasksCovered'
    BY <1>14 DEF TasksCovered
<1> QED BY <1>4, <1>12, <1>15, <1>16 DEF FreshInv
----------------------------------------------------------------------------
(* The steps of a task.                                                    *)

\* One aggregate: the task has what is so now in hand.
LEMMA ReadPartInv ==
    ASSUME StatisticsShape, FreshInv, NEW t \in tasks, ReadPart(t)
    PROVE  StatisticsShape' /\ FreshInv'
<1> USE DEF StatisticsShape
<1>1. UNCHANGED <<rowVars, figures, job, excused>> /\ UNCHANGED rowVars
    BY DEF ReadPart
<1>2. PICK u : /\ tasks' = (tasks \ {t}) \cup {u}
              /\ \/ u = [t EXCEPT !.read.bookings = BookingsPart(t.key)]
                 \/ u = [t EXCEPT !.read.extra = ExtraPart(t.key)]
    BY DEF ReadPart
<1>3. t \in TaskRecord /\ t.job \in Jobs /\ t.key \in Keys
    BY DEF TypeOK, TaskRecord
<1>4. /\ u.job = t.job /\ u.attempt = t.attempt /\ u.key = t.key /\ u.overtaken = t.overtaken
      /\ u.read.bookings \in {t.read.bookings, BookingsPart(t.key)}
      /\ u.read.extra \in {t.read.extra, ExtraPart(t.key)}
    BY <1>2, <1>3 DEF TaskRecord
<1>5. u \in TaskRecord
    BY <1>2, <1>3, PartTypes DEF TaskRecord
<1>6. \A k : SameParts(k) /\ Actual(k)' = Actual(k)
    BY <1>1, PartsStay
<1>7. \A i \in Jobs : Covers(i)' = Covers(i) /\ Ahead(i)' = Ahead(i)
    BY <1>1, CoversStay
<1>8. \A x : Current(x)' <=> Current(x)
    BY <1>1 DEF Current, Attempt
<1>9. Stale(u) => Stale(t)
    BY <1>4 DEF Stale
<1>10. \A k : WillRefresh(t, k) => WillRefresh(u, k)
    BY <1>4 DEF WillRefresh, Current
<1>11. StatisticsShape'
  <2>1. \A x \in tasks' : x.attempt <= Attempt(x.job)' /\ TaskOK(x)'
      BY <1>1, <1>2, <1>4 DEF TypeOK, TaskOK, Attempt
  <2>2. TypeOK'
      BY <1>1, <1>2, <1>5, <2>1 DEF TypeOK, rowVars
  <2>3. ReviewsOK'
      BY <1>1 DEF ReviewsOK, rowVars
  <2>4. \A i \in Jobs : JobOK(i)'
      BY <1>1 DEF JobOK, OfReview, rowVars
  <2> QED BY <2>1, <2>2, <2>3, <2>4
<1>12. ASSUME NEW k \in Keys, Awaited(k) PROVE Awaited(k)'
  <2>1. CASE k \in excused
      BY <1>1, <2>1 DEF Awaited
  <2>2. ASSUME NEW x \in tasks, WillRefresh(x, k) PROVE Awaited(k)'
    <3>1. PICK y \in tasks' : WillRefresh(y, k)
        BY <1>2, <1>10, <2>2
    <3>2. WillRefresh(y, k)'
        BY <1>6, <1>8, <3>1 DEF WillRefresh, SameParts
    <3> QED BY <3>2 DEF Awaited
  <2>3. ASSUME NEW i \in Jobs, k \in Ahead(i) PROVE Awaited(k)'
      BY <1>7, <2>3 DEF Awaited
  <2> QED BY <1>12, <2>1, <2>2, <2>3 DEF Awaited
<1>13. \A k \in Keys : figures'[k] # Actual(k)' => Awaited(k)'
    BY <1>1, <1>6, <1>12 DEF FreshInv
<1>14. ASSUME NEW x \in tasks', Stale(x)' PROVE x.overtaken \/ Awaited(x.key)'
  <2>1. Stale(x)
      BY <1>6, <1>14 DEF Stale, SameParts
  <2>2. CASE x = u
      BY <1>3, <1>4, <1>9, <1>12, <2>1, <2>2 DEF FreshInv, StaleTasksAwaited
  <2>3. CASE x # u
      BY <1>2, <1>12, <2>1, <2>3 DEF FreshInv, StaleTasksAwaited, TypeOK, TaskRecord
  <2> QED BY <2>2, <2>3
<1>15. ASSUME NEW x \in tasks', Current(x)' PROVE x.key \in Covers(x.job)' \cup excused'
  <2>1. PICK y \in tasks : y.job = x.job /\ y.key = x.key /\ y.attempt = x.attempt
      BY <1>2, <1>4
  <2>2. Current(y) /\ y.job \in Jobs
      BY <1>8, <1>15, <2>1 DEF Current, TypeOK, TaskRecord
  <2> QED BY <1>1, <1>7, <2>1, <2>2 DEF FreshInv, TasksCovered
<1>16. StaleTasksAwaited'
    BY <1>14 DEF StaleTasksAwaited
<1>17. TasksCovered'
    BY <1>15 DEF TasksCovered
<1> QED BY <1>11, <1>13, <1>16, <1>17 DEF FreshInv

\* What the upsert of t does to the tasks it meets.
LEMMA OvertakeEffect ==
    ASSUME StatisticsShape, NEW t \in tasks
    PROVE  /\ \A x \in Overtake(t) : /\ x \in TaskRecord
                 /\ \E u \in tasks \ {t} :
                       /\ x.job = u.job /\ x.attempt = u.attempt /\ x.key = u.key
                       /\ x.read = u.read
                       /\ ~x.overtaken => ~u.overtaken /\ (u.key # t.key \/ Untouched(u))
           /\ \A u \in tasks \ {t} : \E x \in Overtake(t) :
                 x.job = u.job /\ x.attempt = u.attempt /\ x.key = u.key /\ x.read = u.read
<1> DEFINE next(u) == IF u.key = t.key /\ ~Untouched(u) THEN [u EXCEPT !.overtaken = TRUE] ELSE u
<1>1. Overtake(t) = {next(u) : u \in tasks \ {t}}
    BY DEF Overtake
<1>2. ASSUME NEW u \in tasks \ {t}
      PROVE  /\ next(u) \in TaskRecord
             /\ next(u).job = u.job /\ next(u).attempt = u.attempt /\ next(u).key = u.key
             /\ next(u).read = u.read
             /\ ~next(u).overtaken => ~u.overtaken /\ (u.key # t.key \/ Untouched(u))
  <2>1. u \in TaskRecord
      BY DEF StatisticsShape, TypeOK
  <2>2. CASE u.key = t.key /\ ~Untouched(u)
      BY <2>1, <2>2 DEF TaskRecord
  <2>3. CASE ~(u.key = t.key /\ ~Untouched(u))
      BY <2>1, <2>3
  <2> QED BY <2>2, <2>3
<1> HIDE DEF next
<1> QED BY <1>1, <1>2

\* The job of t goes on when t is its attempt's last task.
LEMMA AdvanceEffect ==
    ASSUME StatisticsShape, NEW t \in tasks, Advance(t)
    PROVE  \/ job' = job
           \/ \E p : /\ JobMoves(t.job, p, job[t.job].attempts)
                    /\ IsLast(t) /\ t.attempt = Attempt(t.job)
                    /\ \/ job[t.job].phase = "paidDay" /\ p = "findRow"
                       \/ job[t.job].phase = "syncing" /\ p = "done"
<1>1. t.job \in Jobs
    BY DEF StatisticsShape, TypeOK, TaskRecord
<1>2. CASE Current(t) /\ IsLast(t)
  <2>1. job[t.job] # NoJob /\ t.attempt = Attempt(t.job)
      BY <1>2 DEF Current, NoJob, Running
  <2>2. job[t.job].phase \in {"paidDay", "syncing"}
      BY <2>1 DEF StatisticsShape, TaskOK
  <2> DEFINE p == IF job[t.job].phase = "paidDay" THEN "findRow" ELSE "done"
  <2>3. Phase(t.job, p) /\ p \in Phases
      BY <1>2 DEF Advance, Phases
  <2>4. JobMoves(t.job, p, job[t.job].attempts)
      BY <1>1, <2>1, <2>3, PhaseMoves
  <2> QED BY <1>2, <2>1, <2>2, <2>4
<1>3. CASE ~(Current(t) /\ IsLast(t))
    BY <1>3 DEF Advance
<1> QED BY <1>2, <1>3

LEMMA UntouchedIsFresh ==
    ASSUME NEW u, Untouched(u)
    PROVE  ~Stale(u)
<1>1. u.key.table = "station" => ExtraPart(u.key) = {}
    BY DEF ExtraPart
<1> QED BY <1>1 DEF Untouched, TaskFor, Stale

LEMMA UpsertInv ==
    ASSUME StatisticsShape, FreshInv, NEW t \in tasks, Upsert(t)
    PROVE  StatisticsShape' /\ FreshInv'
<1> DEFINE E == IF t.overtaken THEN {t.key} ELSE {}
           j == t.job
<1>1. /\ t \in TaskRecord /\ j \in Jobs /\ t.key \in Keys
      /\ t.attempt \in Nat /\ t.attempt <= Attempt(j)
    BY DEF StatisticsShape, TypeOK, TaskRecord
<1>2. /\ HasRead(t) /\ figures' = [figures EXCEPT ![t.key] = t.read]
      /\ tasks' = Overtake(t) /\ Advance(t) /\ UNCHANGED rowVars /\ Excuse(E)
    BY DEF Upsert
<1>3. t.read \in [bookings : BookingSets, extra : ExtraSets]
    BY <1>1, <1>2 DEF HasRead, TaskRecord
<1>4. /\ \A x \in tasks' : /\ x \in TaskRecord
            /\ \E u \in tasks \ {t} :
                  /\ x.job = u.job /\ x.attempt = u.attempt /\ x.key = u.key /\ x.read = u.read
                  /\ ~x.overtaken => ~u.overtaken /\ (u.key # t.key \/ Untouched(u))
      /\ \A u \in tasks \ {t} : \E x \in tasks' :
            x.job = u.job /\ x.attempt = u.attempt /\ x.key = u.key /\ x.read = u.read
    BY <1>2, OvertakeEffect
<1>5. \/ job' = job
      \/ \E p : /\ JobMoves(j, p, job[j].attempts)
               /\ IsLast(t) /\ t.attempt = Attempt(j)
               /\ \/ job[j].phase = "paidDay" /\ p = "findRow"
                  \/ job[j].phase = "syncing" /\ p = "done"
    BY <1>2, AdvanceEffect
<1>6. \A u \in tasks : u.job \in Jobs /\ u.key \in Keys
    BY DEF StatisticsShape, TypeOK, TaskRecord
<1> HIDE DEF E
<1>7. StatisticsShape'
  <2>1. E \subseteq Keys
      BY <1>1 DEF E
  <2>2. excused' \subseteq Keys
      BY <1>2, <2>1, ExcuseTypes DEF StatisticsShape
  <2>3. figures' \in [Keys -> [bookings : BookingSets, extra : ExtraSets]]
      BY <1>1, <1>2, <1>3 DEF StatisticsShape, TypeOK
  <2>4. tasks' \subseteq TaskRecord
      BY <1>4
  <2>5. CASE job' = job
    <3>1. \A x \in tasks' : x.attempt <= Attempt(x.job)' /\ TaskOK(x)'
        BY <1>4, <2>5 DEF StatisticsShape, TypeOK, TaskOK, Attempt
    <3>2. TypeOK'
        BY <1>2, <2>2, <2>3, <2>4, <2>5, <3>1 DEF StatisticsShape, TypeOK, rowVars
    <3>3. ReviewsOK' /\ \A i \in Jobs : JobOK(i)'
        BY <1>2, <2>5 DEF StatisticsShape, ReviewsOK, JobOK, OfReview, rowVars
    <3> QED BY <3>1, <3>2, <3>3 DEF StatisticsShape
  <2>6. ASSUME NEW p, JobMoves(j, p, job[j].attempts), IsLast(t), t.attempt = Attempt(j),
               \/ job[j].phase = "paidDay" /\ p = "findRow"
               \/ job[j].phase = "syncing" /\ p = "done"
        PROVE  StatisticsShape'
    <3>1. PICK n : n = job[j].attempts
        OBVIOUS
    <3>2. job[j] \in JobRecord /\ job[j] # NoJob
        BY <2>6, UnusedJob DEF StatisticsShape, JobMoves
    <3>3. n \in Nat /\ n >= job[j].attempts /\ n < MaxAttempts
        BY <3>1, <3>2, <1>1, <2>6, BoundsAssumption, UnusedJob
           DEF StatisticsShape, JobOK, JobRecord
    <3>4. JobMoves(j, p, n) /\ p \in Phases /\ (p \in {"paidDay", "findRow"} => job[j].kind = "PAYMENT")
        BY <3>1, <3>2, <1>1, <2>6, UnusedJob DEF JobMoves, Phases, StatisticsShape, JobOK
    <3>5. ASSUME NEW x \in tasks'
          PROVE  \/ x.job = j /\ x.attempt = n + 1 /\ p \in {"paidDay", "syncing"}
                 \/ /\ \E u \in tasks : u.job = x.job /\ u.attempt = x.attempt
                    /\ x.job = j => x.attempt # n + 1 \/ p \in {"paidDay", "syncing"}
      <4>1. PICK u \in tasks \ {t} : u.job = x.job /\ u.attempt = x.attempt
          BY <1>4
      <4>2. u.job = j => u.attempt # Attempt(j)
          BY <4>1, <2>6 DEF IsLast
      <4> QED BY <4>1, <4>2, <3>1 DEF Attempt
    <3> QED BY <1>2, <2>2, <2>3, <2>4, <3>3, <3>4, <3>5, MoveShape
  <2> QED BY <1>5, <2>5, <2>6
<1>8. \A k : SameParts(k) /\ Actual(k)' = Actual(k)
    BY <1>2, PartsStay
<1>9. \A i \in Jobs : Covers(i)' = Covers(i) /\ Ahead(i) \subseteq Ahead(i)'
  <2> SUFFICES ASSUME NEW i \in Jobs PROVE Covers(i)' = Covers(i) /\ Ahead(i) \subseteq Ahead(i)'
      OBVIOUS
  <2>1. job'[i].kind = job[i].kind /\ job'[i].of = job[i].of
      BY <1>5 DEF JobMoves
  <2>2. CASE job'[i].phase = job[i].phase
      BY <1>2, <2>1, <2>2, CoversStay
  <2>3. CASE job'[i].phase # job[i].phase
    <3>1. \/ job[i].phase = "paidDay" /\ job'[i].phase = "findRow"
          \/ job[i].phase = "syncing"
        BY <1>5, <2>3 DEF JobMoves
    <3> QED BY <1>2, <2>1, <3>1, CoversStay DEF Ahead
  <2> QED BY <2>2, <2>3
<1>10. \A u \in tasks \ {t} : Current(u)' <=> Current(u)
  <2>1. CASE job' = job
      BY <2>1 DEF Current, Attempt
  <2>2. ASSUME NEW p, JobMoves(j, p, job[j].attempts), IsLast(t), t.attempt = Attempt(j)
        PROVE  \A u \in tasks \ {t} : Current(u)' <=> Current(u)
    <3> SUFFICES ASSUME NEW u \in tasks \ {t} PROVE Current(u)' <=> Current(u)
        OBVIOUS
    <3>1. CASE u.job = j
        BY <2>2, <3>1 DEF Current, Attempt, IsLast, JobMoves
    <3>2. CASE u.job # j
        BY <1>6, <2>2, <3>2 DEF Current, Attempt, JobMoves
    <3> QED BY <3>1, <3>2
  <2> QED BY <1>5, <2>1, <2>2
<1>11. \A k \in excused \cup E : k \in excused' \/ AtRest(k)'
    BY <1>2, ExcuseKeeps
<1>12. ASSUME NEW k \in Keys, Awaited(k), ~WillRefresh(t, k)
       PROVE  Awaited(k)' \/ AtRest(k)'
  <2>1. CASE k \in excused
      BY <1>11, <2>1 DEF Awaited
  <2>2. ASSUME NEW u \in tasks, WillRefresh(u, k) PROVE Awaited(k)'
    <3>1. u \in tasks \ {t}
        BY <1>12, <2>2
    <3>2. PICK x \in tasks' :
              x.job = u.job /\ x.attempt = u.attempt /\ x.key = u.key /\ x.read = u.read
        BY <1>4, <3>1
    <3>3. Current(x)'
        BY <1>10, <2>2, <3>1, <3>2 DEF WillRefresh, Current, Attempt
    <3>4. WillRefresh(x, k)'
        BY <1>8, <2>2, <3>2, <3>3 DEF WillRefresh, SameParts
    <3> QED BY <3>4 DEF Awaited
  <2>3. ASSUME NEW i \in Jobs, k \in Ahead(i) PROVE Awaited(k)'
      BY <1>9, <2>3 DEF Awaited
  <2> QED BY <1>12, <2>1, <2>2, <2>3 DEF Awaited
<1>13. ASSUME NEW k \in Keys, figures'[k] # Actual(k)' PROVE Awaited(k)'
  <2>0. ~AtRest(k)'
      BY <1>13 DEF AtRest
  <2>1. CASE k # t.key
    <3>1. figures[k] # Actual(k) /\ ~WillRefresh(t, k)
        BY <1>2, <1>8, <1>13, <2>1 DEF WillRefresh, StatisticsShape, TypeOK
    <3> QED BY <1>12, <2>0, <3>1 DEF FreshInv
  <2>2. CASE k = t.key
    <3>1. figures'[k] = t.read
        BY <1>1, <1>2, <2>2 DEF StatisticsShape, TypeOK
    <3>2. Stale(t)
      <4> SUFFICES ASSUME ~Stale(t) PROVE FALSE
          OBVIOUS
      <4>1. t.read.bookings = BookingsPart(k) /\ t.read.extra = ExtraPart(k)
          BY <1>2, <2>2 DEF Stale, HasRead
      <4>2. t.read = Actual(k)
          BY <1>3, <4>1 DEF Actual
      <4> QED BY <1>8, <1>13, <3>1, <4>2
    <3>3. ~WillRefresh(t, k)
        BY <2>2, <3>2 DEF WillRefresh, Stale
    <3>4. CASE t.overtaken
        BY <1>11, <2>0, <2>2, <3>4 DEF E, Awaited
    <3>5. CASE ~t.overtaken
        BY <1>12, <2>0, <2>2, <3>2, <3>3, <3>5 DEF FreshInv, StaleTasksAwaited
    <3> QED BY <3>4, <3>5
  <2> QED BY <2>1, <2>2
<1>14. ASSUME NEW x \in tasks', Stale(x)', ~x.overtaken PROVE Awaited(x.key)'
  <2>1. PICK u \in tasks \ {t} :
            /\ x.job = u.job /\ x.attempt = u.attempt /\ x.key = u.key /\ x.read = u.read
            /\ ~u.overtaken /\ (u.key # t.key \/ Untouched(u))
      BY <1>4, <1>14
  <2>2. Stale(u)
      BY <1>8, <1>14, <2>1 DEF Stale, SameParts
  <2>3. u.key # t.key /\ ~WillRefresh(t, u.key)
      BY <2>1, <2>2, UntouchedIsFresh DEF WillRefresh
  <2>4. ~AtRest(u.key)'
      BY <2>1 DEF AtRest
  <2>5. Awaited(u.key)
      BY <2>1, <2>2 DEF FreshInv, StaleTasksAwaited
  <2>6. Awaited(u.key)'
      BY <1>6, <1>12, <2>1, <2>3, <2>4, <2>5
  <2> QED BY <2>1, <2>6
<1>15. ASSUME NEW x \in tasks', Current(x)' PROVE x.key \in Covers(x.job)' \cup excused'
  <2>1. PICK u \in tasks \ {t} : x.job = u.job /\ x.attempt = u.attempt /\ x.key = u.key
      BY <1>4
  <2>2. Current(u)
      BY <1>10, <1>15, <2>1 DEF Current, Attempt
  <2>3. u.key \in Covers(u.job) \cup excused
      BY <2>1, <2>2 DEF FreshInv, TasksCovered
  <2>4. ~AtRest(x.key)'
      BY DEF AtRest
  <2> QED BY <1>6, <1>9, <1>11, <2>1, <2>3, <2>4
<1>16. StaleTasksAwaited'
    BY <1>14 DEF StaleTasksAwaited
<1>17. TasksCovered'
    BY <1>15 DEF TasksCovered
<1> QED BY <1>7, <1>13, <1>16, <1>17 DEF FreshInv

\* A failed statement of an attempt that goes on fails its job; one of an
\* attempt that is over goes unnoticed.
LEMMA TaskFailsInv ==
    ASSUME StatisticsShape, FreshInv, NEW t \in tasks, TaskFails(t)
    PROVE  StatisticsShape' /\ FreshInv'
<1> DEFINE j == t.job
<1>1. j \in Jobs /\ \A u \in tasks : u.attempt \in Nat /\ u.attempt <= Attempt(u.job)
                                   /\ u.job \in Jobs /\ u.key \in Keys
    BY DEF StatisticsShape, TypeOK, TaskRecord
<1>2. tasks' = tasks \ {t} /\ UNCHANGED <<rowVars, figures>> /\ UNCHANGED rowVars
    BY DEF TaskFails
<1>3. CASE Current(t)
  <2>1. JobFails(j) /\ job[j].phase \in Running
      BY <1>3 DEF TaskFails, Current
  <2>2. PICK n : n = Attempt(j)
      OBVIOUS
  <2>3. job[j] # NoJob /\ \E p : JobMoves(j, p, n) /\ FailsTo(j, p, n)
      BY <1>1, <2>1, <2>2, FailureMoves
  <2>4. n >= job[j].attempts /\ \A u \in tasks : u.job = j => u.attempt # n + 1
    <3>1. job[j].attempts \in Nat
        BY <1>1, <2>3, UnusedJob DEF StatisticsShape, JobRecord
    <3> QED BY <3>1, <1>1, <2>2 DEF Attempt
  <2>5. \E p : GivesUp(j, p, n)
      BY <1>2, <2>3, <2>4 DEF GivesUp
  <2> QED BY <2>5, GivesUpInv
<1>4. CASE ~Current(t)
  <2>1. job' = job /\ excused' = excused
      BY <1>4 DEF TaskFails
  <2>2. \A k : SameParts(k) /\ Actual(k)' = Actual(k)
      BY <1>2, PartsStay
  <2>3. \A i \in Jobs : Covers(i)' = Covers(i) /\ Ahead(i)' = Ahead(i)
      BY <1>2, <2>1, CoversStay
  <2>4. \A u : Current(u)' <=> Current(u)
      BY <2>1 DEF Current, Attempt
  <2>5. StatisticsShape'
    <3>1. \A u \in tasks' : u.attempt <= Attempt(u.job)' /\ TaskOK(u)'
        BY <1>1, <1>2, <2>1 DEF StatisticsShape, TaskOK, Attempt
    <3>2. TypeOK'
        BY <1>2, <2>1, <3>1 DEF StatisticsShape, TypeOK, rowVars
    <3>3. ReviewsOK' /\ \A i \in Jobs : JobOK(i)'
        BY <1>2, <2>1 DEF StatisticsShape, ReviewsOK, JobOK, OfReview, rowVars
    <3> QED BY <3>1, <3>2, <3>3 DEF StatisticsShape
  <2>6. ASSUME NEW k \in Keys, Awaited(k) PROVE Awaited(k)'
    <3>1. CASE k \in excused
        BY <2>1, <3>1 DEF Awaited
    <3>2. ASSUME NEW u \in tasks, WillRefresh(u, k) PROVE Awaited(k)'
      <4>1. u \in tasks' /\ WillRefresh(u, k)'
          BY <1>2, <1>4, <2>2, <2>4, <3>2 DEF WillRefresh, SameParts
      <4> QED BY <4>1 DEF Awaited
    <3>3. ASSUME NEW i \in Jobs, k \in Ahead(i) PROVE Awaited(k)'
        BY <2>3, <3>3 DEF Awaited
    <3> QED BY <2>6, <3>1, <3>2, <3>3 DEF Awaited
  <2>7. \A k \in Keys : figures'[k] # Actual(k)' => Awaited(k)'
      BY <1>2, <2>2, <2>6 DEF FreshInv
  <2>8. StaleTasksAwaited'
      BY <1>1, <1>2, <2>2, <2>6 DEF FreshInv, StaleTasksAwaited, Stale, SameParts
  <2>9. TasksCovered'
      BY <1>1, <1>2, <2>1, <2>3, <2>4 DEF FreshInv, TasksCovered
  <2> QED BY <2>5, <2>7, <2>8, <2>9 DEF FreshInv
<1> QED BY <1>3, <1>4
----------------------------------------------------------------------------
(* The steps of the queue, as jobs that go on or give up.                  *)

LEMMA QueueInv ==
    ASSUME StatisticsShape, FreshInv, NEW j \in Jobs, Enqueue(j) \/ Start(j)
    PROVE  StatisticsShape' /\ FreshInv'
<1>1. job[j] # NoJob /\ UNCHANGED <<rowVars, figures, tasks, excused>>
    BY DEF Enqueue, Start, NoJob
<1>2. PICK p \in {"waiting", "find"} : Phase(j, p)
    BY DEF Enqueue, Start
<1>3. JobMoves(j, p, job[j].attempts)
    BY <1>1, <1>2, PhaseMoves DEF Phases
<1>4. job[j].phase \in {"committed", "waiting"}
    BY DEF Enqueue, Start
<1>5. Ahead(j) = Covers(j) /\ Ahead(j)' = Covers(j)
    BY <1>1, <1>2, <1>3, <1>4, CoversStay DEF Ahead, JobMoves
<1>6. GoesOn(j, p, {})
    BY <1>1, <1>2, <1>3, <1>4, <1>5 DEF GoesOn
<1> QED BY <1>6, GoesOnInv

LEMMA SyncInv ==
    ASSUME StatisticsShape, FreshInv, NEW j \in Jobs,
           SyncReservation(j) \/ SyncPayment(j) \/ SyncReview(j)
    PROVE  StatisticsShape' /\ FreshInv'
<1>1. job[j].phase \in {"find", "findRow"} /\ job[j] # NoJob /\ job[j].kind # "unused"
  <2>1. job[j].phase \in {"find", "findRow"}
      BY DEF SyncReservation, SyncPayment, SyncReview
  <2> QED BY <2>1, UnusedJob DEF StatisticsShape
<1>2. job[j].phase = "findRow" => job[j].kind = "PAYMENT"
    BY <1>1 DEF StatisticsShape, JobOK
<1>3. RowOf(j) \in Reservations /\ (~OfReview(j) => RowOf(j) = job[j].of)
    BY <1>1, RowExists
<1>4. ASSUME NEW p \in {"paidDay", "findRow", "syncing"}, NEW ks, Sync(j, ks, p),
             p \in {"paidDay", "findRow"} => job[j].kind = "PAYMENT",
             p = "findRow" => ks = {}, ks \subseteq Covers(j),
             Ahead(j) \subseteq IF p = "syncing" THEN ks ELSE ks \cup KeysOf(slot[RowOf(j)])
      PROVE  StatisticsShape' /\ FreshInv'
  <2>1. Phase(j, p) /\ tasks' = tasks \cup {TaskFor(j, k) : k \in ks}
        /\ UNCHANGED <<rowVars, figures, excused>> /\ UNCHANGED rowVars
      BY <1>4 DEF Sync
  <2>2. JobMoves(j, p, job[j].attempts)
      BY <1>1, <2>1, PhaseMoves DEF Phases
  <2>3. p # "syncing" => Ahead(j)' = KeysOf(slot[RowOf(j)])
      BY <2>1, <2>2, CoversStay DEF Ahead, JobMoves
  <2>4. GoesOn(j, p, ks)
      BY <1>1, <1>4, <2>1, <2>2, <2>3 DEF GoesOn
  <2> QED BY <2>4, GoesOnInv
<1>5. CASE SyncReservation(j)
  <2>1. Sync(j, KeysOf(slot[RowOf(j)]), "syncing")
      BY <1>2, <1>3, <1>5 DEF SyncReservation, OfReview
  <2>2. ~OfReview(j)
      BY <1>2, <1>5 DEF SyncReservation, OfReview
  <2>3. KeysOf(slot[RowOf(j)]) \subseteq Covers(j)
      BY <1>1, <2>2, CoversTypes
  <2>4. Ahead(j) \subseteq KeysOf(slot[RowOf(j)])
    <3>1. CASE job[j].phase = "find" /\ job[j].kind \in {"RESERVATION", "directReservation"}
        BY <3>1, <2>2, CoversCases DEF Ahead
    <3>2. CASE job[j].phase = "findRow"
        BY <3>2 DEF Ahead
    <3> QED BY <3>1, <3>2, <1>5 DEF SyncReservation
  <2> QED BY <1>4, <2>1, <2>3, <2>4
<1>6. CASE SyncPayment(j)
  <2>1. job[j].kind = "PAYMENT" /\ job[j].phase = "find" /\ ~OfReview(j)
      BY <1>6 DEF SyncPayment, OfReview
  <2>2. Ahead(j) = Covers(j) /\ Covers(j) = KeysOf(slot[RowOf(j)]) \cup PaidKeys(j)
      BY <2>1, CoversCases DEF Ahead
  <2> DEFINE d == paidOn[RowOf(j)]
  <2>3. CASE d # None
    <3>1. Sync(j, {CenterOn(d)}, "paidDay") /\ PaidKeys(j) = {CenterOn(d)}
        BY <1>3, <1>6, <2>1, <2>3 DEF SyncPayment, PaidKeys
    <3> QED BY <1>4, <2>1, <2>2, <3>1
  <2>4. CASE d = None
    <3>1. Sync(j, {}, "findRow") /\ PaidKeys(j) = {}
        BY <1>3, <1>6, <2>1, <2>4 DEF SyncPayment, PaidKeys
    <3> QED BY <1>4, <2>1, <2>2, <3>1
  <2> QED BY <2>3, <2>4
<1>7. CASE SyncReview(j)
  <2>1. Sync(j, {StaffOf(slot[RowOf(j)])}, "syncing") /\ OfReview(j) /\ job[j].phase = "find"
      BY <1>7 DEF SyncReview
  <2>2. Ahead(j) = Covers(j) /\ Covers(j) = {StaffOf(slot[RowOf(j)])}
      BY <2>1, CoversCases DEF Ahead
  <2> QED BY <1>4, <2>1, <2>2
<1> QED BY <1>5, <1>6, <1>7

LEMMA LossInv ==
    ASSUME StatisticsShape, FreshInv, NEW j \in Jobs, Lost(j) \/ FindFails(j)
    PROVE  StatisticsShape' /\ FreshInv'
<1>1. UNCHANGED <<rowVars, figures>> /\ tasks' = tasks
    BY DEF Lost, FindFails
<1>2. job[j].phase \in {"committed", "find", "findRow"} /\ job[j] # NoJob
    BY DEF Lost, FindFails, NoJob
<1>3. job[j].attempts \in Nat
    BY <1>2, UnusedJob DEF StatisticsShape, JobRecord
<1>4. \A t \in tasks : t.job = j => t.attempt \in Nat /\ t.attempt < Attempt(j)
  <2> SUFFICES ASSUME NEW t \in tasks, t.job = j PROVE t.attempt \in Nat /\ t.attempt < Attempt(j)
      OBVIOUS
  <2>1. t.attempt \in Nat /\ t.attempt <= Attempt(j) /\ TaskOK(t)
      BY DEF StatisticsShape, TypeOK, TaskRecord
  <2>2. t.attempt # Attempt(j)
      BY <1>2, <2>1 DEF TaskOK
  <2> QED BY <1>3, <2>1, <2>2 DEF Attempt
<1>5. CASE Lost(j)
  <2>1. PICK n : n = job[j].attempts
      OBVIOUS
  <2>2. JobMoves(j, "dropped", n) /\ Excuse(Covers(j))
    <3>1. JobMoves(j, "dropped", job[j].attempts)
        BY <1>2, <1>5, PhaseMoves DEF Lost, Phases
    <3> QED BY <1>5, <2>1, <3>1 DEF Lost, JobMoves
  <2>3. \A t \in tasks : t.job = j => t.attempt # n + 1
      BY <1>3, <1>4, <2>1 DEF Attempt
  <2>4. GivesUp(j, "dropped", n)
      BY <1>1, <1>3, <2>1, <2>2, <2>3 DEF GivesUp, FailsTo
  <2> QED BY <2>4, GivesUpInv
<1>6. CASE FindFails(j)
  <2>1. PICK n : n = Attempt(j)
      OBVIOUS
  <2>2. JobFails(j) /\ job[j].phase \in Running
      BY <1>6 DEF FindFails, Running
  <2>3. \E p : JobMoves(j, p, n) /\ FailsTo(j, p, n)
      BY <2>1, <2>2, FailureMoves
  <2>4. n >= job[j].attempts /\ \A t \in tasks : t.job = j => t.attempt # n + 1
      BY <1>3, <1>4, <2>1 DEF Attempt
  <2>5. \E p : GivesUp(j, p, n)
      BY <1>1, <2>3, <2>4 DEF GivesUp
  <2> QED BY <2>5, GivesUpInv
<1> QED BY <1>5, <1>6

LEMMA ChangeInv ==
    ASSUME StatisticsShape, FreshInv, NEW j \in Jobs, Change(j)
    PROVE  StatisticsShape' /\ FreshInv'
<1>1. ASSUME NEW r, NEW kind, NEW E, ReservationChange(r, j, kind, E)
      PROVE  StatisticsShape' /\ FreshInv'
    BY <1>1, ReservationChangeShape, ReservationChangeEffect, ChangeIsFresh
<1>2. ASSUME NEW v, NEW kind, ReviewChange(v, j, kind)
      PROVE  StatisticsShape' /\ FreshInv'
    BY <1>2, ReviewChangeShape, ReviewChangeEffect, ChangeIsFresh
<1> QED BY <1>1, <1>2, ChangeKinds
----------------------------------------------------------------------------
(* The theorems.                                                           *)

LEMMA StatisticsInitially == Init => StatisticsShape /\ FreshInv
<1> SUFFICES ASSUME Init PROVE StatisticsShape /\ FreshInv
    OBVIOUS
<1> USE DEF Init
<1>1. /\ status \in [Reservations -> ReservationStatus \cup {None}]
      /\ slot \in [Reservations -> Slots]
      /\ paidOn \in [Reservations -> Days \cup {None}]
  <2>1. PICK o \in [Reservations -> Openings] :
            /\ status = [r \in Reservations |-> o[r].status]
            /\ slot = [r \in Reservations |-> o[r].slot]
            /\ paidOn = [r \in Reservations |-> o[r].paidOn]
      OBVIOUS
  <2>2. \A x \in Openings : /\ x.status \in ReservationStatus \cup {None}
                           /\ x.slot \in Slots /\ x.paidOn \in Days \cup {None}
      BY OpeningsAssumption DEF ReservationStatus, Days
  <2> QED BY <2>1, <2>2
<1>2. figures \in [Keys -> [bookings : BookingSets, extra : ExtraSets]]
    BY PartTypes
<1>3. \A j \in Jobs : job[j] = NoJob
    OBVIOUS
<1>4. TypeOK
    BY <1>1, <1>2 DEF TypeOK
<1>5. ReviewsOK /\ \A j \in Jobs : JobOK(j)
    BY <1>3 DEF ReviewsOK, JobOK, NoJob
<1>6. FreshInv
    BY DEF FreshInv, StaleTasksAwaited, TasksCovered
<1> QED BY <1>4, <1>5, <1>6 DEF StatisticsShape

LEMMA StatisticsStep ==
    StatisticsShape /\ FreshInv /\ [Next]_vars => StatisticsShape' /\ FreshInv'
<1> SUFFICES ASSUME StatisticsShape, FreshInv, [Next]_vars PROVE StatisticsShape' /\ FreshInv'
    OBVIOUS
<1>1. ASSUME NEW j \in Jobs, Change(j) \/ Lost(j) \/ FindFails(j) \/ Works(j)
      PROVE  StatisticsShape' /\ FreshInv'
    BY <1>1, ChangeInv, LossInv, QueueInv, SyncInv DEF Works
<1>2. ASSUME NEW t \in tasks, ReadPart(t) \/ Upsert(t) \/ TaskFails(t)
      PROVE  StatisticsShape' /\ FreshInv'
    BY <1>2, ReadPartInv, UpsertInv, TaskFailsInv
<1>3. CASE UNCHANGED vars
  <2> USE <1>3 DEF vars, rowVars
  <2>1. StatisticsShape'
      BY DEF StatisticsShape, TypeOK, ReviewsOK, JobOK, OfReview, TaskOK, Attempt
  <2>2. \A k : SameParts(k) /\ Actual(k)' = Actual(k)
      BY PartsStay
  <2>3. \A i : Covers(i)' = Covers(i) /\ Ahead(i)' = Ahead(i)
      BY CoversStay
  <2>4. \A t : Current(t)' <=> Current(t)
      BY DEF Current, Attempt
  <2>5. \A k : Awaited(k)' <=> Awaited(k)
      BY <2>2, <2>3, <2>4 DEF Awaited, WillRefresh, SameParts
  <2>6. \A t : Stale(t)' <=> Stale(t)
      BY <2>2 DEF Stale, SameParts
  <2>7. StaleTasksAwaited'
      BY <2>5, <2>6 DEF FreshInv, StaleTasksAwaited
  <2>8. TasksCovered'
      BY <2>3, <2>4 DEF FreshInv, TasksCovered
  <2> QED BY <2>1, <2>2, <2>5, <2>7, <2>8 DEF FreshInv
<1> QED BY <1>1, <1>2, <1>3 DEF Next

THEOREM StatisticsHold == Spec => [](StatisticsShape /\ FreshInv)
    BY StatisticsInitially, StatisticsStep, PTL DEF Spec

\* Types of analytics rows, queued jobs and running tasks: the attempts of a
\* job stay within its limit, and a task is of an attempt that was made
\* (analytics.worker.ts, analytics.repo.ts:252-293).
THEOREM TypeCorrect == Spec => []TypeOK
<1>1. StatisticsShape /\ FreshInv => TypeOK
    BY DEF StatisticsShape
<1> QED BY <1>1, StatisticsHold, PTL

\* A figure of the analytics tables that does not agree with the rows is
\* about to be recomputed from them, or one of the known reasons applies, for
\* any numbers of rows, jobs, workers and attempts (analytics.repo.ts:106-293).
THEOREM StaleFiguresExplained == Spec => []StaleIsExplained
<1>1. ASSUME StatisticsShape, FreshInv PROVE StaleIsExplained
  <2>1. ASSUME NEW j \in Jobs, NEW k \in Ahead(j)
        PROVE  /\ job[j].phase \in {"committed", "waiting", "find", "paidDay", "findRow"}
               /\ k \in Covers(j)
    <3>1. job[j].phase \in {"committed", "waiting", "find", "paidDay", "findRow"}
        BY DEF Ahead
    <3>2. job[j].kind # "unused"
        BY <1>1, <3>1, UnusedJob DEF StatisticsShape
    <3> QED BY <1>1, <3>1, <3>2, CoversTypes
  <2> QED BY <1>1, <2>1 DEF FreshInv, Awaited, StaleIsExplained
<1>2. StatisticsShape /\ FreshInv => StaleIsExplained
    BY <1>1
<1> QED BY <1>2, StatisticsHold, PTL
----------------------------------------------------------------------------
(* The reports.                                                            *)

LEMMA SumOfIsSum ==
    ASSUME NEW f, NEW size, NEW ks, IsFiniteSet(ks), \A k \in ks : f[k] = size[k]
    PROVE  SumOf(size, ks) = Sum(f, ks)
<1> DEFINE Adds(g) == g = [s \in SUBSET ks |-> IF s = {} THEN 0
                             ELSE LET x == CHOOSE x \in s : TRUE IN size[x] + g[s \ {x}]]
           h == CHOOSE g : Adds(g)
<1>1. PICK g : IsSum(g, f, ks)
    BY SumExists
<1>2. ASSUME NEW n PROVE IsSum(n, f, ks) <=> Adds(n)
  <2>1. \A s \in SUBSET ks : s # {} =>
           f[CHOOSE x \in s : TRUE] = size[CHOOSE x \in s : TRUE]
      OBVIOUS
  <2> QED BY <2>1 DEF IsSum
<1>3. SumOf(size, ks) = h[ks]
    BY DEF SumOf, MapThenSumSet, MapThenFoldSet
<1> HIDE DEF Adds
<1>4. Adds(h)
    BY <1>1, <1>2
<1> HIDE DEF h
<1>5. IsSum(h, f, ks)
    BY <1>2, <1>4
<1> QED BY <1>3, <1>5, SumIs

\* Sizes of parts that have nothing in common add up to the size of the whole.
LEMMA PartsAddUp ==
    ASSUME NEW ks, IsFiniteSet(ks), NEW size, NEW part, NEW whole, IsFiniteSet(whole),
           \A k \in ks : part[k] \subseteq whole /\ size[k] = Cardinality(part[k]),
           \A k, l \in ks : k # l => part[k] \cap part[l] = {},
           \A x \in whole : \E k \in ks : x \in part[k]
    PROVE  SumOf(size, ks) = Cardinality(whole)
<1>1. \A k \in ks : IsFiniteSet(part[k])
    BY FS_Subset
<1>2. UNION {part[k] : k \in ks} = whole
    OBVIOUS
<1>3. Cardinality(UNION {part[k] : k \in ks}) = Sum(size, ks)
    BY <1>1, SumOfDisjoint
<1>4. SumOf(size, ks) = Sum(size, ks)
    BY SumOfIsSum
<1> QED BY <1>2, <1>3, <1>4

\* There are finitely many figures.
LEMMA KeysFinite == IsFiniteSet(Keys)
<1> DEFINE f == [s \in Slots |-> KeysOf(s)]
           T == {KeysOf(s) : s \in Slots}
<1>1. f \in Surjection(Slots, T)
    BY DEF Surjection
<1> HIDE DEF f
<1>2. IsFiniteSet(T)
    BY <1>1, FiniteAssumption, FS_Surjection
<1>3. ASSUME NEW s \in Slots PROVE IsFiniteSet(KeysOf(s))
  <2>1. PICK a, b, c : a = CenterOn(s.day) /\ b = StaffOf(s) /\ c = StationOf(s)
      OBVIOUS
  <2>2. IsFiniteSet({a}) /\ IsFiniteSet({a} \cup {b})
      BY FS_Singleton, FS_AddElement
  <2>3. IsFiniteSet(({a} \cup {b}) \cup {c})
      BY <2>2, FS_AddElement
  <2>4. KeysOf(s) \in SUBSET (({a} \cup {b}) \cup {c})
      BY <2>1 DEF KeysOf
  <2> QED BY <2>3, <2>4, FS_Subset
<1>4. \A K \in T : IsFiniteSet(K)
    BY <1>3
<1>5. Keys = UNION T
    BY DEF Keys
<1> HIDE DEF T
<1> QED BY <1>2, <1>4, <1>5, FS_UNION

\* Where nothing is left to do, the figures are those of the rows.
LEMMA QuietFigures ==
    ASSUME TypeOK, StaleIsExplained, Quiet
    PROVE  \A k \in Keys : figures[k] = Actual(k)
BY DEF StaleIsExplained, Quiet

\* The rows of a period, taken day by day.
LEMMA DayByDay ==
    ASSUME TypeOK, NEW r \in Rows
    PROVE  /\ slot[r] \in Slots /\ slot[r].day \in Days /\ slot[r].day \in Nat
           /\ CenterOn(slot[r].day) \in Keys /\ StaffOf(slot[r]) \in Keys
           /\ "station" \in Tables => StationOf(slot[r]) \in Keys
<1>1. slot[r] \in Slots
    BY DEF TypeOK, Rows
<1>2. "station" \in Tables => StationOf(slot[r]) \in KeysOf(slot[r])
    BY DEF KeysOf, StationOf
<1> QED BY <1>1, <1>2, SlotKeys, FiniteAssumption DEF Days

LEMMA SummaryIsRight ==
    ASSUME TypeOK, PaymentsHaveRows, \A k \in Keys : figures[k] = Actual(k),
           NEW from \in Days, NEW to \in Days
    PROVE  GetSummary(from, to) =
             [total |-> Cardinality(Between(from, to)),
              completed |-> Cardinality(Done(Between(from, to))),
              canceled |-> Cardinality({r \in Between(from, to) : status[r] = "CANCELED"}),
              cash |-> Cardinality({r \in Rows : paidOn[r] # None /\ paidOn[r] \in from..to})]
<1> DEFINE ks == FiguresOf("center", None, from, to)
<1>1. /\ IsFiniteSet(ks) /\ ks \subseteq Keys
      /\ \A k \in ks : k = CenterOn(k.day) /\ k.table = "center" /\ k.day \in from..to
  <2>1. ks \subseteq Keys
      BY DEF FiguresOf
  <2>2. IsFiniteSet(ks)
      BY <2>1, KeysFinite, FS_Subset
  <2> QED BY <2>1, <2>2, KeyShape DEF FiguresOf
<1>2. \A k, l \in ks : k # l => k.day # l.day
    BY <1>1
<1>3. \A d \in Days : d \in from..to => CenterOn(d) \in ks
    BY DayKeys DEF FiguresOf, CenterOn
<1>4. IsFiniteSet(Rows) /\ IsFiniteSet(Between(from, to))
  <2>1. Rows \in SUBSET Reservations /\ Between(from, to) \in SUBSET Reservations
      BY DEF Rows, Between
  <2> QED BY <2>1, FiniteAssumption, FS_Subset
<1>5. ASSUME NEW k \in ks
      PROVE  /\ figures[k].bookings = CenterBookings(k)
             /\ figures[k].extra = RealizedCash(k)
  <2>1. figures[k] = [bookings |-> BookingsPart(k), extra |-> ExtraPart(k)]
      BY <1>1 DEF Actual
  <2> QED BY <1>1, <2>1 DEF BookingsPart, ExtraPart
<1>6. /\ \A k \in ks : OnDay(k) \subseteq Between(from, to)
      /\ \A r \in Between(from, to) :
            CenterOn(slot[r].day) \in ks /\ r \in OnDay(CenterOn(slot[r].day))
  <2>1. \A k \in ks : OnDay(k) \subseteq Between(from, to)
      BY <1>1 DEF OnDay, Between
  <2>2. ASSUME NEW r \in Between(from, to)
        PROVE  CenterOn(slot[r].day) \in ks /\ r \in OnDay(CenterOn(slot[r].day))
    <3>1. r \in Rows /\ slot[r].day \in from..to
        BY DEF Between
    <3> QED BY <3>1, <1>3, DayByDay DEF OnDay, CenterOn
  <2> QED BY <2>1, <2>2
<1> DEFINE d == [k \in ks |-> OnDay(k)]
           c == [k \in ks |-> Done(OnDay(k))]
           x == [k \in ks |-> {r \in OnDay(k) : status[r] = "CANCELED"}]
           m == [k \in ks |-> RealizedCash(k)]
           received == {r \in Rows : paidOn[r] # None /\ paidOn[r] \in from..to}
<1>7. ASSUME NEW k \in ks
      PROVE  /\ Total[k] = Cardinality(d[k]) /\ Completed[k] = Cardinality(c[k])
             /\ Canceled[k] = Cardinality(x[k]) /\ Extra[k] = Cardinality(m[k])
  <2>1. k \in Keys
      BY <1>1
  <2>2. /\ d[k] = figures[k].bookings.total /\ c[k] = figures[k].bookings.completed
        /\ x[k] = figures[k].bookings.canceled /\ m[k] = figures[k].extra
    <3>1. figures[k].bookings = CenterBookings(k) /\ figures[k].extra = RealizedCash(k)
        BY <1>5
    <3>2. /\ d[k] = CenterBookings(k).total /\ c[k] = CenterBookings(k).completed
          /\ x[k] = CenterBookings(k).canceled /\ m[k] = RealizedCash(k)
        BY DEF CenterBookings
    <3> HIDE DEF d, c, x, m
    <3> QED BY <3>1, <3>2
  <2> HIDE DEF d, c, x, m
  <2> QED BY <2>1, <2>2 DEF Total, Completed, Canceled, Extra
<1>8. \A k, l \in ks : k # l => OnDay(k) \cap OnDay(l) = {} /\ RealizedCash(k) \cap RealizedCash(l) = {}
    BY <1>2 DEF OnDay, RealizedCash
<1>9. SumOf(Total, ks) = Cardinality(Between(from, to))
  <2>1. \A k, l \in ks : k # l => d[k] \cap d[l] = {}
      BY <1>8
  <2>2. \A k \in ks : d[k] \subseteq Between(from, to)
      BY <1>6
  <2>3. \A r \in Between(from, to) : \E k \in ks : r \in d[k]
      BY <1>6
  <2> HIDE DEF d, ks
  <2>5. PICK keys, size, part, whole : keys = ks /\ size = Total /\ part = d /\ whole = Between(from, to)
      OBVIOUS
  <2>6. /\ IsFiniteSet(keys) /\ IsFiniteSet(whole)
        /\ \A k \in keys : part[k] \subseteq whole /\ size[k] = Cardinality(part[k])
        /\ \A k, l \in keys : k # l => part[k] \cap part[l] = {}
        /\ \A r \in whole : \E k \in keys : r \in part[k]
      BY <1>1, <1>4, <1>7, <2>1, <2>2, <2>3, <2>5
  <2>7. SumOf(size, keys) = Cardinality(whole)
      BY <2>6, PartsAddUp
  <2> QED BY <2>5, <2>7
<1>10. SumOf(Completed, ks) = Cardinality(Done(Between(from, to)))
  <2>1. \A k, l \in ks : k # l => c[k] \cap c[l] = {}
      BY <1>8 DEF Done
  <2>2. \A k \in ks : c[k] \subseteq Done(Between(from, to))
      BY <1>6 DEF Done
  <2>3. \A r \in Done(Between(from, to)) : \E k \in ks : r \in c[k]
      BY <1>6 DEF Done
  <2>4. IsFiniteSet(Done(Between(from, to)))
      BY <1>4, FS_Subset DEF Done
  <2> HIDE DEF c, ks
  <2>5. PICK keys, size, part, whole : keys = ks /\ size = Completed /\ part = c /\ whole = Done(Between(from, to))
      OBVIOUS
  <2>6. /\ IsFiniteSet(keys) /\ IsFiniteSet(whole)
        /\ \A k \in keys : part[k] \subseteq whole /\ size[k] = Cardinality(part[k])
        /\ \A k, l \in keys : k # l => part[k] \cap part[l] = {}
        /\ \A r \in whole : \E k \in keys : r \in part[k]
      BY <1>1, <1>7, <2>1, <2>2, <2>3, <2>4, <2>5
  <2>7. SumOf(size, keys) = Cardinality(whole)
      BY <2>6, PartsAddUp
  <2> QED BY <2>5, <2>7
<1>11. SumOf(Canceled, ks) = Cardinality({r \in Between(from, to) : status[r] = "CANCELED"})
  <2> DEFINE gone == {r \in Between(from, to) : status[r] = "CANCELED"}
  <2>1. \A k, l \in ks : k # l => x[k] \cap x[l] = {}
      BY <1>8
  <2>2. \A k \in ks : x[k] \subseteq gone
      BY <1>6
  <2>3. \A r \in gone : \E k \in ks : r \in x[k]
      BY <1>6
  <2>4. IsFiniteSet(gone)
      BY <1>4, FS_Subset
  <2> HIDE DEF x, ks, gone
  <2>5. PICK keys, size, part, whole : keys = ks /\ size = Canceled /\ part = x /\ whole = gone
      OBVIOUS
  <2>6. /\ IsFiniteSet(keys) /\ IsFiniteSet(whole)
        /\ \A k \in keys : part[k] \subseteq whole /\ size[k] = Cardinality(part[k])
        /\ \A k, l \in keys : k # l => part[k] \cap part[l] = {}
        /\ \A r \in whole : \E k \in keys : r \in part[k]
      BY <1>1, <1>7, <2>1, <2>2, <2>3, <2>4, <2>5
  <2>7. SumOf(size, keys) = Cardinality(whole)
      BY <2>6, PartsAddUp
  <2> QED BY <2>5, <2>7 DEF gone
<1>12. SumOf(Extra, ks) = Cardinality(received)
  <2>1. \A k, l \in ks : k # l => m[k] \cap m[l] = {}
      BY <1>8
  <2>2. ASSUME NEW k \in ks, NEW r \in m[k] PROVE r \in received
    <3>1. r \in Reservations /\ paidOn[r] = k.day /\ k.day \in from..to /\ k.day # None
        BY <1>1, KeyShape DEF RealizedCash
    <3> QED BY <3>1 DEF PaymentsHaveRows, Rows
  <2>3. ASSUME NEW r \in received PROVE \E k \in ks : r \in m[k]
    <3>1. r \in Reservations /\ paidOn[r] \in Days /\ paidOn[r] \in from..to
        BY DEF Rows, TypeOK
    <3>2. CenterOn(paidOn[r]) \in ks /\ r \in RealizedCash(CenterOn(paidOn[r]))
        BY <3>1, <1>3 DEF RealizedCash, CenterOn
    <3> QED BY <3>2
  <2>4. IsFiniteSet(received)
      BY <1>4, FS_Subset
  <2> HIDE DEF m, ks, received
  <2>5. PICK keys, size, part, whole : keys = ks /\ size = Extra /\ part = m /\ whole = received
      OBVIOUS
  <2>6. /\ IsFiniteSet(keys) /\ IsFiniteSet(whole)
        /\ \A k \in keys : part[k] \subseteq whole /\ size[k] = Cardinality(part[k])
        /\ \A k, l \in keys : k # l => part[k] \cap part[l] = {}
        /\ \A r \in whole : \E k \in keys : r \in part[k]
      BY <1>1, <1>7, <2>1, <2>2, <2>3, <2>4, <2>5
  <2>7. SumOf(size, keys) = Cardinality(whole)
      BY <2>6, PartsAddUp
  <2> QED BY <2>5, <2>7
<1> QED BY <1>9, <1>10, <1>11, <1>12 DEF GetSummary

LEMMA ChartIsRight ==
    ASSUME TypeOK, \A k \in Keys : figures[k] = Actual(k),
           NEW from \in Days, NEW to \in Days
    PROVE  GetRevenueChart(from, to) =
             [d \in Days \cap (from..to) |-> Cardinality(Done(Between(d, d)))]
<1>1. ASSUME NEW d \in Days \cap (from..to)
      PROVE  Completed[CenterOn(d)] = Cardinality(Done(Between(d, d)))
  <2>1. d \in Nat /\ CenterOn(d) \in Keys
      BY DayKeys, FiniteAssumption DEF Days
  <2>2. OnDay(CenterOn(d)) = Between(d, d)
    <3>1. \A r \in Rows : slot[r].day \in Nat
        BY DayByDay
    <3> QED BY <2>1, <3>1 DEF OnDay, Between, CenterOn
  <2>3. figures[CenterOn(d)] = [bookings |-> BookingsPart(CenterOn(d)),
                                extra |-> ExtraPart(CenterOn(d))]
      BY <2>1 DEF Actual
  <2>4. BookingsPart(CenterOn(d)) = CenterBookings(CenterOn(d))
      BY DEF BookingsPart, CenterOn
  <2>5. figures[CenterOn(d)].bookings = CenterBookings(CenterOn(d))
      BY <2>3, <2>4
  <2>6. figures[CenterOn(d)].bookings.completed = Done(Between(d, d))
      BY <2>2, <2>5 DEF CenterBookings
  <2> QED BY <2>1, <2>6 DEF Completed
<1> QED BY <1>1 DEF GetRevenueChart

\* Whose figures of a table a slot counts in.
OwnerOf(table, s) == IF table = "staff" THEN s.staff ELSE s.station
OwnKey(table, s) == IF table = "staff" THEN StaffOf(s) ELSE StationOf(s)
Owned(table, who, from, to) == {r \in Between(from, to) : OwnerOf(table, slot[r]) = who}

\* The published reviews of the reservations one staff member has in a period.
Rated(who, from, to) == {v \in Reviews : /\ review[v] # None /\ review[v].status = "PUBLISHED"
                                          /\ review[v].of \in Owned("staff", who, from, to)}

\* The figures of one staff member, or of one station, in a period.
LEMMA OwnKeys ==
    ASSUME TypeOK, \A k \in Keys : figures[k] = Actual(k),
           NEW table \in {"staff", "station"}, table \in Tables, NEW who,
           NEW from \in Days, NEW to \in Days, NEW mine,
           \A r : r \in mine <=> r \in Between(from, to) /\ OwnerOf(table, slot[r]) = who
    PROVE  LET ks == FiguresOf(table, who, from, to) IN
           /\ IsFiniteSet(ks) /\ ks \subseteq Keys
           /\ \A k \in ks : k.table = table
           /\ \A k, l \in ks : k # l => k.day # l.day
           /\ \A r \in mine : OwnKey(table, slot[r]) \in ks
           /\ \A k \in ks, r \in Rows : OwnKey(table, slot[r]) = k => r \in mine
           /\ SumOf(Completed, ks) = Cardinality(Done(mine))
<1> DEFINE ks == FiguresOf(table, who, from, to)
           of(r) == OwnKey(table, slot[r])
           c == [k \in ks |-> Done({r \in Rows : of(r) = k})]
<1>1. /\ IsFiniteSet(ks) /\ ks \subseteq Keys
      /\ \A k \in ks : k.table = table /\ k.who = who /\ k.day \in from..to
  <2>1. ks \subseteq Keys
      BY DEF FiguresOf
  <2>2. IsFiniteSet(ks)
      BY <2>1, KeysFinite, FS_Subset
  <2> QED BY <2>1, <2>2 DEF FiguresOf
<1>2. \A k \in ks : k = [table |-> table, who |-> who, day |-> k.day]
  <2>1. SUFFICES ASSUME NEW k \in ks
                 PROVE  k = [table |-> k.table, who |-> k.who, day |-> k.day]
      BY <1>1
  <2>2. PICK s \in Slots : k \in {CenterOn(s.day), StaffOf(s), StationOf(s)}
      BY <1>1 DEF Keys, KeysOf
  <2> QED BY <2>2 DEF CenterOn, StaffOf, StationOf
<1>3. \A k, l \in ks : k # l => k.day # l.day
    BY <1>2
<1>4. \A r : of(r).table = table /\ of(r).day = slot[r].day
    BY DEF OwnKey, StaffOf, StationOf
<1>5. \A r \in mine : of(r) \in ks
  <2> SUFFICES ASSUME NEW r \in mine PROVE of(r) \in ks
      OBVIOUS
  <2>1. r \in Rows /\ slot[r].day \in from..to
      BY DEF Between
  <2>2. of(r) \in Keys
      BY <2>1, DayByDay DEF OwnKey
  <2>3. of(r).who = who
      BY DEF OwnKey, StaffOf, StationOf, OwnerOf
  <2> HIDE DEF of
  <2> QED BY <1>4, <2>1, <2>2, <2>3 DEF FiguresOf
<1>6. ASSUME NEW k \in ks, NEW r \in Rows, of(r) = k
      PROVE  r \in mine
  <2>1. slot[r].day \in from..to /\ of(r).who = who
      BY <1>1, <1>4, <1>6
  <2> QED BY <2>1 DEF Between, OwnKey, StaffOf, StationOf, OwnerOf
<1>7. ASSUME NEW k \in ks
      PROVE  Completed[k] = Cardinality(c[k])
  <2>1. k \in Keys /\ k.table = table
      BY <1>1
  <2>2. figures[k].bookings = OwnBookings(k)
    <3>1. figures[k] = [bookings |-> BookingsPart(k), extra |-> ExtraPart(k)]
        BY <2>1 DEF Actual
    <3> QED BY <2>1, <3>1 DEF BookingsPart
  <2>3. {r \in OnDay(k) : k \in {StaffOf(slot[r]), StationOf(slot[r])}} = {r \in Rows : of(r) = k}
    <3>1. \A r : k \in {StaffOf(slot[r]), StationOf(slot[r])} <=> of(r) = k
        BY <2>1 DEF OwnKey, StaffOf, StationOf
    <3>2. \A r : of(r) = k => slot[r].day = k.day
        BY <1>4
    <3> HIDE DEF of
    <3> QED BY <3>1, <3>2 DEF OnDay
  <2>4. OwnBookings(k).completed = Done({r \in Rows : of(r) = k})
    <3>1. OwnBookings(k).completed =
             Done({r \in OnDay(k) : k \in {StaffOf(slot[r]), StationOf(slot[r])}})
        BY DEF OwnBookings
    <3> QED BY <2>3, <3>1
  <2>5. figures[k].bookings.completed = c[k]
      BY <2>2, <2>4
  <2> HIDE DEF c
  <2> QED BY <2>1, <2>5 DEF Completed
<1>8. SumOf(Completed, ks) = Cardinality(Done(mine))
  <2>1. \A k, l \in ks : k # l => c[k] \cap c[l] = {}
      BY DEF Done
  <2>2. \A k \in ks : c[k] \subseteq Done(mine)
    <3> HIDE DEF of
    <3> QED BY <1>6 DEF Done
  <2>3. ASSUME NEW r \in Done(mine) PROVE \E k \in ks : r \in c[k]
    <3>1. r \in mine /\ r \in Rows /\ of(r) \in ks
        BY <1>5 DEF Done, Between
    <3>2. r \in Done({x \in Rows : of(x) = of(r)})
        BY <2>3, <3>1 DEF Done
    <3> QED BY <3>1, <3>2
  <2>4. IsFiniteSet(Done(mine))
    <3>1. Done(mine) \in SUBSET Reservations
        BY DEF Done, Between, Rows
    <3> QED BY <3>1, FiniteAssumption, FS_Subset
  <2> HIDE DEF c, ks
  <2>5. PICK keys, size, part, whole :
           keys = ks /\ size = Completed /\ part = c /\ whole = Done(mine)
      OBVIOUS
  <2>6. /\ IsFiniteSet(keys) /\ IsFiniteSet(whole)
        /\ \A k \in keys : part[k] \subseteq whole /\ size[k] = Cardinality(part[k])
        /\ \A k, l \in keys : k # l => part[k] \cap part[l] = {}
        /\ \A r \in whole : \E k \in keys : r \in part[k]
      BY <1>1, <1>7, <2>1, <2>2, <2>3, <2>4, <2>5
  <2>7. SumOf(size, keys) = Cardinality(whole)
      BY <2>6, PartsAddUp
  <2> QED BY <2>5, <2>7
<1> HIDE DEF of, ks, c
<1>9. /\ IsFiniteSet(ks) /\ ks \subseteq Keys
      /\ \A k \in ks : k.table = table
      /\ \A k, l \in ks : k # l => k.day # l.day
      /\ \A r \in mine : of(r) \in ks
      /\ \A k \in ks, r \in Rows : of(r) = k => r \in mine
      /\ SumOf(Completed, ks) = Cardinality(Done(mine))
    BY <1>1, <1>3, <1>5, <1>6, <1>8
<1> QED BY <1>9 DEF of, ks

LEMMA StationIsRight ==
    ASSUME TypeOK, \A k \in Keys : figures[k] = Actual(k), "station" \in Tables,
           NEW from \in Days, NEW to \in Days, NEW s
    PROVE  GetStationPerformance(s, from, to) =
             Cardinality(Done({r \in Between(from, to) : slot[r].station = s}))
<1> DEFINE ks == FiguresOf("station", s, from, to)
<1>1. PICK own : own = {r \in Between(from, to) : slot[r].station = s}
    OBVIOUS
<1>2. \A r : r \in own <=> r \in Between(from, to) /\ OwnerOf("station", slot[r]) = s
    BY <1>1 DEF OwnerOf
<1>3. /\ IsFiniteSet(ks) /\ ks \subseteq Keys
      /\ \A k \in ks : k.table = "station"
      /\ \A r \in own : OwnKey("station", slot[r]) \in ks
      /\ \A k \in ks, r \in Rows : OwnKey("station", slot[r]) = k => r \in own
      /\ SumOf(Completed, ks) = Cardinality(Done(own))
    BY <1>2, OwnKeys
<1> QED BY <1>1, <1>3 DEF GetStationPerformance

LEMMA StaffIsRight ==
    ASSUME TypeOK, ReviewsOK, \A k \in Keys : figures[k] = Actual(k),
           NEW from \in Days, NEW to \in Days, NEW s
    PROVE  GetStaffPerformance(s, from, to) =
             [completed |-> Cardinality(Done(Owned("staff", s, from, to))),
              ratings |-> Cardinality(Rated(s, from, to))]
<1> DEFINE ks == FiguresOf("staff", s, from, to)
           rated == Rated(s, from, to)
           p == [k \in ks |-> PublishedRatings(k)]
<1>0. PICK mine : mine = Owned("staff", s, from, to)
    OBVIOUS
<1>1. \A r : r \in mine <=> r \in Between(from, to) /\ OwnerOf("staff", slot[r]) = s
    BY <1>0 DEF Owned
<1>2. /\ IsFiniteSet(ks) /\ ks \subseteq Keys
      /\ \A k \in ks : k.table = "staff"
      /\ \A r \in mine : OwnKey("staff", slot[r]) \in ks
      /\ \A k \in ks, r \in Rows : OwnKey("staff", slot[r]) = k => r \in mine
      /\ SumOf(Completed, ks) = Cardinality(Done(mine))
  <2>1. "staff" \in Tables
      BY TablesAssumption
  <2> QED BY <1>1, <2>1, OwnKeys
<1>3. \A r : OwnKey("staff", slot[r]) = StaffOf(slot[r])
    BY DEF OwnKey
<1>4. \A r \in mine : StaffOf(slot[r]) \in ks
    BY <1>2, <1>3
<1>5. \A k \in ks, r \in Rows : StaffOf(slot[r]) = k => r \in mine
    BY <1>2, <1>3
<1>6. ASSUME NEW k \in ks
      PROVE  Extra[k] = Cardinality(p[k])
  <2>1. k \in Keys /\ k.table = "staff"
      BY <1>2
  <2>2. figures[k].extra = PublishedRatings(k)
    <3>1. figures[k] = [bookings |-> BookingsPart(k), extra |-> ExtraPart(k)]
        BY <2>1 DEF Actual
    <3> QED BY <2>1, <3>1 DEF ExtraPart
  <2> QED BY <2>1, <2>2 DEF Extra
<1>7. SumOf(Extra, ks) = Cardinality(rated)
  <2>1. \A k, l \in ks : k # l => p[k] \cap p[l] = {}
      BY DEF PublishedRatings
  <2>2. ASSUME NEW k \in ks, NEW v \in p[k] PROVE v \in rated
    <3>1. /\ v \in Reviews /\ review[v] # None /\ review[v].status = "PUBLISHED"
          /\ StaffOf(slot[review[v].of]) = k
        BY DEF PublishedRatings
    <3>2. review[v].of \in Reservations
        BY <3>1 DEF TypeOK, ReviewRecord
    <3>3. review[v].of \in Rows
        BY <3>1, <3>2 DEF ReviewsOK, Rows
    <3>4. review[v].of \in mine
        BY <1>5, <3>1, <3>3
    <3> QED BY <1>0, <3>1, <3>4 DEF Rated
  <2>3. ASSUME NEW v \in rated PROVE \E k \in ks : v \in p[k]
    <3>0. /\ v \in Reviews /\ review[v] # None /\ review[v].status = "PUBLISHED"
          /\ review[v].of \in mine
        BY <1>0 DEF Rated
    <3>1. StaffOf(slot[review[v].of]) \in ks
        BY <1>4, <3>0
    <3>2. v \in PublishedRatings(StaffOf(slot[review[v].of]))
        BY <3>0 DEF PublishedRatings
    <3> QED BY <3>1, <3>2
  <2>4. IsFiniteSet(rated)
    <3>1. rated \subseteq Reviews
        BY DEF Rated
    <3> QED BY <3>1, FiniteAssumption, FS_Subset
  <2> HIDE DEF p, ks, rated
  <2>5. PICK keys, size, part, whole : keys = ks /\ size = Extra /\ part = p /\ whole = rated
      OBVIOUS
  <2>6. /\ IsFiniteSet(keys) /\ IsFiniteSet(whole)
        /\ \A k \in keys : part[k] \subseteq whole /\ size[k] = Cardinality(part[k])
        /\ \A k, l \in keys : k # l => part[k] \cap part[l] = {}
        /\ \A r \in whole : \E k \in keys : r \in part[k]
      BY <1>2, <1>6, <2>1, <2>2, <2>3, <2>4, <2>5
  <2>7. SumOf(size, keys) = Cardinality(whole)
      BY <2>6, PartsAddUp
  <2> QED BY <2>5, <2>7
<1> QED BY <1>0, <1>2, <1>7 DEF GetStaffPerformance

LEMMA PaidRowsStep ==
    StatisticsShape /\ PaymentsHaveRows /\ [Next]_vars => PaymentsHaveRows'
<1> SUFFICES ASSUME StatisticsShape, PaymentsHaveRows, [Next]_vars PROVE PaymentsHaveRows'
    OBVIOUS
<1> USE DEF PaymentsHaveRows
<1>1. ASSUME NEW j \in Jobs, Change(j) PROVE PaymentsHaveRows'
  <2> USE DEF StatisticsShape, TypeOK
  <2>1. ASSUME NEW r \in Reservations, NEW s \in Slots, Book(r, s, j) \/ Edit(r, s, j)
        PROVE  PaymentsHaveRows'
      BY <2>1, NoneAssumption DEF Book, Edit
  <2>2. ASSUME NEW r \in Reservations, NEW kind, Cancel(r, kind, j) PROVE PaymentsHaveRows'
      BY <2>2 DEF Cancel
  <2>3. ASSUME NEW r \in Reservations, NEW end \in {"COMPLETED", "NO_SHOW"}, Close(r, end, j)
        PROVE  PaymentsHaveRows'
      BY <2>3, NoneAssumption DEF Close, ReservationStatus
  <2>4. ASSUME NEW r \in Reservations, NEW d, Pay(r, d, j) PROVE PaymentsHaveRows'
      BY <2>4 DEF Pay
  <2>5. ASSUME NEW r \in Reservations, NEW v, NEW kind, SubmitReview(v, r, kind, j)
        PROVE  PaymentsHaveRows'
      BY <2>5 DEF SubmitReview
  <2>6. ASSUME NEW v, NEW st, ModerateReview(v, st, j) PROVE PaymentsHaveRows'
      BY <2>6 DEF ModerateReview
  <2> QED BY <1>1, <2>1, <2>2, <2>3, <2>4, <2>5, <2>6 DEF Change
<1>2. ASSUME UNCHANGED rowVars PROVE PaymentsHaveRows'
    BY <1>2 DEF rowVars
<1>3. ASSUME NEW j \in Jobs, Lost(j) \/ FindFails(j) \/ Works(j) PROVE PaymentsHaveRows'
    BY <1>2, <1>3 DEF Lost, FindFails, Works, Enqueue, Start, SyncReservation, SyncPayment,
       SyncReview, Sync
<1>4. ASSUME NEW t \in tasks, ReadPart(t) \/ Upsert(t) \/ TaskFails(t) PROVE PaymentsHaveRows'
    BY <1>2, <1>4 DEF ReadPart, Upsert, TaskFails
<1>5. CASE UNCHANGED vars
    BY <1>2, <1>5 DEF vars
<1> QED BY <1>1, <1>3, <1>4, <1>5 DEF Next

LEMMA PaidRows == Spec => []PaymentsHaveRows
<1>1. Init => PaymentsHaveRows
  <2> SUFFICES ASSUME Init, NEW r \in Reservations, paidOn[r] # None PROVE status[r] # None
      BY DEF PaymentsHaveRows
  <2>1. PICK o \in [Reservations -> Openings] :
            /\ status = [x \in Reservations |-> o[x].status]
            /\ paidOn = [x \in Reservations |-> o[x].paidOn]
      BY DEF Init
  <2>2. o[r] \in Openings /\ status[r] = o[r].status /\ paidOn[r] = o[r].paidOn
      BY <2>1
  <2> QED BY <2>2, OpeningsAssumption
<1> QED BY <1>1, PaidRowsStep, StatisticsHold, PTL DEF Spec

\* When no recomputation is under way and none of the named reasons applies,
\* every report says for any period, staff member and station what the rows
\* say (analytics.station.ts:6-51, analytics.repo.ts:6-104).
THEOREM ReportsAreRight == Spec => []QuietReports
<1>1. ASSUME StatisticsShape, StaleIsExplained, PaymentsHaveRows PROVE QuietReports
  <2> SUFFICES ASSUME Quiet PROVE QuietReports
      BY DEF QuietReports
  <2>1. TypeOK /\ ReviewsOK
      BY <1>1 DEF StatisticsShape
  <2>2. \A k \in Keys : figures[k] = Actual(k)
      BY <1>1, <2>1, QuietFigures
  <2>3. ASSUME NEW from \in Days, NEW to \in Days
        PROVE  LET period == Between(from, to) IN
               /\ GetSummary(from, to) =
                    [total |-> Cardinality(period), completed |-> Cardinality(Done(period)),
                     canceled |-> Cardinality({r \in period : status[r] = "CANCELED"}),
                     cash |-> Cardinality({r \in Rows : paidOn[r] # None /\ paidOn[r] \in from..to})]
               /\ GetRevenueChart(from, to) =
                    [d \in Days \cap (from..to) |-> Cardinality(Done(Between(d, d)))]
               /\ "staff" \in Tables => \A s \in {slot[r].staff : r \in Rows} :
                    LET mine == {r \in period : slot[r].staff = s} IN
                    GetStaffPerformance(s, from, to) =
                      [completed |-> Cardinality(Done(mine)),
                       ratings |-> Cardinality({v \in Reviews : /\ review[v] # None
                                      /\ review[v].of \in mine /\ review[v].status = "PUBLISHED"})]
               /\ "station" \in Tables => \A s \in {slot[r].station : r \in Rows} :
                    GetStationPerformance(s, from, to) =
                      Cardinality(Done({r \in period : slot[r].station = s}))
    <3>1. /\ GetSummary(from, to) =
               [total |-> Cardinality(Between(from, to)),
                completed |-> Cardinality(Done(Between(from, to))),
                canceled |-> Cardinality({r \in Between(from, to) : status[r] = "CANCELED"}),
                cash |-> Cardinality({r \in Rows : paidOn[r] # None /\ paidOn[r] \in from..to})]
          /\ GetRevenueChart(from, to) =
               [d \in Days \cap (from..to) |-> Cardinality(Done(Between(d, d)))]
        BY <1>1, <2>1, <2>2, SummaryIsRight, ChartIsRight
    <3>2. ASSUME NEW s
          PROVE  LET mine == {r \in Between(from, to) : slot[r].staff = s} IN
                 GetStaffPerformance(s, from, to) =
                   [completed |-> Cardinality(Done(mine)),
                    ratings |-> Cardinality({v \in Reviews : /\ review[v] # None
                                   /\ review[v].of \in mine /\ review[v].status = "PUBLISHED"})]
      <4>1. Owned("staff", s, from, to) = {r \in Between(from, to) : slot[r].staff = s}
          BY DEF Owned, OwnerOf
      <4>2. GetStaffPerformance(s, from, to) =
              [completed |-> Cardinality(Done(Owned("staff", s, from, to))),
               ratings |-> Cardinality(Rated(s, from, to))]
          BY <2>1, <2>2, StaffIsRight
      <4>3. PICK mine : mine = Owned("staff", s, from, to)
          OBVIOUS
      <4>4. Rated(s, from, to) = {v \in Reviews : /\ review[v] # None
                                    /\ review[v].of \in mine /\ review[v].status = "PUBLISHED"}
          BY <4>3 DEF Rated
      <4> QED BY <4>1, <4>2, <4>3, <4>4
    <3>3. ASSUME "station" \in Tables, NEW s
          PROVE  GetStationPerformance(s, from, to) =
                   Cardinality(Done({r \in Between(from, to) : slot[r].station = s}))
        BY <2>1, <2>2, <3>3, StationIsRight
    <3> QED BY <3>1, <3>2, <3>3
  <2> QED BY <2>3 DEF QuietReports
<1> QED BY <1>1, PaidRows, StatisticsHold, StaleFiguresExplained, PTL
====
