---- MODULE BookingData ----
(***************************************************************************)
(* What every handler of the booking core shares: the rows PostgreSQL      *)
(* keeps (reservation, payment, wallet credit, gaming session, earning,    *)
(* audit log), the webhook keys Redis keeps, the events handed to the      *)
(* job queue, and the requests in flight.                                  *)
(*                                                                         *)
(* A request runs one statement per step, as the awaits of the handlers    *)
(* let other requests in between any two statements.  A transaction's      *)
(* writes become visible together when it commits; the row locks its       *)
(* UPDATEs take are held until then (READ COMMITTED).  A REPEATABLE READ   *)
(* transaction also fails when the row it updates changed since it read.   *)
(*                                                                         *)
(* Amounts are abstracted: what is counted is how often each payment has   *)
(* been credited to the wallet (prices are assumed positive).              *)
(***************************************************************************)
EXTENDS LifecycleTables, Naturals, FiniteSets

CONSTANTS
    Reservations,     \* reservation ids
    PayIds,           \* payment ids available to each reservation
    SessionIds,       \* gaming session ids available to each reservation
    Slots,            \* [staff, from, to] records a reservation can occupy
    Accounts,         \* customer accounts (wallets)
    AccountOf,        \* the account each reservation is booked by
    Requests,         \* requests that may be in flight at the same time
    Reported,         \* the kinds of event the provider sends
    Enabled,          \* the operations and failures this instance exercises
    PreventOverlaps,  \* the gaming center's setting of that name
    PolicyActive,     \* TRUE when the commission policy exists and is active
    None

ASSUME SlotsAssumption ==
    \A k \in Slots : k.from \in Nat /\ k.to \in Nat /\ k.from < k.to
ASSUME AccountsAssumption == AccountOf \in [Reservations -> Accounts]
ASSUME SettingsAssumption == PreventOverlaps \in BOOLEAN /\ PolicyActive \in BOOLEAN
ASSUME ReportedAssumption == Reported \subseteq {"SUCCEEDED", "FAILED", "EXPIRED"}
ASSUME NoneAssumption ==
    None \notin Reservations \cup PayIds \cup SessionIds \cup Slots

PaymentEvents == {"SUCCEEDED", "FAILED", "EXPIRED"}
Stamps == {"canceledAt", "completedAt", "noShowAt"}
\* The members of these two enumerations that some handler writes.
Sources == {"WALK_IN", "ONLINE"}
EarningStatus == {"PENDING", "CHARGED"}
Announcements ==
    {"CREATED", "UPDATED", "CONFIRMED", "CANCELED", "COMPLETED", "NO_SHOW"}
AuditActions == {"UPDATE", "CANCEL", "START", "COMPLETE", "NOSHOW"}
KeyStatus == {"IN_PROGRESS", "COMPLETED", "FAILED"}
Cancels == {"cancel", "customerCancel"}
Emitting ==
    {"createPanel", "createPublic", "update", "confirm", "cancel", "complete", "noShow"}
Auditing == Cancels \cup {"update", "start", "complete", "noShow"}
SessionRoutes == {"sessionPause", "sessionResume", "sessionStop"}
Operations ==
    Emitting \cup Auditing \cup SessionRoutes
        \cup {"initiate", "webhook", "sessionStart"}

\* null is none of the values a nullable column, a key or a field can have.
ASSUME NullAssumption ==
    None \notin Announcements \cup AuditActions \cup EarningStatus \cup KeyStatus
                  \cup Operations \cup ReservationStatus \cup PaymentEvents

VARIABLES
    status,     \* Reservation.status, "ABSENT" before the row exists
    source,     \* Reservation.source
    slot,       \* Reservation.staffId, startTime and endTime
    stamps,     \* which of canceledAt, completedAt, noShowAt are set
    payState,   \* Reservation.paymentState
    payment,    \* Payment.status, per reservation and payment id
    checkout,   \* payments the provider accepted and may report on
    credits,    \* how often a payment's amount was credited to the wallet
    session,    \* GamingSession.status, per reservation and session id
    earning,    \* Earning.status of the reservation
    calc,       \* each request's call of calculateCommission
    key,        \* idempotency key of each provider event
    audit,      \* the latest audit row of each reservation
    outbox,     \* the latest event emitted for each reservation
    req,        \* the requests in flight
    locks,      \* row locks each request holds
    snapshot    \* REPEATABLE READ requests whose row is unchanged since read

reservationVars == <<status, source, slot, stamps, payState>>
moneyVars == <<payment, checkout, credits>>
commissionVars == <<earning, calc>>
effectVars == <<audit, outbox>>
requestVars == <<req, locks, snapshot>>
vars == <<reservationVars, moneyVars, session, commissionVars, key,
          effectVars, requestVars>>
----------------------------------------------------------------------------
(* Requests.  A request is the operation it runs, the statement it runs    *)
(* next, and what it has read and not yet used.                            *)

Steps ==
    {"idle", "insert", "write", "session", "refund", "credit", "refundState",
     "sweep", "commit", "audit", "emit", "commission", "create", "gateway",
     "createKey", "read", "payThenApply", "payThenRefund", "apply", "applied",
     "ack", "fail", "sessionWrite"}

RequestRecord ==
    [op: Operations \cup {None}, pc: Steps, rsv: Reservations \cup {None},
     seen: ReservationStatus \cup {None}, item: PayIds \cup SessionIds \cup {None},
     slot: Slots \cup {None}, event: PaymentEvents \cup {None}, due: SUBSET PayIds]

Idle == [op |-> None, pc |-> "idle", rsv |-> None, seen |-> None,
         item |-> None, slot |-> None, event |-> None, due |-> {}]

CalcRecord ==
    [phase : {"idle", "called", "charge", "defer"}, rsv : Reservations \cup {None}]
NoCalc == [phase |-> "idle", rsv |-> None]

\* The fields a request has set at the steps that use them.
WellFormed(x) ==
    \/ x = Idle
    \/ /\ x.op \in Operations /\ x.pc # "idle" /\ x.rsv \in Reservations
       /\ x.op \in {"createPublic", "update"} => x.slot \in Slots
       /\ x.op = "webhook" => x.item \in PayIds /\ x.event \in PaymentEvents
       /\ x.op \in SessionRoutes => x.item \in SessionIds
       /\ x.op = "complete" => x.item \in SessionIds \cup {None}
       /\ x.pc = "gateway" => x.item \in PayIds
       /\ x.pc = "emit" => x.op \in Emitting
       /\ x.pc = "audit" => x.op \in Auditing

\* A request that has just run the first statement of operation o on r.
Call(o, next, r) == [Idle EXCEPT !.op = o, !.pc = next, !.rsv = r]

\* Bound: a worker takes a new request once its background commission
\* calculation is over; other workers interleave with it freely.
Begins(q, call) ==
    /\ call.op \in Enabled
    /\ req[q] = Idle /\ calc[q] = NoCalc
    /\ req' = [req EXCEPT ![q] = call]

At(q, ops, step) == req[q].op \in ops /\ req[q].pc = step
Goto(q, step) == req' = [req EXCEPT ![q].pc = step]
Finish(q) == req' = [req EXCEPT ![q] = Idle]
----------------------------------------------------------------------------
(* Row locks.                                                              *)

ReservationRow(r) == <<"reservation", r>>
PaymentRow(r, i) == <<"payment", r, i>>
AccountRow(r) == <<"account", AccountOf[r]>>
Rows == {ReservationRow(r) : r \in Reservations}
            \cup {PaymentRow(r, i) : r \in Reservations, i \in PayIds}
            \cup {<<"account", a>> : a \in Accounts}

CanLock(q, rows) == \A p \in Requests \ {q} : locks[p] \cap rows = {}
Lock(q, rows) == CanLock(q, rows) /\ locks' = [locks EXCEPT ![q] = @ \cup rows]
Release(q) == locks' = [locks EXCEPT ![q] = {}]

\* A committed write of r's row makes every snapshot that read it stale.
Overwritten(r) == snapshot' = {p \in snapshot : req[p].rsv # r}

\* A request that stops early: its transaction rolls back.
Rollback(q) == Release(q) /\ snapshot' = snapshot \ {q}
Reject(q) == Finish(q) /\ Rollback(q)
----------------------------------------------------------------------------
(* Reading the tables.                                                     *)

Exists(r) == status[r] # "ABSENT"
Unclaimed(r) == status[r] = "ABSENT" /\ \A q \in Requests : req[q].rsv # r

\* Half-open intervals of the same staff member.
Collide(a, b) == a.staff = b.staff /\ a.from < b.to /\ a.to > b.from

\* The statuses findOverlappingReservation counts; IN_PROGRESS is not one.
BlocksSlot == {"PENDING", "CONFIRMED", "COMPLETED"}
Overlapping(k, others) ==
    {r \in others : status[r] \in BlocksSlot /\ Collide(slot[r], k)}

\* Mutant: counts payments that were only initiated.
PaidOf_Open(r) == {i \in PayIds : payment[r][i] \in {"INITIATED", "PAID"}}

PaidOf(r) == {i \in PayIds : payment[r][i] = "PAID"}
RefundExists(r) == \E i \in PayIds : credits[r][i] > 0
SessionsIn(r, statuses) == {s \in SessionIds : session[r][s] \in statuses}

\* Bound: a request that will insert a row starts only while an id is left.
Room(r, ids, ops) ==
    Cardinality({q \in Requests : req[q].rsv = r /\ req[q].op \in ops})
        < Cardinality(ids)
RoomForSession(r) ==
    Room(r, SessionsIn(r, {"ABSENT"}), {"start", "sessionStart"})
RoomForPayment(r) ==
    Room(r, {i \in PayIds : payment[r][i] = "ABSENT"}, {"initiate"})
====
