---- MODULE Booking_proofs ----
(***************************************************************************)
(* Proofs about the booking core, for any number of reservations, payments, *)
(* sessions and requests in flight: types, then what locks and snapshots   *)
(* keep.  Edits only touch live reservations, and a running reservation    *)
(* has its one active session.                                             *)
(***************************************************************************)
EXTENDS BookingInvariants, TLAPS

\* What every handler relies on: the request table stays well formed when a
\* request only moves to another of its steps.
LEMMA GotoTypeOK ==
    ASSUME RequestTypeOK, NEW q \in Requests, NEW step \in Steps \ {"idle"},
           req[q] # Idle, Goto(q, step),
           step = "gateway" => req[q].item \in PayIds,
           step = "emit" => req[q].op \in Emitting,
           step = "audit" => req[q].op \in Auditing
    PROVE  req' \in [Requests -> RequestRecord]
           /\ \A p \in Requests : WellFormed(req'[p])
<1>1. req[q] \in RequestRecord /\ WellFormed(req[q])
  BY DEF RequestTypeOK
<1>2. req'[q] = [req[q] EXCEPT !.pc = step]
  BY DEF Goto, RequestTypeOK
<1>3. [req[q] EXCEPT !.pc = step] \in RequestRecord
  BY <1>1 DEF RequestRecord
<1>4. WellFormed([req[q] EXCEPT !.pc = step])
  BY <1>1 DEF WellFormed, RequestRecord
<1>5. \A p \in Requests \ {q} : req'[p] = req[p]
  BY DEF Goto, RequestTypeOK
<1>6. req' \in [Requests -> RequestRecord]
  BY <1>2, <1>3 DEF Goto, RequestTypeOK
<1>7. QED
  BY <1>2, <1>4, <1>5, <1>6 DEF RequestTypeOK

\* A request that ends leaves a well-formed idle record.
LEMMA FinishTypeOK ==
    ASSUME RequestTypeOK, NEW q \in Requests, Finish(q)
    PROVE  req' \in [Requests -> RequestRecord]
           /\ \A p \in Requests : WellFormed(req'[p])
<1>1. Idle \in RequestRecord
  BY DEF Idle, RequestRecord, Steps
<1>2. WellFormed(Idle)
  BY DEF WellFormed
<1>3. QED
  BY <1>1, <1>2 DEF Finish, RequestTypeOK

\* A request that begins with a well-formed call is well formed.
LEMMA BeginsTypeOK ==
    ASSUME RequestTypeOK, NEW q \in Requests, NEW call \in RequestRecord,
           WellFormed(call), Begins(q, call)
    PROVE  req' \in [Requests -> RequestRecord]
           /\ \A p \in Requests : WellFormed(req'[p])
  BY DEF Begins, RequestTypeOK

\* A handler's first step is well formed.
LEMMA CallTypeOK ==
    ASSUME NEW o \in Operations, NEW step \in Steps \ {"idle"}, NEW r \in Reservations
    PROVE  /\ Call(o, step, r) \in RequestRecord
           /\ Call(o, step, r).op = o /\ Call(o, step, r).pc = step
           /\ Call(o, step, r).rsv = r /\ Call(o, step, r).item = None
  BY DEF Call, Idle, RequestRecord, Steps

\* A request that is not idle knows what it works on.
LEMMA InFlight ==
    ASSUME RequestTypeOK, NEW q \in Requests, req[q].pc # "idle"
    PROVE  /\ req[q] # Idle /\ req[q] \in RequestRecord /\ WellFormed(req[q])
           /\ req[q].op \in Operations /\ req[q].rsv \in Reservations
           /\ ReservationRow(req[q].rsv) \in Rows /\ AccountRow(req[q].rsv) \in Rows
           /\ \A i \in PayIds : PaymentRow(req[q].rsv, i) \in Rows
<1>1. req[q] # Idle /\ req[q] \in RequestRecord /\ WellFormed(req[q])
  BY DEF RequestTypeOK, Idle
<1>2. req[q].op \in Operations /\ req[q].rsv \in Reservations
  BY <1>1 DEF WellFormed
<1>3. AccountOf[req[q].rsv] \in Accounts
  BY <1>2, AccountsAssumption
<1>4. QED
  BY <1>1, <1>2, <1>3 DEF Rows, ReservationRow, AccountRow, PaymentRow

\* Taking locks on rows leaves sets of rows.
LEMMA LockTypeOK ==
    ASSUME RequestTypeOK, NEW q \in Requests, NEW rows \in SUBSET Rows, Lock(q, rows)
    PROVE  locks' \in [Requests -> SUBSET Rows]
  BY DEF RequestTypeOK, Lock

\* So does releasing them.
LEMMA ReleaseTypeOK ==
    ASSUME RequestTypeOK, NEW q \in Requests, Release(q)
    PROVE  locks' \in [Requests -> SUBSET Rows]
  BY DEF RequestTypeOK, Release

\* A rejected request ends and gives up locks and snapshot.
LEMMA RejectTypeOK ==
    ASSUME RequestTypeOK, NEW q \in Requests, Reject(q)
    PROVE  RequestTypeOK'
  BY FinishTypeOK, ReleaseTypeOK DEF Reject, Rollback, RequestTypeOK

\* The frame: a step that changes only requests, locks and snapshots.
LEMMA RequestStepTypeOK ==
    ASSUME TypeOK, RequestTypeOK',
           UNCHANGED <<reservationVars, moneyVars, session, commissionVars, key, effectVars>>
    PROVE  TypeOK'
  BY DEF TypeOK, ReservationTypeOK, MoneyTypeOK, SessionTypeOK, CommissionTypeOK,
         KeyTypeOK, EffectTypeOK, reservationVars, moneyVars, commissionVars, effectVars

\* One cell of a table of rows keeps the table's type.
LEMMA CellTypeOK ==
    ASSUME NEW Keys, NEW Cols, NEW Vals, NEW f \in [Keys -> [Cols -> Vals]],
           NEW r \in Keys, NEW s \in Cols, NEW v \in Vals
    PROVE  [f EXCEPT ![r][s] = v] \in [Keys -> [Cols -> Vals]]
<1> DEFINE g == [f[r] EXCEPT ![s] = v]
<1>1. g \in [Cols -> Vals]
  OBVIOUS
<1>2. [f EXCEPT ![r][s] = v] = [f EXCEPT ![r] = g]
  OBVIOUS
<1> HIDE DEF g
<1>3. QED
  BY <1>1, <1>2
----------------------------------------------------------------------------
(* The reservation handlers.                                               *)

\* The read that a status handler begins with keeps the types.
LEMMA ReadAndValidateTypeOK ==
    ASSUME TypeOK, NEW q \in Requests, NEW r \in Reservations, NEW o \in Validated,
           ReadAndValidate(q, o, r)
    PROVE  TypeOK'
<1> DEFINE call == [Call(o, "write", r) EXCEPT !.seen = status[r]]
<1>1. status[r] \in ReservationStatus
  BY DEF ReadAndValidate, Exists, TypeOK, ReservationTypeOK
<1>2. call \in RequestRecord /\ WellFormed(call)
  BY <1>1 DEF Call, Idle, RequestRecord, Steps, WellFormed, Validated, Operations,
              Emitting, Auditing, Cancels, SessionRoutes
<1>3. RequestTypeOK'
  BY <1>2, BeginsTypeOK DEF ReadAndValidate, TypeOK, RequestTypeOK
<1>4. QED
  BY <1>3, RequestStepTypeOK DEF ReadAndValidate

\* The UPDATE that takes the reservation's row keeps the types.
LEMMA LockReservationTypeOK ==
    ASSUME TypeOK, NEW q \in Requests, NEW ops \in SUBSET Operations,
           NEW next \in Steps \ {"idle", "gateway", "emit"},
           next = "audit" => ops \subseteq Auditing,
           LockReservation(q, ops, next)
    PROVE  TypeOK'
<1>1. /\ RequestTypeOK /\ req[q].pc # "idle" /\ req[q].op \in ops
      /\ Goto(q, next) /\ Lock(q, {ReservationRow(req[q].rsv)})
  BY DEF LockReservation, At, TypeOK
<1>2. req' \in [Requests -> RequestRecord] /\ \A p \in Requests : WellFormed(req'[p])
  BY <1>1, InFlight, GotoTypeOK
<1>3. locks' \in [Requests -> SUBSET Rows]
  BY <1>1, InFlight, LockTypeOK
<1>4. RequestTypeOK'
  BY <1>1, <1>2, <1>3 DEF RequestTypeOK, LockReservation
<1>5. QED
  BY <1>4, RequestStepTypeOK DEF LockReservation

\* Status and stamps as every status write sets them.
LEMMA SetStatusTypeOK ==
    ASSUME TypeOK, NEW q \in Requests, NEW stamped \in SUBSET Stamps,
           req[q].op \in Validated, SetStatus(q, stamped)
    PROVE  /\ status' \in [Reservations -> ReservationStatus \cup {"ABSENT"}]
           /\ source' \in [Reservations -> Sources]
           /\ slot' \in [Reservations -> Slots \cup {None}]
           /\ stamps' \in [Reservations -> SUBSET Stamps]
           /\ snapshot' \subseteq Requests
<1>1. Target[req[q].op] \in ReservationStatus
  BY DEF Target, Validated, ReservationStatus
<1>2. QED
  BY <1>1 DEF SetStatus, TypeOK, ReservationTypeOK, RequestTypeOK, Overwritten

\* The rows a committed refund writes keep their types.
LEMMA RefundCommittedTypeOK ==
    ASSUME TypeOK, NEW q \in Requests, req[q].rsv \in Reservations, RefundCommitted(q)
    PROVE  /\ payment' \in [Reservations -> [PayIds -> PaymentStatus \cup {"ABSENT"}]]
           /\ credits' \in [Reservations -> [PayIds -> Nat]]
           /\ payState' \in [Reservations -> ReservationPaymentState]
<1> DEFINE r == req[q].rsv
           swept == {i \in PayIds : PaymentRow(r, i) \in locks[q]}
           paid == [i \in PayIds |-> IF i \in swept THEN "REFUNDED" ELSE payment[r][i]]
           credited == [i \in PayIds |-> IF i \in req[q].due THEN credits[r][i] + 1
                                                           ELSE credits[r][i]]
<1>1. paid \in [PayIds -> PaymentStatus \cup {"ABSENT"}]
  BY DEF TypeOK, MoneyTypeOK, PaymentStatus
<1>2. credited \in [PayIds -> Nat]
  BY DEF TypeOK, MoneyTypeOK
<1>3. /\ payment' = [payment EXCEPT ![r] = paid]
      /\ credits' = [credits EXCEPT ![r] = credited]
      /\ payState' = [payState EXCEPT ![r] = "REFUNDED"]
  BY DEF RefundCommitted
<1> HIDE DEF paid, credited
<1>4. QED
  BY <1>1, <1>2, <1>3 DEF TypeOK, MoneyTypeOK, ReservationTypeOK, ReservationPaymentState

\* createReservation and createPublicReservation keep the types.
LEMMA CreationTypeOK ==
    ASSUME TypeOK, NEW q \in Requests, NEW r \in Reservations, NEW k \in Slots,
           CreateReservation(q, r, k) \/ PublicCheck(q, r, k) \/ PublicInsert(q)
    PROVE  TypeOK'
<1> USE DEF Operations, Emitting, Auditing, Cancels, SessionRoutes
<1>1. CASE CreateReservation(q, r, k)
  <2> DEFINE call == Call("createPanel", "emit", r)
  <2>1. call \in RequestRecord /\ WellFormed(call)
    BY DEF Call, Idle, RequestRecord, Steps, WellFormed
  <2>2. req' \in [Requests -> RequestRecord] /\ \A p \in Requests : WellFormed(req'[p])
    BY <1>1, <2>1, BeginsTypeOK DEF CreateReservation, TypeOK
  <2>3. ReservationTypeOK'
    BY <1>1 DEF CreateReservation, InsertReservation, TypeOK, ReservationTypeOK,
                ReservationStatus, Sources
  <2>4. QED
    BY <1>1, <2>2, <2>3 DEF CreateReservation, TypeOK, MoneyTypeOK, SessionTypeOK,
       CommissionTypeOK, KeyTypeOK, EffectTypeOK, RequestTypeOK, moneyVars,
       commissionVars, effectVars
<1>2. CASE PublicCheck(q, r, k)
  <2> DEFINE call == [Call("createPublic", "insert", r) EXCEPT !.slot = k]
  <2>1. call \in RequestRecord /\ WellFormed(call)
    BY DEF Call, Idle, RequestRecord, Steps, WellFormed
  <2>2. RequestTypeOK'
    BY <1>2, <2>1, BeginsTypeOK DEF PublicCheck, TypeOK, RequestTypeOK
  <2>3. QED
    BY <1>2, <2>2, RequestStepTypeOK DEF PublicCheck
<1>3. CASE PublicInsert(q)
  <2>1. /\ RequestTypeOK /\ req[q].pc # "idle" /\ req[q].op = "createPublic"
        /\ Goto(q, "emit")
    BY <1>3 DEF PublicInsert, At, TypeOK
  <2>2. req[q].rsv \in Reservations /\ req[q].slot \in Slots
    BY <2>1, InFlight DEF WellFormed
  <2>3. req' \in [Requests -> RequestRecord] /\ \A p \in Requests : WellFormed(req'[p])
    BY <2>1, InFlight, GotoTypeOK DEF Steps
  <2>4. ReservationTypeOK'
    BY <1>3, <2>2 DEF PublicInsert, InsertReservation, TypeOK, ReservationTypeOK,
                      ReservationStatus, Sources
  <2>5. QED
    BY <1>3, <2>3, <2>4 DEF PublicInsert, TypeOK, MoneyTypeOK, SessionTypeOK,
       CommissionTypeOK, KeyTypeOK, EffectTypeOK, RequestTypeOK, moneyVars,
       commissionVars, effectVars
<1>4. QED
  BY <1>1, <1>2, <1>3

\* updateReservation keeps the types.
LEMMA UpdateTypeOK ==
    ASSUME TypeOK, NEW q \in Requests, NEW r \in Reservations, NEW k \in Slots,
           UpdateRead(q, r, k) \/ UpdateWrite(q) \/ UpdateConflict(q) \/ UpdateCommit(q)
    PROVE  TypeOK'
<1> USE DEF Operations, Emitting, Auditing, Cancels, SessionRoutes
<1>1. CASE UpdateRead(q, r, k)
  <2> DEFINE call == [Call("update", "write", r) EXCEPT !.slot = k]
  <2>1. call \in RequestRecord /\ WellFormed(call)
    BY DEF Call, Idle, RequestRecord, Steps, WellFormed
  <2>2. RequestTypeOK'
    BY <1>1, <2>1, BeginsTypeOK DEF UpdateRead, TypeOK, RequestTypeOK
  <2>3. QED
    BY <1>1, <2>2, RequestStepTypeOK DEF UpdateRead
<1>2. CASE UpdateWrite(q)
  BY <1>2, LockReservationTypeOK DEF UpdateWrite, Steps
<1>3. CASE UpdateConflict(q)
  BY <1>3, RejectTypeOK, RequestStepTypeOK DEF UpdateConflict, TypeOK
<1>4. CASE UpdateCommit(q)
  <2>1. /\ RequestTypeOK /\ req[q].pc # "idle" /\ req[q].op = "update"
        /\ Goto(q, "emit")
    BY <1>4 DEF UpdateCommit, At, TypeOK
  <2>2. req[q].slot \in Slots
    BY <2>1, InFlight DEF WellFormed
  <2>3. req' \in [Requests -> RequestRecord] /\ \A p \in Requests : WellFormed(req'[p])
    BY <2>1, InFlight, GotoTypeOK DEF Steps
  <2>4. locks' \in [Requests -> SUBSET Rows] /\ snapshot' \subseteq Requests
    BY <1>4, <2>1, ReleaseTypeOK DEF UpdateCommit, Overwritten, RequestTypeOK
  <2>5. ReservationTypeOK'
    BY <1>4, <2>2 DEF UpdateCommit, TypeOK, ReservationTypeOK
  <2>6. QED
    BY <1>4, <2>3, <2>4, <2>5 DEF UpdateCommit, TypeOK, MoneyTypeOK, SessionTypeOK,
       CommissionTypeOK, KeyTypeOK, EffectTypeOK, RequestTypeOK, moneyVars,
       commissionVars, effectVars
<1>5. QED
  BY <1>1, <1>2, <1>3, <1>4

\* confirmReservation and markNoShow keep the types.
LEMMA ConfirmNoShowTypeOK ==
    ASSUME TypeOK, NEW q \in Requests, NEW r \in Reservations,
           \/ ConfirmRead(q, r) \/ ConfirmWrite(q)
           \/ NoShowRead(q, r) \/ NoShowWrite(q)
    PROVE  TypeOK'
<1>1. CASE ConfirmRead(q, r) \/ NoShowRead(q, r)
  BY <1>1, ReadAndValidateTypeOK DEF ConfirmRead, NoShowRead, Validated
<1>2. CASE ConfirmWrite(q) \/ NoShowWrite(q)
  <2>1. /\ RequestTypeOK /\ req[q].pc # "idle" /\ req[q].op \in Validated
        /\ \/ Goto(q, "emit") /\ req[q].op = "confirm"
           \/ Goto(q, "audit") /\ req[q].op = "noShow"
    BY <1>2 DEF ConfirmWrite, NoShowWrite, At, TypeOK, Validated
  <2>2. req' \in [Requests -> RequestRecord] /\ \A p \in Requests : WellFormed(req'[p])
    BY <2>1, InFlight, GotoTypeOK DEF Steps, Emitting, Auditing
  <2>3. PICK stamped \in SUBSET Stamps : SetStatus(q, stamped)
    BY <1>2 DEF ConfirmWrite, NoShowWrite, Stamps
  <2>4. ReservationTypeOK' /\ snapshot' \subseteq Requests
    BY <1>2, <2>1, <2>3, SetStatusTypeOK DEF ConfirmWrite, NoShowWrite, TypeOK, ReservationTypeOK
  <2>5. QED
    BY <1>2, <2>2, <2>4 DEF ConfirmWrite, NoShowWrite, TypeOK, MoneyTypeOK,
       SessionTypeOK, CommissionTypeOK, KeyTypeOK, EffectTypeOK, RequestTypeOK,
       moneyVars, commissionVars, effectVars
<1>3. QED
  BY <1>1, <1>2

\* The panel's and the customer's cancel keep the types.
LEMMA CancelTypeOK ==
    ASSUME TypeOK, NEW q \in Requests, NEW r \in Reservations,
           \/ CancelRead(q, r) \/ CustomerCancelRead(q, r)
           \/ CancelWrite(q) \/ CancelCommit(q)
    PROVE  TypeOK'
<1>1. CASE CancelRead(q, r) \/ CustomerCancelRead(q, r)
  BY <1>1, ReadAndValidateTypeOK DEF CancelRead, CustomerCancelRead, Validated
<1>2. CASE CancelWrite(q)
  BY <1>2, LockReservationTypeOK DEF CancelWrite, Steps, Operations, Auditing, Cancels
<1>3. CASE CancelCommit(q)
  <2>1. /\ RequestTypeOK /\ req[q].pc # "idle" /\ req[q].op \in Cancels
        /\ \/ Goto(q, "emit") /\ req[q].op = "cancel"
           \/ Goto(q, "audit")
        /\ SetStatus(q, {"canceledAt"}) /\ Release(q)
    BY <1>3 DEF CancelCommit, At, TypeOK
  <2>2. req' \in [Requests -> RequestRecord] /\ \A p \in Requests : WellFormed(req'[p])
    BY <2>1, InFlight, GotoTypeOK DEF Steps, Emitting, Auditing
  <2>3. locks' \in [Requests -> SUBSET Rows]
    BY <2>1, ReleaseTypeOK
  <2>4. /\ payment' \in [Reservations -> [PayIds -> PaymentStatus \cup {"ABSENT"}]]
        /\ credits' \in [Reservations -> [PayIds -> Nat]]
        /\ payState' \in [Reservations -> ReservationPaymentState]
    BY <1>3, <2>1, InFlight, RefundCommittedTypeOK
       DEF CancelCommit, TypeOK, MoneyTypeOK, ReservationTypeOK
  <2>5. ReservationTypeOK' /\ snapshot' \subseteq Requests
    BY <2>1, <2>4, SetStatusTypeOK DEF ReservationTypeOK, Cancels, Validated, Stamps
  <2>6. QED
    BY <1>3, <2>2, <2>3, <2>4, <2>5 DEF CancelCommit, TypeOK, MoneyTypeOK,
       SessionTypeOK, CommissionTypeOK, KeyTypeOK, EffectTypeOK, RequestTypeOK,
       commissionVars, effectVars
<1>4. QED
  BY <1>1, <1>2, <1>3

\* startReservation keeps the types.
LEMMA StartTypeOK ==
    ASSUME TypeOK, NEW q \in Requests, NEW r \in Reservations,
           StartRead(q, r) \/ StartWrite(q) \/ StartSession(q) \/ StartCommit(q)
    PROVE  TypeOK'
<1>1. CASE StartRead(q, r)
  BY <1>1, ReadAndValidateTypeOK DEF StartRead, Validated
<1>2. CASE StartWrite(q)
  BY <1>2, LockReservationTypeOK DEF StartWrite, Steps, Operations, Auditing
<1>3. CASE StartSession(q)
  <2>1. /\ RequestTypeOK /\ req[q].pc # "idle" /\ req[q].op = "start"
        /\ \/ Reject(q)
           \/ Goto(q, "audit") /\ UNCHANGED <<locks, snapshot>>
    BY <1>3 DEF StartSession, At, TypeOK
  <2>2. ASSUME Goto(q, "audit"), UNCHANGED <<locks, snapshot>> PROVE RequestTypeOK'
    <3>1. req' \in [Requests -> RequestRecord] /\ \A p \in Requests : WellFormed(req'[p])
      BY <2>1, <2>2, InFlight, GotoTypeOK DEF Steps, Auditing
    <3>2. QED
      BY <2>1, <2>2, <3>1 DEF RequestTypeOK
  <2>3. QED
    BY <1>3, <2>1, <2>2, RejectTypeOK, RequestStepTypeOK DEF StartSession
<1>4. CASE StartCommit(q)
  <2>1. /\ RequestTypeOK /\ req[q].op \in Validated
        /\ Finish(q) /\ SetStatus(q, {}) /\ Release(q)
    BY <1>4 DEF StartCommit, At, TypeOK, Validated
  <2>2. req' \in [Requests -> RequestRecord] /\ \A p \in Requests : WellFormed(req'[p])
    BY <2>1, FinishTypeOK
  <2>3. locks' \in [Requests -> SUBSET Rows]
    BY <2>1, ReleaseTypeOK
  <2>4. ReservationTypeOK' /\ snapshot' \subseteq Requests
    BY <1>4, <2>1, SetStatusTypeOK DEF StartCommit, TypeOK, ReservationTypeOK
  <2>5. SessionTypeOK'
    <3>1. PICK s \in SessionIds : session' = [session EXCEPT ![req[q].rsv][s] = "ACTIVE"]
      BY <1>4 DEF StartCommit, SessionsIn
    <3>2. req[q].rsv \in Reservations
      BY <1>4, <2>1, InFlight DEF StartCommit, At
    <3>3. "ACTIVE" \in GamingSessionStatus \cup {"ABSENT"}
      BY DEF GamingSessionStatus
    <3>4. QED
      BY <3>1, <3>2, <3>3, CellTypeOK DEF TypeOK, SessionTypeOK
  <2>6. QED
    BY <1>4, <2>2, <2>3, <2>4, <2>5 DEF StartCommit, TypeOK, MoneyTypeOK,
       CommissionTypeOK, KeyTypeOK, EffectTypeOK, RequestTypeOK, moneyVars,
       commissionVars, effectVars
<1>5. QED
  BY <1>1, <1>2, <1>3, <1>4

\* completeReservation keeps the types.
LEMMA CompleteTypeOK ==
    ASSUME TypeOK, NEW q \in Requests, NEW r \in Reservations,
           \/ CompleteRead(q, r) \/ CompleteWrite(q)
           \/ EndSession(q) \/ CompleteCommit(q)
    PROVE  TypeOK'
<1>1. CASE CompleteRead(q, r)
  BY <1>1, ReadAndValidateTypeOK DEF CompleteRead, Validated
<1>2. CASE CompleteWrite(q)
  BY <1>2, LockReservationTypeOK DEF CompleteWrite, Steps, Operations, Auditing
<1>3. CASE EndSession(q)
  <2>1. RequestTypeOK /\ req[q].pc # "idle" /\ req[q].op = "complete"
    BY <1>3 DEF EndSession, At, TypeOK
  <2>2. ASSUME NEW s \in SessionIds, UNCHANGED <<locks, snapshot>>,
               req' = [req EXCEPT ![q].pc = "commit", ![q].item = s]
        PROVE  RequestTypeOK'
    <3>1. [req[q] EXCEPT !.pc = "commit", !.item = s] \in RequestRecord
      BY <2>1, InFlight DEF RequestRecord, Steps
    <3>2. WellFormed([req[q] EXCEPT !.pc = "commit", !.item = s])
      BY <2>1, InFlight DEF RequestRecord, WellFormed, SessionRoutes
    <3>3. QED
      BY <2>1, <2>2, <3>1, <3>2 DEF RequestTypeOK
  <2>3. \/ Reject(q)
        \/ /\ UNCHANGED <<locks, snapshot>>
           /\ \E s \in SessionIds :
                 req' = [req EXCEPT ![q].pc = "commit", ![q].item = s]
    BY <1>3 DEF EndSession, SessionsIn
  <2>4. RequestTypeOK'
    BY <2>1, <2>2, <2>3, RejectTypeOK
  <2>5. QED
    BY <1>3, <2>4, RequestStepTypeOK DEF EndSession
<1>4. CASE CompleteCommit(q)
  <2>1. /\ RequestTypeOK /\ req[q].pc # "idle" /\ req[q].op = "complete"
        /\ Goto(q, "audit") /\ SetStatus(q, {"completedAt"}) /\ Release(q)
    BY <1>4 DEF CompleteCommit, At, TypeOK
  <2>2. req' \in [Requests -> RequestRecord] /\ \A p \in Requests : WellFormed(req'[p])
    BY <2>1, InFlight, GotoTypeOK DEF Steps, Auditing
  <2>3. locks' \in [Requests -> SUBSET Rows]
    BY <2>1, ReleaseTypeOK
  <2>4. ReservationTypeOK' /\ snapshot' \subseteq Requests
    BY <1>4, <2>1, SetStatusTypeOK
       DEF CompleteCommit, TypeOK, ReservationTypeOK, Validated, Stamps
  <2>5. SessionTypeOK'
    BY <1>4 DEF CompleteCommit, TypeOK, SessionTypeOK, GamingSessionStatus
  <2>6. QED
    BY <1>4, <2>2, <2>3, <2>4, <2>5 DEF CompleteCommit, TypeOK, MoneyTypeOK,
       CommissionTypeOK, KeyTypeOK, EffectTypeOK, RequestTypeOK, moneyVars,
       commissionVars, effectVars
<1>5. QED
  BY <1>1, <1>2, <1>3, <1>4

\* The audit row, the event and the call of the commission keep the types.
LEMMA AfterwardsTypeOK ==
    ASSUME TypeOK, NEW q \in Requests,
           RecordAudit(q) \/ Emit(q) \/ CallCommission(q)
    PROVE  TypeOK'
<1>1. CASE RecordAudit(q)
  <2>1. RequestTypeOK /\ req[q].pc = "audit"
    BY <1>1 DEF RecordAudit, TypeOK
  <2>2. req[q].op \in Auditing
    BY <2>1, InFlight DEF WellFormed
  <2>3. \/ Finish(q)
        \/ Goto(q, "commit")
        \/ Goto(q, "emit") /\ req[q].op \in Emitting
    BY <1>1, <2>2 DEF RecordAudit, AfterAudit, Auditing, Emitting
  <2>4. req' \in [Requests -> RequestRecord] /\ \A p \in Requests : WellFormed(req'[p])
    BY <2>1, <2>3, InFlight, FinishTypeOK, GotoTypeOK DEF Steps
  <2>5. req[q].op \notin {"customerCancel"} => AuditOf[req[q].op] \in AuditActions
    BY <2>2 DEF Auditing, Cancels, AuditOf, AuditActions
  <2>6. EffectTypeOK'
    BY <1>1, <2>5 DEF RecordAudit, TypeOK, EffectTypeOK
  <2>7. QED
    BY <1>1, <2>1, <2>4, <2>6 DEF RecordAudit, ReservationTypeOK, TypeOK, MoneyTypeOK,
       SessionTypeOK, CommissionTypeOK, KeyTypeOK, RequestTypeOK, reservationVars,
       moneyVars, commissionVars
<1>2. CASE Emit(q)
  <2>1. RequestTypeOK /\ req[q].pc = "emit"
    BY <1>2 DEF Emit, TypeOK
  <2>2. req[q].op \in Emitting
    BY <2>1, InFlight DEF WellFormed
  <2>3. Finish(q) \/ Goto(q, "commission") \/ (Goto(q, "audit") /\ req[q].op \in Auditing)
    BY <1>2 DEF Emit, Auditing, Cancels
  <2>4. req' \in [Requests -> RequestRecord] /\ \A p \in Requests : WellFormed(req'[p])
    BY <2>1, <2>3, InFlight, FinishTypeOK, GotoTypeOK DEF Steps
  <2>5. EventOf[req[q].op] \in Announcements
    BY <2>2 DEF Emitting, EventOf, Announcements
  <2>6. EffectTypeOK'
    BY <1>2, <2>5 DEF Emit, TypeOK, EffectTypeOK
  <2>7. QED
    BY <1>2, <2>1, <2>4, <2>6 DEF Emit, ReservationTypeOK, TypeOK, MoneyTypeOK,
       SessionTypeOK, CommissionTypeOK, KeyTypeOK, RequestTypeOK, reservationVars,
       moneyVars, commissionVars
<1>3. CASE CallCommission(q)
  <2>1. RequestTypeOK /\ req[q].pc # "idle" /\ Finish(q)
    BY <1>3 DEF CallCommission, At, TypeOK
  <2>2. req' \in [Requests -> RequestRecord] /\ \A p \in Requests : WellFormed(req'[p])
    BY <2>1, FinishTypeOK
  <2>3. CommissionTypeOK'
    BY <1>3, <2>1, InFlight DEF CallCommission, TypeOK, CommissionTypeOK, CalcRecord
  <2>4. QED
    BY <1>3, <2>1, <2>2, <2>3 DEF CallCommission, ReservationTypeOK, TypeOK, MoneyTypeOK,
       SessionTypeOK, EffectTypeOK, KeyTypeOK, RequestTypeOK, reservationVars,
       moneyVars, effectVars
<1>4. QED
  BY <1>1, <1>2, <1>3
----------------------------------------------------------------------------
(* The refund.                                                             *)

\* An UPDATE inside a refund keeps the types.
LEMMA RefundStepTypeOK ==
    ASSUME TypeOK, NEW q \in Requests, NEW step \in Steps \ {"idle"},
           NEW rows \in SUBSET Rows, NEW next \in Steps \ {"idle", "gateway", "emit", "audit"},
           RefundStep(q, step, rows, next)
    PROVE  TypeOK'
<1>1. RequestTypeOK /\ req[q].pc # "idle" /\ Goto(q, next) /\ Lock(q, rows)
  BY DEF RefundStep, At, TypeOK
<1>2. req' \in [Requests -> RequestRecord] /\ \A p \in Requests : WellFormed(req'[p])
  BY <1>1, InFlight, GotoTypeOK
<1>3. locks' \in [Requests -> SUBSET Rows]
  BY <1>1, LockTypeOK
<1>4. RequestTypeOK'
  BY <1>1, <1>2, <1>3 DEF RefundStep, RequestTypeOK
<1>5. QED
  BY <1>4, RequestStepTypeOK DEF RefundStep

\* refundReservationToWallet keeps the types.
LEMMA RefundTypeOK ==
    ASSUME TypeOK, NEW q \in Requests,
           RefundSelect(q) \/ RefundCredit(q) \/ RefundState(q) \/ RefundSweep(q)
    PROVE  TypeOK'
<1>1. CASE RefundSelect(q)
  <2> DEFINE paid == PaidOf(req[q].rsv) \cup OwnPaid(q)
  <2>1. RequestTypeOK /\ req[q].pc # "idle"
    BY <1>1 DEF RefundSelect, At, TypeOK
  <2>2. paid \in SUBSET PayIds
    BY <2>1, InFlight DEF PaidOf, OwnPaid, WellFormed
  <2>3. ASSUME req' = [req EXCEPT ![q].pc = "credit", ![q].due = paid]
        PROVE  req' \in [Requests -> RequestRecord] /\ \A p \in Requests : WellFormed(req'[p])
    <3> HIDE DEF paid
    <3>1. [req[q] EXCEPT !.pc = "credit", !.due = paid] \in RequestRecord
      BY <2>1, <2>2, InFlight DEF RequestRecord, Steps
    <3>2. WellFormed([req[q] EXCEPT !.pc = "credit", !.due = paid])
      BY <2>1, InFlight DEF RequestRecord, WellFormed
    <3>3. QED
      BY <2>1, <2>3, <3>1, <3>2 DEF RequestTypeOK
  <2>4. ASSUME Goto(q, "commit")
        PROVE  req' \in [Requests -> RequestRecord] /\ \A p \in Requests : WellFormed(req'[p])
    BY <2>1, <2>4, InFlight, GotoTypeOK DEF Steps
  <2>5. RequestTypeOK'
    BY <1>1, <2>1, <2>3, <2>4 DEF RefundSelect, RequestTypeOK
  <2>6. QED
    BY <1>1, <2>5, RequestStepTypeOK DEF RefundSelect
<1>2. CASE RefundCredit(q)
  <2>1. {AccountRow(req[q].rsv)} \in SUBSET Rows
    BY <1>2, InFlight DEF RefundCredit, RefundStep, At, TypeOK
  <2>2. QED
    BY <1>2, <2>1, RefundStepTypeOK DEF RefundCredit, Steps
<1>3. CASE RefundState(q)
  <2>1. {ReservationRow(req[q].rsv)} \in SUBSET Rows
    BY <1>3, InFlight DEF RefundState, RefundStep, At, TypeOK
  <2>2. QED
    BY <1>3, <2>1, RefundStepTypeOK DEF RefundState, Steps
<1>4. CASE RefundSweep(q)
  <2>1. {PaymentRow(req[q].rsv, i) : i \in PaidOf(req[q].rsv)} \in SUBSET Rows
    BY <1>4, InFlight DEF RefundSweep, RefundStep, At, TypeOK, PaidOf
  <2>2. QED
    BY <1>4, <2>1, RefundStepTypeOK DEF RefundSweep, Steps
<1>5. QED
  BY <1>1, <1>2, <1>3, <1>4
----------------------------------------------------------------------------
(* Payments and provider events.                                           *)

\* The frame of a step that changes neither reservations, sessions, earnings
\* nor effects, as most provider event steps do.
LEMMA KeyStepTypeOK ==
    ASSUME TypeOK, KeyTypeOK', RequestTypeOK', CommissionTypeOK',
           WebhookUnchanged, UNCHANGED <<payState, payment, credits>>
    PROVE  TypeOK'
  BY DEF WebhookUnchanged, TypeOK, ReservationTypeOK, MoneyTypeOK, SessionTypeOK,
         EffectTypeOK, effectVars

\* Setting the key of the event a request processes keeps its type.
LEMMA SetKeyTypeOK ==
    ASSUME TypeOK, NEW q \in Requests, req[q].pc # "idle", req[q].op = "webhook",
           NEW st \in KeyStatus, SetKey(q, st)
    PROVE  KeyTypeOK'
<1> DEFINE r == req[q].rsv
           i == req[q].item
           e == req[q].event
           Cell == [PaymentEvents -> KeyStatus \cup {None}]
           events == [key[r][i] EXCEPT ![e] = st]
           items == [key[r] EXCEPT ![i] = events]
<1>1. r \in Reservations /\ i \in PayIds /\ e \in PaymentEvents
  BY InFlight DEF TypeOK, WellFormed
<1>2. key \in [Reservations -> [PayIds -> Cell]]
  BY DEF TypeOK, KeyTypeOK
<1>3. key' = [key EXCEPT ![r] = items]
  BY DEF SetKey
<1> HIDE DEF r, i, e
<1>4. key[r] \in [PayIds -> Cell] /\ key[r][i] \in Cell
  BY <1>1, <1>2
<1>5. events \in Cell
  BY <1>1, <1>4
<1> HIDE DEF Cell, events
<1>6. items \in [PayIds -> Cell]
  BY <1>1, <1>4, <1>5
<1> HIDE DEF items
<1>7. key' \in [Reservations -> [PayIds -> Cell]]
  BY <1>2, <1>3, <1>6
<1>8. QED
  BY <1>7 DEF KeyTypeOK, Cell

\* initiatePayment keeps the types.
LEMMA InitiateTypeOK ==
    ASSUME TypeOK, NEW q \in Requests, NEW r \in Reservations,
           InitiateRead(q, r) \/ InitiateCreate(q) \/ InitiateGateway(q)
    PROVE  TypeOK'
<1>1. CASE InitiateRead(q, r)
  <2> DEFINE call == Call("initiate", "create", r)
  <2>1. call \in RequestRecord /\ WellFormed(call)
    BY DEF Call, Idle, RequestRecord, Steps, WellFormed, Operations, Emitting,
           Auditing, SessionRoutes
  <2>2. RequestTypeOK'
    BY <1>1, <2>1, BeginsTypeOK DEF InitiateRead, TypeOK, RequestTypeOK
  <2>3. QED
    BY <1>1, <2>2, RequestStepTypeOK DEF InitiateRead
<1>2. CASE InitiateCreate(q)
  <2>1. RequestTypeOK /\ req[q].pc # "idle" /\ req[q].op = "initiate"
    BY <1>2 DEF InitiateCreate, At, TypeOK
  <2>2. PICK i \in PayIds :
           /\ payment' = [payment EXCEPT ![req[q].rsv][i] = "INITIATED"]
           /\ req' = [req EXCEPT ![q].pc = "gateway", ![q].item = i]
    BY <1>2 DEF InitiateCreate
  <2>3. req[q].rsv \in Reservations /\ "INITIATED" \in PaymentStatus \cup {"ABSENT"}
    BY <2>1, InFlight DEF PaymentStatus
  <2>4. payment' \in [Reservations -> [PayIds -> PaymentStatus \cup {"ABSENT"}]]
    BY <2>2, <2>3, CellTypeOK DEF TypeOK, MoneyTypeOK
  <2>5. [req[q] EXCEPT !.pc = "gateway", !.item = i] \in RequestRecord
    BY <2>1, InFlight DEF RequestRecord, Steps
  <2>6. WellFormed([req[q] EXCEPT !.pc = "gateway", !.item = i])
    BY <2>1, InFlight DEF RequestRecord, WellFormed, SessionRoutes
  <2>7. req' \in [Requests -> RequestRecord] /\ \A p \in Requests : WellFormed(req'[p])
    BY <2>1, <2>2, <2>5, <2>6 DEF RequestTypeOK
  <2>8. payState' \in [Reservations -> ReservationPaymentState]
    BY <1>2 DEF InitiateCreate, TypeOK, ReservationTypeOK, ReservationPaymentState
  <2>9. QED
    BY <1>2, <2>1, <2>4, <2>7, <2>8 DEF InitiateCreate, Overwritten, TypeOK,
       ReservationTypeOK, MoneyTypeOK, SessionTypeOK, CommissionTypeOK, KeyTypeOK,
       EffectTypeOK, RequestTypeOK, commissionVars, effectVars
<1>3. CASE InitiateGateway(q)
  <2>1. RequestTypeOK /\ req[q].pc = "gateway" /\ req[q].pc # "idle" /\ Finish(q)
    BY <1>3 DEF InitiateGateway, At, TypeOK
  <2>2. req' \in [Requests -> RequestRecord] /\ \A p \in Requests : WellFormed(req'[p])
    BY <2>1, FinishTypeOK
  <2>3. req[q].item \in PayIds
    BY <2>1, InFlight DEF WellFormed
  <2>4. checkout' \in [Reservations -> SUBSET PayIds]
    BY <1>3, <2>3 DEF InitiateGateway, TypeOK, MoneyTypeOK
  <2>5. QED
    BY <1>3, <2>1, <2>2, <2>4 DEF InitiateGateway, TypeOK, ReservationTypeOK,
       MoneyTypeOK, SessionTypeOK, CommissionTypeOK, KeyTypeOK, EffectTypeOK,
       RequestTypeOK, reservationVars, commissionVars, effectVars
<1>4. QED
  BY <1>1, <1>2, <1>3

\* Finding, creating and closing an event's key keeps the types.
LEMMA DeliveryTypeOK ==
    ASSUME TypeOK, NEW q \in Requests, NEW r \in Reservations, NEW i \in PayIds,
           NEW e \in PaymentEvents,
           \/ FindKey(q, r, i, e) \/ CreateKey(q) \/ ReadPayment(q)
           \/ MarkCompleted(q) \/ MarkFailed(q)
    PROVE  TypeOK'
<1>1. CASE FindKey(q, r, i, e)
  <2> DEFINE call == [Call("webhook", "createKey", r) EXCEPT !.item = i, !.event = e]
  <2>1. call \in RequestRecord /\ WellFormed(call)
    BY DEF Call, Idle, RequestRecord, Steps, WellFormed, Operations, Emitting,
           Auditing, SessionRoutes
  <2>2. RequestTypeOK'
    BY <1>1, <2>1, BeginsTypeOK DEF FindKey, TypeOK, RequestTypeOK
  <2>3. QED
    BY <1>1, <2>2, KeyStepTypeOK DEF FindKey, TypeOK, KeyTypeOK, CommissionTypeOK,
       WebhookUnchanged
<1>2. CASE CreateKey(q) \/ ReadPayment(q) \/ MarkCompleted(q) \/ MarkFailed(q)
  <2>1. RequestTypeOK /\ req[q].pc # "idle" /\ req[q].op = "webhook"
    BY <1>2 DEF CreateKey, ReadPayment, MarkCompleted, MarkFailed, At, TypeOK
  <2>2. \/ Finish(q)
        \/ \E next \in {"read", "ack", "payThenApply", "payThenRefund", "fail"} : Goto(q, next)
    BY <1>2 DEF CreateKey, ReadPayment, MarkCompleted, MarkFailed
  <2>3. req' \in [Requests -> RequestRecord] /\ \A p \in Requests : WellFormed(req'[p])
    BY <2>1, <2>2, InFlight, FinishTypeOK, GotoTypeOK DEF Steps
  <2>4. RequestTypeOK'
    BY <1>2, <2>1, <2>3 DEF CreateKey, ReadPayment, MarkCompleted, MarkFailed, RequestTypeOK
  <2>5. \/ UNCHANGED key
        \/ \E st \in KeyStatus : SetKey(q, st)
    BY <1>2 DEF CreateKey, ReadPayment, MarkCompleted, MarkFailed, KeyStatus
  <2>6. KeyTypeOK'
    BY <2>1, <2>5, SetKeyTypeOK DEF TypeOK, KeyTypeOK
  <2>7. UNCHANGED <<payState, payment, credits, calc>> /\ WebhookUnchanged
    BY <1>2 DEF CreateKey, ReadPayment, MarkCompleted, MarkFailed
  <2>8. QED
    BY <2>4, <2>6, <2>7, KeyStepTypeOK DEF TypeOK, CommissionTypeOK, WebhookUnchanged
<1>3. QED
  BY <1>1, <1>2

\* A provider event's read and its first UPDATE keep the types.
LEMMA PaidTypeOK ==
    ASSUME TypeOK, NEW q \in Requests,
           PayThenApply(q) \/ PayThenRefund(q) \/ ApplyToReservation(q)
    PROVE  TypeOK'
<1>1. /\ RequestTypeOK /\ req[q].pc # "idle" /\ req[q].op = "webhook"
      /\ \E rows \in SUBSET Rows : Lock(q, rows)
      /\ \E next \in {"apply", "refund", "applied"} : Goto(q, next)
      /\ UNCHANGED <<payState, payment, credits, key, snapshot>> /\ WebhookUnchanged
  <2>1. RequestTypeOK /\ req[q].pc # "idle" /\ req[q].op = "webhook"
    BY DEF PayThenApply, PayThenRefund, LockPayment, ApplyToReservation, At, TypeOK
  <2>2. req[q].item \in PayIds
    BY <2>1, InFlight DEF WellFormed
  <2>3. /\ {ReservationRow(req[q].rsv)} \in SUBSET Rows
        /\ {PaymentRow(req[q].rsv, req[q].item)} \in SUBSET Rows
    BY <2>1, <2>2, InFlight
  <2>4. QED
    BY <2>1, <2>3 DEF PayThenApply, PayThenRefund, LockPayment, ApplyToReservation
<1>2. req' \in [Requests -> RequestRecord] /\ \A p \in Requests : WellFormed(req'[p])
  BY <1>1, InFlight, GotoTypeOK DEF Steps
<1>3. RequestTypeOK'
  BY <1>1, <1>2, LockTypeOK DEF RequestTypeOK
<1>4. calc' \in [Requests -> CalcRecord]
  <2>1. req[q].rsv \in Reservations
    BY <1>1, InFlight
  <2>2. QED
    BY <2>1 DEF PayThenApply, PayThenRefund, LockPayment, ApplyToReservation,
       TypeOK, CommissionTypeOK, CalcRecord
<1>5. QED
  BY <1>1, <1>3, <1>4, KeyStepTypeOK DEF TypeOK, KeyTypeOK, CommissionTypeOK,
     WebhookUnchanged

\* What a provider event commits keeps the types.
LEMMA PaymentCommitTypeOK ==
    ASSUME TypeOK, NEW q \in Requests, ApplyCommit(q) \/ RefundedPaymentCommit(q)
    PROVE  TypeOK'
<1>1. /\ RequestTypeOK /\ req[q].pc # "idle" /\ req[q].op = "webhook"
      /\ Goto(q, "ack") /\ Release(q)
      /\ snapshot' \subseteq snapshot
      /\ WebhookUnchanged /\ UNCHANGED <<calc, key>>
  BY DEF ApplyCommit, RefundedPaymentCommit, At, TypeOK, Overwritten
<1>2. /\ req[q].rsv \in Reservations /\ req[q].item \in PayIds
      /\ req[q].event \in PaymentEvents
  BY <1>1, InFlight DEF WellFormed
<1>3. /\ Outcome[req[q].event] \in PaymentStatus \cup {"ABSENT"}
      /\ Outcome[req[q].event] \in ReservationPaymentState
      /\ "PAID" \in PaymentStatus \cup {"ABSENT"}
  BY <1>2 DEF Outcome, PaymentEvents, PaymentStatus, ReservationPaymentState
<1>4. RequestTypeOK'
  <2>1. req' \in [Requests -> RequestRecord] /\ \A p \in Requests : WellFormed(req'[p])
    BY <1>1, InFlight, GotoTypeOK DEF Steps
  <2>2. QED
    BY <1>1, <2>1, ReleaseTypeOK DEF RequestTypeOK
<1>5. ASSUME NEW to \in PaymentStatus \cup {"ABSENT"}
      PROVE  [payment EXCEPT ![req[q].rsv][req[q].item] = to]
                \in [Reservations -> [PayIds -> PaymentStatus \cup {"ABSENT"}]]
  BY <1>2, CellTypeOK DEF TypeOK, MoneyTypeOK
<1>6. /\ payment' \in [Reservations -> [PayIds -> PaymentStatus \cup {"ABSENT"}]]
      /\ credits' \in [Reservations -> [PayIds -> Nat]]
      /\ payState' \in [Reservations -> ReservationPaymentState]
  <2>1. CASE ApplyCommit(q)
    BY <2>1, <1>3, <1>5 DEF ApplyCommit, TypeOK, MoneyTypeOK, ReservationTypeOK
  <2>2. CASE RefundedPaymentCommit(q)
    <3>1. CASE RefundCommitted(q)
      BY <3>1, <1>2, RefundCommittedTypeOK
    <3>2. CASE ~RefundCommitted(q)
      BY <2>2, <3>2, <1>3, <1>5
         DEF RefundedPaymentCommit, TypeOK, MoneyTypeOK, ReservationTypeOK
    <3>3. QED
      BY <3>1, <3>2
  <2>3. QED
    BY <2>1, <2>2
<1>7. QED
  BY <1>1, <1>4, <1>6 DEF WebhookUnchanged, TypeOK, ReservationTypeOK, MoneyTypeOK,
     SessionTypeOK, CommissionTypeOK, KeyTypeOK, EffectTypeOK, effectVars
----------------------------------------------------------------------------
(* Gaming sessions and commissions.                                        *)

\* The gaming session routes keep the types.
LEMMA SessionRouteTypeOK ==
    ASSUME TypeOK, NEW q \in Requests, NEW r \in Reservations,
           \/ SessionStartRead(q, r) \/ SessionStartWrite(q) \/ SessionWrite(q)
           \/ PauseSessionRead(q, r) \/ ResumeSessionRead(q, r) \/ StopSessionRead(q, r)
    PROVE  TypeOK'
<1> USE DEF Operations, Emitting, Auditing, Cancels, SessionRoutes
<1>1. SessionUnchanged
  BY DEF SessionStartRead, SessionStartWrite, SessionWrite, PauseSessionRead,
         ResumeSessionRead, StopSessionRead, SessionRead
<1>2. /\ req' \in [Requests -> RequestRecord] /\ \A p \in Requests : WellFormed(req'[p])
      /\ SessionTypeOK'
  <2>1. CASE SessionStartRead(q, r)
    <3> DEFINE call == Call("sessionStart", "sessionWrite", r)
    <3>1. call \in RequestRecord /\ WellFormed(call)
      BY DEF Call, Idle, RequestRecord, Steps, WellFormed
    <3>2. QED
      BY <2>1, <3>1, BeginsTypeOK DEF SessionStartRead, TypeOK, SessionTypeOK
  <2>2. ASSUME NEW o \in SessionRoutes, SessionRead(q, o, r)
        PROVE  /\ req' \in [Requests -> RequestRecord]
               /\ \A p \in Requests : WellFormed(req'[p])
               /\ SessionTypeOK'
    <3>1. PICK s \in SessionIds :
             Begins(q, [Call(o, "sessionWrite", r) EXCEPT !.item = s])
      BY <2>2 DEF SessionRead, SessionsIn
    <3> DEFINE call == [Call(o, "sessionWrite", r) EXCEPT !.item = s]
    <3>2. call \in RequestRecord /\ WellFormed(call)
      BY DEF Call, Idle, RequestRecord, Steps, WellFormed
    <3>3. QED
      BY <2>2, <3>1, <3>2, BeginsTypeOK DEF SessionRead, TypeOK, SessionTypeOK
  <2>3. CASE PauseSessionRead(q, r) \/ ResumeSessionRead(q, r) \/ StopSessionRead(q, r)
    BY <2>2, <2>3 DEF PauseSessionRead, ResumeSessionRead, StopSessionRead
  <2>4. CASE SessionStartWrite(q) \/ SessionWrite(q)
    <3>1. RequestTypeOK /\ req[q].pc # "idle" /\ Finish(q)
      BY <2>4 DEF SessionStartWrite, SessionWrite, At, TypeOK
    <3>2. PICK s \in SessionIds, st \in GamingSessionStatus \cup {"ABSENT"} :
             session' = [session EXCEPT ![req[q].rsv][s] = st]
      <4>1. CASE SessionStartWrite(q)
        BY <4>1 DEF SessionStartWrite, SessionsIn, GamingSessionStatus
      <4>2. CASE SessionWrite(q)
        <5>1. req[q].op \in SessionRoutes /\ req[q].item \in SessionIds
          BY <4>2, <3>1, InFlight DEF SessionWrite, At, WellFormed
        <5>2. SessionTarget[req[q].op] \in GamingSessionStatus \cup {"ABSENT"}
          BY <5>1 DEF SessionTarget, GamingSessionStatus
        <5>3. QED
          BY <4>2, <5>1, <5>2 DEF SessionWrite
      <4>3. QED
        BY <2>4, <4>1, <4>2
    <3>3. SessionTypeOK'
      BY <3>1, <3>2, InFlight, CellTypeOK DEF TypeOK, SessionTypeOK
    <3>4. QED
      BY <3>1, <3>3, FinishTypeOK
  <2>5. QED
    BY <2>1, <2>3, <2>4
<1>3. QED
  BY <1>1, <1>2 DEF SessionUnchanged, TypeOK, ReservationTypeOK, MoneyTypeOK,
     CommissionTypeOK, KeyTypeOK, EffectTypeOK, RequestTypeOK, reservationVars,
     moneyVars, commissionVars, effectVars

\* calculateCommission keeps the types.
LEMMA CalculationTypeOK ==
    ASSUME TypeOK, NEW q \in Requests, CalculateRead(q) \/ CreateEarning(q)
    PROVE  TypeOK'
<1>1. CommissionTypeOK'
  BY DEF CalculateRead, CreateEarning, TypeOK, CommissionTypeOK, CalcRecord, NoCalc,
         EarningStatus
<1>2. CalcUnchanged
  BY DEF CalculateRead, CreateEarning
<1>3. QED
  BY <1>1, <1>2 DEF CalcUnchanged, TypeOK, ReservationTypeOK, MoneyTypeOK,
     SessionTypeOK, KeyTypeOK, EffectTypeOK, RequestTypeOK, reservationVars,
     moneyVars, effectVars, requestVars
----------------------------------------------------------------------------
(* Failures.                                                               *)

\* Failed statements, crashes and failed calculations keep the types.
LEMMA FailureTypeOK ==
    ASSUME TypeOK, NEW q \in Requests, Abort(q) \/ Crash(q) \/ CalculateFails(q)
    PROVE  TypeOK'
<1>1. RequestTypeOK'
  <2>1. CASE Abort(q)
    <3>1. RequestTypeOK /\ req[q].pc # "idle" /\ Rollback(q)
      BY <2>1 DEF Abort, MayFail, At, TypeOK
    <3>2. Finish(q) \/ Goto(q, "fail")
      BY <2>1 DEF Abort
    <3>3. req' \in [Requests -> RequestRecord] /\ \A p \in Requests : WellFormed(req'[p])
      BY <3>1, <3>2, InFlight, FinishTypeOK, GotoTypeOK DEF Steps
    <3>4. QED
      BY <3>1, <3>3, ReleaseTypeOK DEF RequestTypeOK, Rollback
  <2>2. CASE Crash(q)
    BY <2>2, RejectTypeOK DEF Crash, TypeOK
  <2>3. CASE CalculateFails(q)
    BY <2>3 DEF CalculateFails, requestVars, TypeOK, RequestTypeOK
  <2>4. QED
    BY <2>1, <2>2, <2>3
<1>2. CommissionTypeOK'
  BY DEF Abort, Crash, CalculateFails, DataUnchanged, TypeOK, CommissionTypeOK,
         CalcRecord, NoCalc
<1>3. DataUnchanged /\ UNCHANGED key
  BY DEF Abort, Crash, CalculateFails
<1>4. QED
  BY <1>1, <1>2, <1>3 DEF DataUnchanged, TypeOK, ReservationTypeOK, MoneyTypeOK,
     SessionTypeOK, KeyTypeOK, EffectTypeOK, reservationVars, moneyVars, effectVars

\* The expiry of a key keeps the types.
LEMMA ExpiryTypeOK ==
    ASSUME TypeOK, NEW r \in Reservations, NEW i \in PayIds, NEW e \in PaymentEvents,
           KeyExpires(r, i, e)
    PROVE  TypeOK'
<1> DEFINE Cell == [PaymentEvents -> KeyStatus \cup {None}]
           events == [key[r][i] EXCEPT ![e] = None]
           items == [key[r] EXCEPT ![i] = events]
<1>1. key \in [Reservations -> [PayIds -> Cell]]
  BY DEF TypeOK, KeyTypeOK
<1>2. key' = [key EXCEPT ![r] = items]
  BY DEF KeyExpires
<1>3. events \in Cell
  BY <1>1
<1> HIDE DEF Cell, events
<1>4. items \in [PayIds -> Cell]
  BY <1>1, <1>3
<1> HIDE DEF items
<1>5. key' \in [Reservations -> [PayIds -> Cell]]
  BY <1>1, <1>2, <1>4
<1>6. KeyTypeOK'
  BY <1>5 DEF KeyTypeOK, Cell
<1>7. QED
  BY <1>6 DEF KeyExpires, DataUnchanged, TypeOK, ReservationTypeOK, MoneyTypeOK,
     SessionTypeOK, CommissionTypeOK, EffectTypeOK, RequestTypeOK, reservationVars,
     moneyVars, effectVars, requestVars
----------------------------------------------------------------------------
(* Type correctness.                                                       *)

\* The empty database is well typed.
LEMMA InitTypeOK == ASSUME Init PROVE TypeOK
<1>1. ReservationTypeOK /\ MoneyTypeOK /\ SessionTypeOK
  BY DEF Init, ReservationTypeOK, MoneyTypeOK, SessionTypeOK, Sources,
         ReservationPaymentState
<1>2. CommissionTypeOK /\ KeyTypeOK /\ EffectTypeOK
  BY DEF Init, CommissionTypeOK, KeyTypeOK, EffectTypeOK, CalcRecord, NoCalc
<1>3. RequestTypeOK
  BY DEF Init, RequestTypeOK, RequestRecord, Idle, Steps, WellFormed
<1>4. QED
  BY <1>1, <1>2, <1>3 DEF TypeOK

\* A step that changes nothing keeps the types.
LEMMA StutterTypeOK == ASSUME TypeOK, UNCHANGED vars PROVE TypeOK'
  BY DEF vars, reservationVars, moneyVars, commissionVars, effectVars, requestVars,
         TypeOK, ReservationTypeOK, MoneyTypeOK, SessionTypeOK, CommissionTypeOK,
         KeyTypeOK, EffectTypeOK, RequestTypeOK

\* Every step keeps the types: one case per action of Next.
LEMMA NextTypeOK == ASSUME TypeOK, [Next]_vars PROVE TypeOK'
<1>1. ASSUME NEW q \in Requests, Arrives(q) PROVE TypeOK'
  <2>1. PICK r \in Reservations :
           \/ \E k \in Slots :
                 CreateReservation(q, r, k) \/ PublicCheck(q, r, k) \/ UpdateRead(q, r, k)
           \/ ConfirmRead(q, r) \/ CancelRead(q, r) \/ CustomerCancelRead(q, r)
           \/ StartRead(q, r) \/ CompleteRead(q, r) \/ NoShowRead(q, r)
           \/ InitiateRead(q, r)
           \/ \E i \in PayIds, e \in Reported : FindKey(q, r, i, e)
           \/ SessionStartRead(q, r) \/ PauseSessionRead(q, r)
           \/ ResumeSessionRead(q, r) \/ StopSessionRead(q, r)
    BY <1>1 DEF Arrives
  <2>2. \A e \in Reported : e \in PaymentEvents
    BY ReportedAssumption DEF PaymentEvents
  <2>3. QED
    BY <2>1, <2>2, CreationTypeOK, UpdateTypeOK, ConfirmNoShowTypeOK, CancelTypeOK,
       StartTypeOK, CompleteTypeOK, InitiateTypeOK, DeliveryTypeOK, SessionRouteTypeOK
<1>2. ASSUME NEW q \in Requests, Proceeds(q) PROVE TypeOK'
  <2>1. req[q].rsv \in Reservations
    <3>1. req[q].pc # "idle"
      BY <1>2 DEF Proceeds, PublicInsert, UpdateWrite, UpdateConflict, UpdateCommit,
         ConfirmWrite, NoShowWrite, CancelWrite, CancelCommit, StartWrite, StartSession,
         StartCommit, CompleteWrite, EndSession, CompleteCommit, RecordAudit, Emit,
         CallCommission, RefundSelect, RefundCredit, RefundState, RefundSweep,
         RefundStep, InitiateCreate, InitiateGateway, CreateKey, ReadPayment,
         PayThenApply, PayThenRefund, LockPayment, ApplyToReservation, ApplyCommit,
         RefundedPaymentCommit, MarkCompleted, MarkFailed, SessionStartWrite,
         SessionWrite, LockReservation, At
    <3>2. QED
      BY <3>1, InFlight DEF TypeOK
  <2>2. CASE PublicInsert(q) \/ UpdateCommit(q)
    <3>1. req[q].slot \in Slots
      BY <2>2, InFlight DEF PublicInsert, UpdateCommit, At, WellFormed, TypeOK
    <3>2. QED
      BY <2>1, <2>2, <3>1, CreationTypeOK, UpdateTypeOK
  <2>3. CASE UpdateWrite(q) \/ UpdateConflict(q)
    <3>1. req[q].slot \in Slots
      BY <2>3, InFlight DEF UpdateWrite, LockReservation, UpdateConflict, At, WellFormed, TypeOK
    <3>2. QED
      BY <2>1, <2>3, <3>1, UpdateTypeOK
  <2>4. CASE \/ ConfirmWrite(q) \/ NoShowWrite(q) \/ CancelWrite(q) \/ CancelCommit(q)
             \/ StartWrite(q) \/ StartSession(q) \/ StartCommit(q)
             \/ CompleteWrite(q) \/ EndSession(q) \/ CompleteCommit(q)
    BY <2>1, <2>4, ConfirmNoShowTypeOK, CancelTypeOK, StartTypeOK, CompleteTypeOK
  <2>5. CASE \/ RecordAudit(q) \/ Emit(q) \/ CallCommission(q)
             \/ RefundSelect(q) \/ RefundCredit(q) \/ RefundState(q) \/ RefundSweep(q)
    BY <2>5, AfterwardsTypeOK, RefundTypeOK
  <2>6. CASE CreateKey(q) \/ ReadPayment(q) \/ MarkCompleted(q) \/ MarkFailed(q)
    <3>1. req[q].item \in PayIds /\ req[q].event \in PaymentEvents
      BY <2>6, InFlight DEF CreateKey, ReadPayment, MarkCompleted, MarkFailed, At,
         WellFormed, TypeOK
    <3>2. QED
      BY <2>1, <2>6, <3>1, DeliveryTypeOK
  <2>7. CASE \/ InitiateCreate(q) \/ InitiateGateway(q)
             \/ PayThenApply(q) \/ PayThenRefund(q) \/ ApplyToReservation(q)
             \/ ApplyCommit(q) \/ RefundedPaymentCommit(q)
             \/ SessionStartWrite(q) \/ SessionWrite(q)
    BY <2>1, <2>7, InitiateTypeOK, PaidTypeOK, PaymentCommitTypeOK, SessionRouteTypeOK
  <2>8. QED
    BY <1>2, <2>2, <2>3, <2>4, <2>5, <2>6, <2>7 DEF Proceeds
<1>3. QED
  BY <1>1, <1>2, CalculationTypeOK, FailureTypeOK, ExpiryTypeOK, StutterTypeOK
     DEF Next, Calculates

\* Whatever the numbers of reservations, payments, sessions and requests,
\* every table, key and request keeps its type and its shape.
THEOREM TypeCorrect == Spec => []TypeOK
<1>1. Init => TypeOK
  BY InitTypeOK
<1>2. TypeOK /\ [Next]_vars => TypeOK'
  BY NextTypeOK
<1>3. QED
  BY <1>1, <1>2, PTL DEF Spec
----------------------------------------------------------------------------
(* Rows, locks and snapshots.                                              *)

\* A step of one request.
Step(q) ==
    Arrives(q) \/ Proceeds(q) \/ Calculates(q) \/ Abort(q) \/ Crash(q) \/ CalculateFails(q)

\* A request that only moves on keeps everything else it knows.
LEMMA GotoKeeps ==
    ASSUME TypeOK, NEW q \in Requests, NEW step \in Steps, Goto(q, step)
    PROVE  /\ req'[q].pc = step /\ req'[q].op = req[q].op /\ req'[q].rsv = req[q].rsv
           /\ req'[q].due = req[q].due
           /\ \A p \in Requests \ {q} : req'[p] = req[p]
  BY DEF Goto, TypeOK, RequestTypeOK, RequestRecord

\* What every first step has in common.
LEMMA ArrivalBegins ==
    ASSUME NEW q \in Requests, Arrives(q)
    PROVE  /\ req[q] = Idle /\ \E call : Begins(q, call)
           /\ UNCHANGED locks
           /\ snapshot' \subseteq snapshot \cup {q}
<1>1. PICK r \in Reservations :
         \/ \E k \in Slots :
               CreateReservation(q, r, k) \/ PublicCheck(q, r, k) \/ UpdateRead(q, r, k)
         \/ ConfirmRead(q, r) \/ CancelRead(q, r) \/ CustomerCancelRead(q, r)
         \/ StartRead(q, r) \/ CompleteRead(q, r) \/ NoShowRead(q, r)
         \/ InitiateRead(q, r)
         \/ \E i \in PayIds, e \in Reported : FindKey(q, r, i, e)
         \/ SessionStartRead(q, r) \/ PauseSessionRead(q, r)
         \/ ResumeSessionRead(q, r) \/ StopSessionRead(q, r)
  BY DEF Arrives
<1>2. /\ \E call : Begins(q, call)
      /\ UNCHANGED locks
      /\ UNCHANGED snapshot \/ snapshot' = snapshot \cup {q}
  <2>1. CASE \E k \in Slots :
                CreateReservation(q, r, k) \/ PublicCheck(q, r, k) \/ UpdateRead(q, r, k)
    BY <2>1 DEF CreateReservation, PublicCheck, UpdateRead
  <2>2. CASE \/ ConfirmRead(q, r) \/ CancelRead(q, r) \/ CustomerCancelRead(q, r)
             \/ StartRead(q, r) \/ CompleteRead(q, r) \/ NoShowRead(q, r)
    BY <2>2 DEF ConfirmRead, CancelRead, CustomerCancelRead, StartRead, CompleteRead,
       NoShowRead, ReadAndValidate
  <2>3. CASE \/ InitiateRead(q, r)
             \/ \E i \in PayIds, e \in Reported : FindKey(q, r, i, e)
    BY <2>3 DEF InitiateRead, FindKey
  <2>4. CASE \/ SessionStartRead(q, r) \/ PauseSessionRead(q, r)
             \/ ResumeSessionRead(q, r) \/ StopSessionRead(q, r)
    BY <2>4 DEF SessionStartRead, PauseSessionRead, ResumeSessionRead, StopSessionRead,
       SessionRead, SessionUnchanged
  <2>5. QED
    BY <1>1, <2>1, <2>2, <2>3, <2>4
<1>3. QED
  BY <1>2 DEF Begins

\* A request acts on its own record and its own locks only.
LEMMA ActsAlone ==
    ASSUME TypeOK, NEW q \in Requests, Step(q)
    PROVE  \A p \in Requests \ {q} : req'[p] = req[p] /\ locks'[p] = locks[p]
<1> USE DEF TypeOK, RequestTypeOK, Goto, Finish, Reject, Rollback, Release, Lock
<1>1. CASE Arrives(q)
  BY <1>1, ArrivalBegins DEF Begins
<1>2. CASE \/ PublicInsert(q) \/ UpdateWrite(q) \/ UpdateConflict(q) \/ UpdateCommit(q)
           \/ ConfirmWrite(q) \/ NoShowWrite(q) \/ CancelWrite(q) \/ CancelCommit(q)
           \/ StartWrite(q) \/ StartSession(q) \/ StartCommit(q)
           \/ CompleteWrite(q) \/ EndSession(q) \/ CompleteCommit(q)
  BY <1>2 DEF PublicInsert, UpdateWrite, UpdateConflict, UpdateCommit, ConfirmWrite,
     NoShowWrite, CancelWrite, CancelCommit, StartWrite, StartSession, StartCommit,
     CompleteWrite, EndSession, CompleteCommit, LockReservation
<1>3. CASE \/ RecordAudit(q) \/ Emit(q) \/ CallCommission(q)
           \/ RefundSelect(q) \/ RefundCredit(q) \/ RefundState(q) \/ RefundSweep(q)
  BY <1>3 DEF RecordAudit, Emit, CallCommission, RefundSelect, RefundCredit, RefundState,
     RefundSweep, RefundStep
<1>4. CASE \/ InitiateCreate(q) \/ InitiateGateway(q)
           \/ CreateKey(q) \/ ReadPayment(q) \/ PayThenApply(q) \/ PayThenRefund(q)
           \/ ApplyToReservation(q) \/ ApplyCommit(q) \/ RefundedPaymentCommit(q)
           \/ MarkCompleted(q) \/ MarkFailed(q)
  BY <1>4 DEF InitiateCreate, InitiateGateway, CreateKey, ReadPayment, PayThenApply,
     PayThenRefund, LockPayment, ApplyToReservation, ApplyCommit, RefundedPaymentCommit,
     MarkCompleted, MarkFailed
<1>5. CASE \/ SessionStartWrite(q) \/ SessionWrite(q) \/ Calculates(q)
           \/ Abort(q) \/ Crash(q) \/ CalculateFails(q)
  BY <1>5 DEF SessionStartWrite, SessionWrite, SessionUnchanged, Calculates, CalculateRead,
     CreateEarning, CalcUnchanged, requestVars, Abort, Crash, CalculateFails
<1>6. QED
  BY <1>1, <1>2, <1>3, <1>4, <1>5 DEF Step, Proceeds

\* No step gives a request a row that another one holds.
LEMMA LocksStayExclusive ==
    ASSUME TypeOK, LocksExclusive, NEW q \in Requests, Step(q)
    PROVE  LocksExclusive'
<1>1. \/ locks'[q] \subseteq locks[q]
      \/ \E rows \in SUBSET Rows : CanLock(q, rows) /\ locks'[q] \subseteq locks[q] \cup rows
  <2> USE DEF TypeOK, RequestTypeOK, Reject, Rollback, Release
  <2>1. CASE Arrives(q)
    BY <2>1, ArrivalBegins
  <2>2. CASE \/ PublicInsert(q) \/ UpdateConflict(q) \/ UpdateCommit(q) \/ ConfirmWrite(q)
             \/ NoShowWrite(q) \/ CancelCommit(q) \/ StartSession(q) \/ StartCommit(q)
             \/ EndSession(q) \/ CompleteCommit(q) \/ RecordAudit(q) \/ Emit(q)
             \/ CallCommission(q) \/ RefundSelect(q) \/ InitiateCreate(q)
             \/ InitiateGateway(q) \/ CreateKey(q) \/ ReadPayment(q) \/ ApplyCommit(q)
             \/ RefundedPaymentCommit(q) \/ MarkCompleted(q) \/ MarkFailed(q)
             \/ SessionStartWrite(q) \/ SessionWrite(q) \/ Calculates(q)
             \/ Abort(q) \/ Crash(q) \/ CalculateFails(q)
    BY <2>2 DEF PublicInsert, UpdateConflict, UpdateCommit, ConfirmWrite, NoShowWrite,
       CancelCommit, StartSession, StartCommit, EndSession, CompleteCommit, RecordAudit,
       Emit, CallCommission, RefundSelect, InitiateCreate, InitiateGateway, CreateKey,
       ReadPayment, ApplyCommit, RefundedPaymentCommit, MarkCompleted, MarkFailed,
       SessionStartWrite, SessionWrite, SessionUnchanged, Calculates, CalculateRead,
       CreateEarning, CalcUnchanged, requestVars, Abort, Crash, CalculateFails
  <2>3. ASSUME NEW rows \in SUBSET Rows, Lock(q, rows)
        PROVE  CanLock(q, rows) /\ locks'[q] \subseteq locks[q] \cup rows
    BY <2>3 DEF Lock
  <2>4. CASE \/ UpdateWrite(q) \/ CancelWrite(q) \/ StartWrite(q) \/ CompleteWrite(q)
             \/ RefundCredit(q) \/ RefundState(q) \/ RefundSweep(q)
             \/ PayThenApply(q) \/ PayThenRefund(q) \/ ApplyToReservation(q)
    <3>1. req[q].pc # "idle" /\ (req[q].op = "webhook" => req[q].item \in PayIds)
      BY <2>4, InFlight DEF UpdateWrite, CancelWrite, StartWrite, CompleteWrite,
         LockReservation, RefundCredit, RefundState, RefundSweep, RefundStep,
         PayThenApply, PayThenRefund, LockPayment, ApplyToReservation, At, WellFormed
    <3>2. /\ {ReservationRow(req[q].rsv)} \in SUBSET Rows
          /\ {AccountRow(req[q].rsv)} \in SUBSET Rows
          /\ req[q].op = "webhook" => {PaymentRow(req[q].rsv, req[q].item)} \in SUBSET Rows
          /\ {PaymentRow(req[q].rsv, i) : i \in PaidOf(req[q].rsv)} \in SUBSET Rows
      BY <3>1, InFlight DEF PaidOf
    <3>3. \E rows \in SUBSET Rows : Lock(q, rows)
      BY <2>4, <3>2 DEF UpdateWrite, CancelWrite, StartWrite, CompleteWrite,
         LockReservation, RefundCredit, RefundState, RefundSweep, RefundStep,
         PayThenApply, PayThenRefund, LockPayment, ApplyToReservation, At
    <3>4. QED
      BY <2>3, <3>3
  <2>5. QED
    BY <2>1, <2>2, <2>4 DEF Step, Proceeds
<1>2. QED
  BY <1>1, ActsAlone DEF LocksExclusive, CanLock

\* The fields of a first step, whatever else the handler adds to them.
Calls(c, o, step, r) == c.op = o /\ c.pc = step /\ c.rsv = r /\ c.due = {}

\* What a new call holds.
LEMMA CallFields ==
    ASSUME NEW o, NEW step, NEW r, NEW x, NEW y
    PROVE  /\ Calls(Call(o, step, r), o, step, r)
           /\ Calls([Call(o, step, r) EXCEPT !.seen = x], o, step, r)
           /\ Calls([Call(o, step, r) EXCEPT !.slot = x], o, step, r)
           /\ Calls([Call(o, step, r) EXCEPT !.item = x], o, step, r)
           /\ Calls([Call(o, step, r) EXCEPT !.item = x, !.event = y], o, step, r)
  BY DEF Calls, Call, Idle

\* A request that begins holds the call it began with, the others theirs.
LEMMA BeginsCalls ==
    ASSUME TypeOK, NEW q \in Requests, NEW c, NEW o, NEW step, NEW r,
           Begins(q, c), Calls(c, o, step, r)
    PROVE  Calls(req'[q], o, step, r) /\ req'[q].op \in Enabled
<1>1. req'[q] = c /\ c.op \in Enabled
  BY DEF Begins, TypeOK, RequestTypeOK
<1>2. QED
  BY <1>1 DEF Calls

\* What a request knows when its first statement has run.
LEMMA ArrivalKnows ==
    ASSUME TypeOK, NEW q \in Requests, Arrives(q)
    PROVE  /\ req'[q].due = {}
           /\ req'[q].pc \in {"write", "insert", "emit", "create", "createKey", "sessionWrite"}
           /\ req'[q].rsv \in Reservations
           /\ req'[q].op = "createPublic" => Unclaimed(req'[q].rsv)
           /\ req'[q].op \in Validated => Exists(req'[q].rsv)
           /\ req'[q].op \in Enabled
           /\ \/ UNCHANGED <<status, snapshot>>
              \/ /\ req'[q].op = "update" /\ req'[q].pc = "write"
                 /\ status[req'[q].rsv] \notin TerminalStates
                 /\ UNCHANGED status /\ snapshot' = snapshot \cup {q}
              \/ /\ UNCHANGED snapshot /\ req'[q].op = "createPanel"
                 /\ Unclaimed(req'[q].rsv)
                 /\ status' = [status EXCEPT ![req'[q].rsv] = "CONFIRMED"]
<1>1. PICK r \in Reservations :
         \/ \E k \in Slots :
               CreateReservation(q, r, k) \/ PublicCheck(q, r, k) \/ UpdateRead(q, r, k)
         \/ ConfirmRead(q, r) \/ CancelRead(q, r) \/ CustomerCancelRead(q, r)
         \/ StartRead(q, r) \/ CompleteRead(q, r) \/ NoShowRead(q, r)
         \/ InitiateRead(q, r)
         \/ \E i \in PayIds, e \in Reported : FindKey(q, r, i, e)
         \/ SessionStartRead(q, r) \/ PauseSessionRead(q, r)
         \/ ResumeSessionRead(q, r) \/ StopSessionRead(q, r)
  BY DEF Arrives
<1>3. CASE \E k \in Slots : CreateReservation(q, r, k)
  <2>1. Calls(req'[q], "createPanel", "emit", r) /\ req'[q].op \in Enabled
    BY <1>3, CallFields, BeginsCalls DEF CreateReservation
  <2>2. QED
    BY <1>3, <2>1 DEF Calls, CreateReservation, InsertReservation, Validated
<1>4. CASE \E k \in Slots : PublicCheck(q, r, k)
  <2>1. Calls(req'[q], "createPublic", "insert", r) /\ req'[q].op \in Enabled
    BY <1>4, CallFields, BeginsCalls DEF PublicCheck
  <2>2. QED
    BY <1>4, <2>1 DEF Calls, PublicCheck, Validated, reservationVars
<1>5. CASE \E k \in Slots : UpdateRead(q, r, k)
  <2>1. Calls(req'[q], "update", "write", r) /\ req'[q].op \in Enabled
    BY <1>5, CallFields, BeginsCalls DEF UpdateRead
  <2>2. QED
    BY <1>5, <2>1 DEF Calls, UpdateRead, Validated, reservationVars
<1>6. ASSUME NEW o \in Validated, ReadAndValidate(q, o, r)
      PROVE  /\ Calls(req'[q], o, "write", r) /\ req'[q].op \in Enabled
             /\ Exists(r) /\ UNCHANGED <<status, snapshot>>
  BY <1>6, CallFields, BeginsCalls DEF ReadAndValidate, reservationVars
<1>7. CASE \/ ConfirmRead(q, r) \/ CancelRead(q, r) \/ CustomerCancelRead(q, r)
           \/ StartRead(q, r) \/ CompleteRead(q, r) \/ NoShowRead(q, r)
  BY <1>6, <1>7 DEF Calls, ConfirmRead, CancelRead, CustomerCancelRead, StartRead,
     CompleteRead, NoShowRead, Validated
<1>8. CASE InitiateRead(q, r)
  <2>1. Calls(req'[q], "initiate", "create", r) /\ req'[q].op \in Enabled
    BY <1>8, CallFields, BeginsCalls DEF InitiateRead
  <2>2. QED
    BY <1>8, <2>1 DEF Calls, InitiateRead, Validated, reservationVars
<1>9. CASE \E i \in PayIds, e \in Reported : FindKey(q, r, i, e)
  <2>1. Calls(req'[q], "webhook", "createKey", r) /\ req'[q].op \in Enabled
    BY <1>9, CallFields, BeginsCalls DEF FindKey
  <2>2. QED
    BY <1>9, <2>1 DEF Calls, FindKey, WebhookUnchanged, Validated
<1>10. ASSUME NEW o \in SessionRoutes, SessionRead(q, o, r)
       PROVE  /\ Calls(req'[q], o, "sessionWrite", r) /\ req'[q].op \in Enabled
              /\ UNCHANGED <<status, snapshot>>
  BY <1>10, CallFields, BeginsCalls DEF SessionRead, SessionUnchanged, reservationVars
<1>11. CASE PauseSessionRead(q, r) \/ ResumeSessionRead(q, r) \/ StopSessionRead(q, r)
  BY <1>10, <1>11 DEF Calls, PauseSessionRead, ResumeSessionRead, StopSessionRead,
     SessionRoutes, Validated
<1>12. CASE SessionStartRead(q, r)
  <2>1. Calls(req'[q], "sessionStart", "sessionWrite", r) /\ req'[q].op \in Enabled
    BY <1>12, CallFields, BeginsCalls DEF SessionStartRead
  <2>2. QED
    BY <1>12, <2>1 DEF Calls, SessionStartRead, SessionUnchanged, Validated, reservationVars
<1>13. QED
  BY <1>1, <1>3, <1>4, <1>5, <1>7, <1>8, <1>9, <1>11, <1>12

\* A request that ends is idle, the others are as they were.
LEMMA FinishIdles ==
    ASSUME TypeOK, NEW q \in Requests, Finish(q)
    PROVE  req'[q].pc = "idle" /\ req'[q].due = {}
  BY DEF Finish, Idle, TypeOK, RequestTypeOK

\* A transaction that has updated its reservation holds its row until its
\* last step, and a refund is due only once it has been selected.
WriterOK(q) ==
    /\ WritesRow(q) => ReservationRow(req[q].rsv) \in locks[q]
    /\ req[q].pc \in {"write", "createKey", "read", "payThenRefund", "refund"}
          => req[q].due = {}

\* A request's own step leaves it the row while it still writes it.
LEMMA WriterKeepsRow ==
    ASSUME TypeOK, WritersHoldRow, DueIsSelected, NEW q \in Requests, Step(q)
    PROVE  WriterOK(q)'
<1> USE DEF WriterOK, WritesRow
<1>1. WriterOK(q)
  BY DEF WritersHoldRow, DueIsSelected
<1>2. ASSUME Finish(q) PROVE WriterOK(q)'
  BY <1>2, FinishIdles
<1>3. ASSUME NEW step \in Steps, Goto(q, step), UNCHANGED locks,
             \/ step \in {"emit", "commission", "ack", "fail", "read", "payThenApply",
                          "payThenRefund"}
             \/ step = "audit" /\ req[q].op \notin {"update", "start"}
             \/ step \in {"audit", "commit"} /\ WritesRow(q)
             \/ step = "commit" /\ req[q].op = "webhook" /\ req[q].due = {},
             step \in {"read", "payThenRefund"} =>
                req[q].pc \in {"createKey", "read"}
      PROVE  WriterOK(q)'
  <2>1. /\ req'[q].pc = step /\ req'[q].op = req[q].op /\ req'[q].rsv = req[q].rsv
        /\ req'[q].due = req[q].due
    BY <1>3, GotoKeeps
  <2>2. QED
    BY <1>1, <1>3, <2>1 DEF Cancels
<1>4. ASSUME NEW step \in Steps, NEW rows, Goto(q, step), Lock(q, rows),
             ReservationRow(req[q].rsv) \in rows \/ ReservationRow(req[q].rsv) \in locks[q]
                \/ step = "apply"
                \/ (req[q].op = "webhook" /\ step \in {"refund", "refundState"}),
             step \notin {"write", "createKey", "read", "payThenRefund"},
             step = "refund" => req[q].due = {}
      PROVE  WriterOK(q)'
  <2>1. /\ req'[q].pc = step /\ req'[q].op = req[q].op /\ req'[q].rsv = req[q].rsv
        /\ req'[q].due = req[q].due
    BY <1>4, GotoKeeps
  <2>2. locks'[q] = locks[q] \cup rows
    BY <1>4 DEF Lock, TypeOK, RequestTypeOK
  <2>3. QED
    BY <1>4, <2>1, <2>2 DEF Cancels
<1>5. CASE Arrives(q)
  BY <1>5, ArrivalKnows DEF Cancels
<1>6. CASE \/ PublicInsert(q) \/ UpdateConflict(q) \/ UpdateCommit(q) \/ ConfirmWrite(q)
           \/ NoShowWrite(q) \/ CancelCommit(q) \/ StartSession(q) \/ StartCommit(q)
           \/ CompleteCommit(q) \/ RecordAudit(q) \/ Emit(q) \/ CallCommission(q)
  <2>1. RequestTypeOK /\ req[q].pc # "idle"
    BY <1>6 DEF PublicInsert, UpdateConflict, UpdateCommit, ConfirmWrite, NoShowWrite,
       CancelCommit, StartSession, StartCommit, CompleteCommit, RecordAudit, Emit,
       CallCommission, At, TypeOK
  <2>2. CASE \/ PublicInsert(q) \/ ConfirmWrite(q) \/ NoShowWrite(q) \/ Emit(q)
             \/ CallCommission(q) \/ StartCommit(q) \/ UpdateConflict(q)
    BY <1>2, <1>3, <2>2 DEF PublicInsert, ConfirmWrite, NoShowWrite, Emit, CallCommission,
       StartCommit, UpdateConflict, Reject, At, Steps
  <2>3. CASE StartSession(q)
    BY <1>2, <1>3, <2>3 DEF StartSession, Reject, At, Steps
  <2>4. CASE RecordAudit(q)
    <3>1. req[q].op \in Auditing
      BY <2>1, <2>4, InFlight DEF RecordAudit, WellFormed
    <3>2. QED
      BY <1>2, <1>3, <2>4, <3>1 DEF RecordAudit, Auditing, AfterAudit, Steps
  <2>5. CASE UpdateCommit(q) \/ CancelCommit(q) \/ CompleteCommit(q)
    <3>1. PICK step \in {"emit", "audit"} :
             /\ Goto(q, step)
             /\ step = "audit" => req[q].op \notin {"update", "start"}
      BY <2>5 DEF UpdateCommit, CancelCommit, CompleteCommit, At, Cancels
    <3>2. /\ req'[q].pc = step /\ req'[q].op = req[q].op
      BY <3>1, GotoKeeps DEF Steps
    <3>3. QED
      BY <3>1, <3>2 DEF Cancels
  <2>6. QED
    BY <1>6, <2>2, <2>3, <2>4, <2>5
<1>7. CASE \/ UpdateWrite(q) \/ CancelWrite(q) \/ StartWrite(q) \/ CompleteWrite(q)
           \/ RefundCredit(q) \/ RefundState(q) \/ RefundSweep(q)
  BY <1>1, <1>4, <1>7 DEF UpdateWrite, CancelWrite, StartWrite, CompleteWrite,
     LockReservation, RefundCredit, RefundState, RefundSweep, RefundStep, Refunding, At,
     Steps, Cancels
<1>8. CASE RefundSelect(q)
  <2>1. req[q].due = {} /\ UNCHANGED locks /\ req[q].pc = "refund" /\ req[q].op \in Refunding
    BY <1>1, <1>8 DEF RefundSelect, At
  <2>2. CASE Goto(q, "commit")
    BY <1>3, <2>1, <2>2 DEF Refunding, Steps
  <2>3. CASE \E paid : req' = [req EXCEPT ![q].pc = "credit", ![q].due = paid]
    <3>1. req'[q].pc = "credit" /\ req'[q].op = req[q].op /\ req'[q].rsv = req[q].rsv
      BY <2>3 DEF TypeOK, RequestTypeOK, RequestRecord
    <3>2. QED
      BY <1>1, <2>1, <3>1 DEF Refunding, Cancels
  <2>4. QED
    BY <1>8, <2>2, <2>3 DEF RefundSelect
<1>9. CASE EndSession(q)
  <2>1. CASE Finish(q)
    BY <1>2, <2>1
  <2>2. CASE ~Finish(q)
    <3>1. /\ req'[q].pc = "commit" /\ req'[q].op = req[q].op /\ req'[q].rsv = req[q].rsv
          /\ UNCHANGED locks
      BY <1>9, <2>2 DEF EndSession, Reject, TypeOK, RequestTypeOK, RequestRecord
    <3>2. req[q].op = "complete" /\ req[q].pc = "session"
      BY <1>9 DEF EndSession, At
    <3>3. QED
      BY <1>1, <3>1, <3>2 DEF Cancels
  <2>3. QED
    BY <2>1, <2>2
<1>10. CASE \/ InitiateCreate(q) \/ InitiateGateway(q) \/ CreateKey(q) \/ ReadPayment(q)
            \/ MarkCompleted(q) \/ MarkFailed(q)
  <2>1. CASE InitiateCreate(q)
    <3>1. req'[q].pc = "gateway"
      BY <2>1 DEF InitiateCreate, TypeOK, RequestTypeOK, RequestRecord
    <3>2. QED
      BY <3>1
  <2>2. CASE InitiateGateway(q) \/ CreateKey(q) \/ MarkCompleted(q) \/ MarkFailed(q)
    BY <1>2, <1>3, <2>2 DEF InitiateGateway, CreateKey, MarkCompleted, MarkFailed, At, Steps
  <2>3. CASE ReadPayment(q)
    BY <1>3, <2>3 DEF ReadPayment, At, Steps
  <2>4. QED
    BY <1>10, <2>1, <2>2, <2>3
<1>11. CASE PayThenApply(q) \/ PayThenRefund(q) \/ ApplyToReservation(q)
  BY <1>1, <1>4, <1>11 DEF PayThenApply, PayThenRefund, LockPayment, ApplyToReservation,
     At, Steps
<1>12. CASE ApplyCommit(q) \/ RefundedPaymentCommit(q)
  <2>1. Goto(q, "ack")
    BY <1>12 DEF ApplyCommit, RefundedPaymentCommit
  <2>2. req'[q].pc = "ack"
    BY <2>1, GotoKeeps DEF Steps
  <2>3. QED
    BY <2>2
<1>13. CASE \/ SessionStartWrite(q) \/ SessionWrite(q) \/ Calculates(q) \/ CalculateFails(q)
  <2>1. CASE SessionStartWrite(q) \/ SessionWrite(q)
    BY <1>2, <2>1 DEF SessionStartWrite, SessionWrite
  <2>2. CASE Calculates(q) \/ CalculateFails(q)
    BY <1>1, <2>2 DEF Calculates, CalculateRead, CreateEarning, CalcUnchanged,
       CalculateFails, requestVars
  <2>3. QED
    BY <1>13, <2>1, <2>2
<1>14. CASE Abort(q) \/ Crash(q)
  <2>1. CASE Finish(q)
    BY <1>2, <2>1
  <2>2. CASE Goto(q, "fail")
    BY <2>2, GotoKeeps DEF Steps
  <2>3. QED
    BY <1>14, <2>1, <2>2 DEF Abort, Crash, Reject
<1>15. QED
  BY <1>5, <1>6, <1>7, <1>8, <1>9, <1>10, <1>11, <1>12, <1>13, <1>14 DEF Step, Proceeds

\* How a step treats the rows that other requests have read: it leaves them
\* alone, inserts one, or overwrites its own while nobody else holds it.
LeavesRows(q) == UNCHANGED status /\ \A p \in Requests \ {q} : p \in snapshot' <=> p \in snapshot

InsertsRow(q) ==
    \E r \in Reservations, st \in {"CONFIRMED", "PENDING"} :
        /\ Unclaimed(r) \/ (At(q, {"createPublic"}, "insert") /\ r = req[q].rsv)
        /\ status' = [status EXCEPT ![r] = st]
        /\ UNCHANGED snapshot

OverwritesRow(q) ==
    /\ req[q].rsv \in Reservations /\ req[q].pc # "idle"
    /\ Overwritten(req[q].rsv)
    /\ ReservationRow(req[q].rsv) \in locks[q] \/ CanLock(q, {ReservationRow(req[q].rsv)})
    /\ \/ UNCHANGED status
       \/ /\ req[q].op \in Validated
          /\ \E st \in ReservationStatus :
                /\ status' = [status EXCEPT ![req[q].rsv] = st]
                /\ st = "IN_PROGRESS" => StartCommit(q)

\* What a step does to the status of a row and to the snapshots of it.
LEMMA RowEffect ==
    ASSUME TypeOK, WritersHoldRow, NEW q \in Requests, Step(q)
    PROVE  LeavesRows(q) \/ InsertsRow(q) \/ OverwritesRow(q)
<1>1. CASE Arrives(q)
  <2>1. CASE UNCHANGED <<status, snapshot>> \/ (UNCHANGED status /\ snapshot' = snapshot \cup {q})
    BY <2>1 DEF LeavesRows
  <2>2. CASE ~(UNCHANGED <<status, snapshot>> \/ (UNCHANGED status /\ snapshot' = snapshot \cup {q}))
    <3>1. \E r \in Reservations, k \in Slots : CreateReservation(q, r, k)
      BY <1>1, <2>2 DEF Arrives, PublicCheck, UpdateRead, ConfirmRead, CancelRead,
         CustomerCancelRead, StartRead, CompleteRead, NoShowRead, ReadAndValidate,
         InitiateRead, FindKey, WebhookUnchanged, SessionStartRead, PauseSessionRead,
         ResumeSessionRead, StopSessionRead, SessionRead, SessionUnchanged, reservationVars
    <3>2. QED
      BY <3>1 DEF CreateReservation, InsertReservation, InsertsRow
  <2>3. QED
    BY <2>1, <2>2
<1>2. CASE PublicInsert(q)
  <2>1. req[q].rsv \in Reservations
    BY <1>2, InFlight DEF PublicInsert, At, TypeOK
  <2>2. QED
    BY <1>2, <2>1 DEF PublicInsert, InsertReservation, InsertsRow
<1>3. CASE \/ UpdateWrite(q) \/ UpdateConflict(q) \/ CancelWrite(q) \/ StartWrite(q)
           \/ StartSession(q) \/ CompleteWrite(q) \/ EndSession(q)
           \/ RecordAudit(q) \/ Emit(q) \/ CallCommission(q)
           \/ RefundSelect(q) \/ RefundCredit(q) \/ RefundState(q) \/ RefundSweep(q)
  BY <1>3 DEF UpdateWrite, UpdateConflict, CancelWrite, StartWrite, StartSession,
     CompleteWrite, EndSession, LockReservation, RecordAudit, Emit, CallCommission,
     RefundSelect, RefundCredit, RefundState, RefundSweep, RefundStep, Reject, Rollback,
     LeavesRows, reservationVars
<1>4. CASE \/ InitiateGateway(q) \/ CreateKey(q) \/ ReadPayment(q) \/ PayThenApply(q)
           \/ PayThenRefund(q) \/ ApplyToReservation(q) \/ MarkCompleted(q) \/ MarkFailed(q)
           \/ SessionStartWrite(q) \/ SessionWrite(q) \/ Calculates(q)
           \/ Abort(q) \/ Crash(q) \/ CalculateFails(q)
  BY <1>4 DEF InitiateGateway, CreateKey, ReadPayment, PayThenApply, PayThenRefund,
     LockPayment, ApplyToReservation, MarkCompleted, MarkFailed, WebhookUnchanged,
     SessionStartWrite, SessionWrite, SessionUnchanged, Calculates, CalculateRead,
     CreateEarning, CalcUnchanged, Abort, Crash, CalculateFails, DataUnchanged,
     Reject, Rollback, LeavesRows, reservationVars, requestVars
<1>5. CASE \/ UpdateCommit(q) \/ ConfirmWrite(q) \/ NoShowWrite(q) \/ CancelCommit(q)
           \/ StartCommit(q) \/ CompleteCommit(q)
  <2>1. req[q].rsv \in Reservations /\ req[q].pc # "idle"
    BY <1>5, InFlight DEF UpdateCommit, ConfirmWrite, NoShowWrite, CancelCommit,
       StartCommit, CompleteCommit, At, TypeOK
  <2>2. ReservationRow(req[q].rsv) \in locks[q] \/ CanLock(q, {ReservationRow(req[q].rsv)})
    BY <1>5 DEF UpdateCommit, ConfirmWrite, NoShowWrite, CancelCommit, StartCommit,
       CompleteCommit, At, WritersHoldRow, WritesRow
  <2>3. CASE UpdateCommit(q)
    BY <2>1, <2>2, <2>3 DEF UpdateCommit, OverwritesRow
  <2>4. CASE ~UpdateCommit(q)
    <3>1. req[q].op \in Validated /\ \E stamped : SetStatus(q, stamped)
      BY <1>5, <2>4 DEF ConfirmWrite, NoShowWrite, CancelCommit, StartCommit,
         CompleteCommit, At, Validated, Cancels
    <3>2. /\ Target[req[q].op] \in ReservationStatus
          /\ Target[req[q].op] = "IN_PROGRESS" => req[q].op = "start"
      BY <3>1 DEF Target, Validated, ReservationStatus
    <3>3. req[q].op = "start" => StartCommit(q)
      BY <1>5, <2>4 DEF ConfirmWrite, NoShowWrite, CancelCommit, CompleteCommit, At, Cancels
    <3>4. QED
      BY <2>1, <2>2, <3>1, <3>2, <3>3 DEF SetStatus, OverwritesRow
  <2>5. QED
    BY <2>3, <2>4
<1>6. CASE InitiateCreate(q) \/ ApplyCommit(q)
  <2>1. req[q].rsv \in Reservations /\ req[q].pc # "idle"
    BY <1>6, InFlight DEF InitiateCreate, ApplyCommit, At, TypeOK
  <2>2. QED
    BY <1>6, <2>1 DEF InitiateCreate, ApplyCommit, WebhookUnchanged, At, WritersHoldRow,
       WritesRow, OverwritesRow
<1>7. CASE RefundedPaymentCommit(q)
  <2>1. req[q].rsv \in Reservations /\ req[q].pc # "idle"
    BY <1>7, InFlight DEF RefundedPaymentCommit, At, TypeOK
  <2>2. CASE UNCHANGED snapshot
    BY <1>7, <2>2 DEF RefundedPaymentCommit, WebhookUnchanged, LeavesRows
  <2>3. CASE req[q].due # {} /\ Overwritten(req[q].rsv)
    BY <1>7, <2>1, <2>3 DEF RefundedPaymentCommit, WebhookUnchanged, At, WritersHoldRow,
       WritesRow, OverwritesRow
  <2>4. QED
    BY <1>7, <2>2, <2>3 DEF RefundedPaymentCommit
<1>8. QED
  BY <1>1, <1>2, <1>3, <1>4, <1>5, <1>6, <1>7 DEF Step, Proceeds

\* A request under way finishes, or keeps its operation and reservation; it
\* takes no new snapshot.
LEMMA ProceedsKeeps ==
    ASSUME TypeOK, NEW q \in Requests, Proceeds(q)
    PROVE  /\ snapshot' \subseteq snapshot
           /\ req[q].pc # "idle"
           /\ \/ req'[q] = Idle
              \/ /\ req'[q].op = req[q].op /\ req'[q].rsv = req[q].rsv
                 /\ req'[q].pc \notin {"insert", "idle"}
<1>1. ASSUME Finish(q) PROVE req'[q] = Idle
  BY <1>1 DEF Finish, TypeOK, RequestTypeOK
<1>2. ASSUME NEW step \in Steps \ {"insert", "idle"}, Goto(q, step)
      PROVE  /\ req'[q].op = req[q].op /\ req'[q].rsv = req[q].rsv
             /\ req'[q].pc \notin {"insert", "idle"}
  BY <1>2, GotoKeeps
<1>3. CASE \/ PublicInsert(q) \/ UpdateWrite(q) \/ UpdateConflict(q) \/ UpdateCommit(q)
           \/ ConfirmWrite(q) \/ NoShowWrite(q) \/ CancelWrite(q) \/ CancelCommit(q)
           \/ StartWrite(q) \/ StartSession(q) \/ StartCommit(q)
           \/ CompleteWrite(q) \/ CompleteCommit(q)
  BY <1>1, <1>2, <1>3 DEF PublicInsert, UpdateWrite, UpdateConflict, UpdateCommit,
     ConfirmWrite, NoShowWrite, CancelWrite, CancelCommit, StartWrite, StartSession,
     StartCommit, CompleteWrite, CompleteCommit, LockReservation, SetStatus, Overwritten,
     Reject, Rollback, At, Steps
<1>4. CASE \/ RecordAudit(q) \/ Emit(q) \/ CallCommission(q)
           \/ RefundCredit(q) \/ RefundState(q) \/ RefundSweep(q)
  <2>1. \/ Finish(q)
        \/ \E step \in Steps \ {"insert", "idle"} : Goto(q, step)
    <3>1. CASE RecordAudit(q)
      <4>1. req[q].op \in Auditing
        BY <3>1, InFlight DEF RecordAudit, WellFormed, TypeOK
      <4>2. QED
        BY <3>1, <4>1 DEF RecordAudit, Auditing, AfterAudit, Steps
    <3>2. QED
      BY <1>4, <3>1 DEF Emit, CallCommission, RefundCredit, RefundState, RefundSweep,
         RefundStep, Steps
  <2>2. UNCHANGED snapshot /\ req[q].pc # "idle"
    BY <1>4 DEF RecordAudit, Emit, CallCommission, RefundCredit, RefundState, RefundSweep,
       RefundStep, At
  <2>3. QED
    BY <1>1, <1>2, <2>1, <2>2
<1>5. CASE RefundSelect(q) \/ EndSession(q) \/ InitiateCreate(q)
  <2>1. \/ Finish(q)
        \/ /\ req'[q].op = req[q].op /\ req'[q].rsv = req[q].rsv
           /\ req'[q].pc \in {"commit", "credit", "gateway"}
    <3>1. CASE RefundSelect(q)
      <4>1. \/ Goto(q, "commit")
            \/ \E due : req' = [req EXCEPT ![q].pc = "credit", ![q].due = due]
        BY <3>1 DEF RefundSelect
      <4>2. QED
        BY <4>1, GotoKeeps DEF TypeOK, RequestTypeOK, RequestRecord, Steps
    <3>2. CASE EndSession(q)
      BY <3>2 DEF EndSession, Reject, TypeOK, RequestTypeOK, RequestRecord
    <3>3. CASE InitiateCreate(q)
      BY <3>3 DEF InitiateCreate, TypeOK, RequestTypeOK, RequestRecord
    <3>4. QED
      BY <1>5, <3>1, <3>2, <3>3
  <2>2. snapshot' \subseteq snapshot /\ req[q].pc # "idle"
    BY <1>5 DEF RefundSelect, EndSession, InitiateCreate, Overwritten, Reject, Rollback, At
  <2>3. QED
    BY <1>1, <2>1, <2>2
<1>6. CASE \/ InitiateGateway(q) \/ CreateKey(q) \/ ReadPayment(q) \/ PayThenApply(q)
           \/ PayThenRefund(q) \/ ApplyToReservation(q) \/ ApplyCommit(q)
           \/ RefundedPaymentCommit(q) \/ MarkCompleted(q) \/ MarkFailed(q)
           \/ SessionStartWrite(q) \/ SessionWrite(q)
  BY <1>1, <1>2, <1>6 DEF InitiateGateway, CreateKey, ReadPayment, PayThenApply,
     PayThenRefund, LockPayment, ApplyToReservation, ApplyCommit, RefundedPaymentCommit,
     MarkCompleted, MarkFailed, SessionStartWrite, SessionWrite, SessionUnchanged,
     Overwritten, At, Steps
<1>7. QED
  BY <1>3, <1>4, <1>5, <1>6 DEF Proceeds

\* What SnapshotsLive says of one request.
SnapshotOK(p) ==
    /\ p \in snapshot =>
          /\ req[p].op = "update" /\ req[p].pc \in {"write", "audit", "commit"}
          /\ status[req[p].rsv] \notin TerminalStates
    /\ (req[p].op = "update" /\ req[p].pc \in {"audit", "commit"}) => p \in snapshot

\* A snapshot that survives another request's step still tells the truth.
LEMMA OthersSnapshotsStay ==
    ASSUME TypeOK, RowInv, NEW q \in Requests, Step(q), NEW p \in Requests \ {q}
    PROVE  SnapshotOK(p)'
<1>1. req'[p] = req[p] /\ locks'[p] = locks[p] /\ SnapshotOK(p)
  BY ActsAlone DEF RowInv, SnapshotsLive, SnapshotOK
<1>2. LeavesRows(q) \/ InsertsRow(q) \/ OverwritesRow(q)
  BY RowEffect DEF RowInv
<1>3. CASE LeavesRows(q)
  BY <1>1, <1>3 DEF LeavesRows, SnapshotOK
<1>4. CASE InsertsRow(q)
  BY <1>1, <1>4 DEF InsertsRow, SnapshotOK, TerminalStates, TypeOK, ReservationTypeOK
<1>5. CASE OverwritesRow(q)
  <2>1. p \in snapshot' <=> (p \in snapshot /\ req[p].rsv # req[q].rsv)
    BY <1>5 DEF OverwritesRow, Overwritten
  <2>2. p \in snapshot => req[p].rsv \in Reservations
    BY <1>1, InFlight DEF SnapshotOK, TypeOK
  <2>3. p \in snapshot' => status'[req[p].rsv] = status[req[p].rsv]
    BY <1>5, <2>1, <2>2 DEF OverwritesRow, TypeOK, ReservationTypeOK
  <2>4. ASSUME req[p].op = "update", req[p].pc \in {"audit", "commit"}
        PROVE  req[p].rsv # req[q].rsv
    <3>1. ReservationRow(req[p].rsv) \in locks[p]
      BY <2>4 DEF RowInv, WritersHoldRow, WritesRow
    <3>2. ReservationRow(req[q].rsv) \notin locks[p]
      BY <1>5 DEF OverwritesRow, CanLock, RowInv, LocksExclusive
    <3>3. QED
      BY <3>1, <3>2
  <2>5. QED
    BY <1>1, <2>1, <2>3, <2>4 DEF SnapshotOK
<1>6. QED
  BY <1>2, <1>3, <1>4, <1>5

\* A request's own step keeps what its snapshot tells.
LEMMA OwnSnapshotStays ==
    ASSUME TypeOK, RowInv, NEW q \in Requests, Step(q)
    PROVE  SnapshotOK(q)'
<1> USE DEF SnapshotOK
<1>1. SnapshotOK(q)
  BY DEF RowInv, SnapshotsLive
<1>2. CASE Arrives(q)
  <2>1. q \notin snapshot
    BY <1>1, <1>2, ArrivalBegins DEF Idle
  <2>2. QED
    BY <1>2, <2>1, ArrivalKnows
<1>3. CASE UpdateWrite(q)
  <2>1. req'[q].pc = "audit" /\ req'[q].op = req[q].op /\ req'[q].rsv = req[q].rsv
    BY <1>3, GotoKeeps DEF UpdateWrite, LockReservation, Steps
  <2>2. UNCHANGED <<status, snapshot>>
    BY <1>3 DEF UpdateWrite, LockReservation, reservationVars
  <2>3. QED
    BY <1>1, <1>3, <2>1, <2>2 DEF UpdateWrite
<1>4. CASE req[q].op = "update" /\ (RecordAudit(q) \/ UpdateCommit(q) \/ Emit(q))
  <2>1. PICK step \in Steps : Goto(q, step) \/ (Finish(q) /\ Emit(q))
    BY <1>4 DEF RecordAudit, UpdateCommit, Emit, AfterAudit, Cancels, Steps
  <2>2. CASE RecordAudit(q)
    <3>1. Goto(q, "commit") /\ req[q].pc = "audit" /\ UNCHANGED <<status, snapshot>>
      BY <1>4, <2>2 DEF RecordAudit, AfterAudit, Cancels, reservationVars
    <3>2. req'[q].pc = "commit" /\ req'[q].op = req[q].op /\ req'[q].rsv = req[q].rsv
      BY <3>1, GotoKeeps DEF Steps
    <3>3. QED
      BY <1>1, <1>4, <3>1, <3>2
  <2>3. CASE UpdateCommit(q)
    <3>1. Goto(q, "emit") /\ Overwritten(req[q].rsv)
      BY <2>3 DEF UpdateCommit
    <3>2. req'[q].pc = "emit" /\ q \notin snapshot'
      BY <3>1, GotoKeeps DEF Steps, Overwritten
    <3>3. QED
      BY <3>2
  <2>4. CASE Emit(q)
    <3>1. req[q].pc = "emit" /\ Finish(q) /\ UNCHANGED snapshot
      BY <1>4, <2>4 DEF Emit
    <3>2. req'[q].pc = "idle"
      BY <3>1, FinishIdles
    <3>3. QED
      BY <1>1, <3>1, <3>2
  <2>5. QED
    BY <1>4, <2>2, <2>3, <2>4
<1>5. CASE UpdateConflict(q) \/ Abort(q) \/ Crash(q)
  <2>1. q \notin snapshot' /\ (Finish(q) \/ Goto(q, "fail"))
    BY <1>5 DEF UpdateConflict, Abort, Crash, Reject, Rollback
  <2>2. req'[q].pc \in {"idle", "fail"}
    BY <2>1, FinishIdles, GotoKeeps DEF Steps
  <2>3. QED
    BY <2>1, <2>2
<1>6. CASE Calculates(q) \/ CalculateFails(q)
  <2>1. UNCHANGED <<req, status, snapshot>>
    BY <1>6 DEF Calculates, CalculateRead, CreateEarning, CalcUnchanged, CalculateFails,
       DataUnchanged, reservationVars, requestVars
  <2>2. QED
    BY <1>1, <2>1
<1>7. CASE Proceeds(q) /\ req[q].op # "update"
  BY <1>1, <1>7, ProceedsKeeps DEF Idle
<1>8. CASE Proceeds(q) /\ req[q].op = "update"
  <2>1. \/ UpdateWrite(q) \/ UpdateConflict(q) \/ UpdateCommit(q)
        \/ RecordAudit(q) \/ Emit(q)
    BY <1>8 DEF Proceeds, PublicInsert, ConfirmWrite, NoShowWrite, CancelWrite,
       CancelCommit, StartWrite, StartSession, StartCommit, CompleteWrite, EndSession,
       CompleteCommit, CallCommission, RefundSelect, RefundCredit, RefundState,
       RefundSweep, RefundStep, InitiateCreate, InitiateGateway, CreateKey, ReadPayment,
       PayThenApply, PayThenRefund, LockPayment, ApplyToReservation, ApplyCommit,
       RefundedPaymentCommit, MarkCompleted, MarkFailed, SessionStartWrite, SessionWrite,
       LockReservation, At, Cancels, Refunding, SessionRoutes
  <2>2. QED
    BY <1>3, <1>4, <1>5, <1>8, <2>1
<1>9. QED
  BY <1>2, <1>5, <1>6, <1>7, <1>8 DEF Step

\* The same for any step of a request that is not its first.
LEMMA LaterStepKeeps ==
    ASSUME TypeOK, NEW q \in Requests, Step(q), ~Arrives(q)
    PROVE  \/ UNCHANGED <<req, status>>
           \/ req'[q] = Idle
           \/ /\ req[q].pc # "idle"
              /\ req'[q].op = req[q].op /\ req'[q].rsv = req[q].rsv
              /\ req'[q].pc \notin {"insert", "idle"}
<1>1. CASE Proceeds(q)
  BY <1>1, ProceedsKeeps
<1>2. CASE Calculates(q) \/ CalculateFails(q)
  BY <1>2 DEF Calculates, CalculateRead, CreateEarning, CalcUnchanged, CalculateFails,
     DataUnchanged, reservationVars, requestVars
<1>3. CASE Abort(q) \/ Crash(q)
  <2>1. Finish(q) \/ (Goto(q, "fail") /\ req[q].pc # "idle")
    BY <1>3 DEF Abort, MayFail, At, Crash, Reject
  <2>2. CASE Finish(q)
    BY <2>2 DEF Finish, TypeOK, RequestTypeOK
  <2>3. CASE Goto(q, "fail") /\ req[q].pc # "idle"
    BY <2>3, GotoKeeps DEF Steps
  <2>4. QED
    BY <2>1, <2>2, <2>3
<1>4. QED
  BY <1>1, <1>2, <1>3 DEF Step

Inserting(p) == req[p].op = "createPublic" /\ req[p].pc = "insert"

\* The row a public booking is about to insert stays absent, and its own.
LEMMA InsertsStayAbsent ==
    ASSUME TypeOK, RowInv, NEW q \in Requests, Step(q)
    PROVE  InsertsAbsent'
<1>1. \A p \in Requests : Inserting(p) =>
         /\ ~Exists(req[p].rsv) /\ req[p].rsv \in Reservations
         /\ \A x \in Requests : Inserting(x) /\ req[x].rsv = req[p].rsv => x = p
  BY InFlight DEF RowInv, InsertsAbsent, Inserting, TypeOK
<1>2. \A p \in Requests \ {q} : req'[p] = req[p]
  BY ActsAlone
<1>3. CASE UNCHANGED <<req, status>>
  BY <1>3 DEF RowInv, InsertsAbsent, Exists
<1>4. CASE ~UNCHANGED <<req, status>>
  <2>1. Inserting(q)' => Arrives(q)
    BY <1>4, LaterStepKeeps DEF Inserting, Idle
  <2>2. Inserting(q)' => Unclaimed(req'[q].rsv) /\ UNCHANGED status
    BY <2>1, ArrivalKnows DEF Inserting
  <2>3. ASSUME NEW p \in Requests \ {q}, Inserting(p)'
        PROVE  Inserting(p) /\ ~Exists(req[p].rsv)'
    <3>1. Inserting(p) /\ req'[p] = req[p]
      BY <1>2, <2>3 DEF Inserting
    <3>2. CASE LeavesRows(q)
      BY <1>1, <3>1, <3>2 DEF LeavesRows, Exists
    <3>3. CASE InsertsRow(q)
      <4>1. PICK r \in Reservations, st \in {"CONFIRMED", "PENDING"} :
               /\ Unclaimed(r) \/ (At(q, {"createPublic"}, "insert") /\ r = req[q].rsv)
               /\ status' = [status EXCEPT ![r] = st]
        BY <3>3 DEF InsertsRow
      <4>2. r # req[p].rsv
        BY <1>1, <3>1, <4>1 DEF Unclaimed, At, Inserting
      <4>3. QED
        BY <1>1, <3>1, <4>1, <4>2 DEF Exists, TypeOK, ReservationTypeOK
    <3>4. CASE OverwritesRow(q)
      <4>1. UNCHANGED status \/ req[q].rsv # req[p].rsv
        BY <1>1, <3>1, <3>4 DEF OverwritesRow, RowInv, MovesExisting
      <4>2. QED
        BY <1>1, <3>1, <3>4, <4>1 DEF OverwritesRow, Exists, TypeOK, ReservationTypeOK
    <3>5. QED
      BY <3>1, <3>2, <3>3, <3>4, RowEffect DEF RowInv
  <2>4. ASSUME NEW p \in Requests, NEW x \in Requests, Inserting(p)', Inserting(x)',
               req'[p].rsv = req'[x].rsv
        PROVE  p = x
    BY <1>1, <1>2, <2>2, <2>3, <2>4 DEF Unclaimed
  <2>5. \A p \in Requests : Inserting(p)' => ~Exists(req[p].rsv)'
    BY <2>2, <2>3 DEF Unclaimed, Exists
  <2>6. QED
    BY <2>4, <2>5 DEF InsertsAbsent, Inserting
<1>5. QED
  BY <1>3, <1>4

\* No step deletes a reservation.
LEMMA MovesStayExisting ==
    ASSUME TypeOK, RowInv, NEW q \in Requests, Step(q)
    PROVE  MovesExisting'
<1>1. ASSUME NEW r \in Reservations, Exists(r) PROVE Exists(r)'
  <2>1. LeavesRows(q) \/ InsertsRow(q) \/ OverwritesRow(q)
    BY RowEffect DEF RowInv
  <2>2. QED
    BY <1>1, <2>1 DEF LeavesRows, InsertsRow, OverwritesRow, Exists, ReservationStatus,
       TypeOK, ReservationTypeOK
<1>2. ASSUME NEW p \in Requests, req[p].op \in Validated, req[p].pc # "idle",
             req'[p].rsv = req[p].rsv
      PROVE  Exists(req[p].rsv)'
  BY <1>1, <1>2, InFlight DEF RowInv, MovesExisting, TypeOK
<1>3. ASSUME NEW p \in Requests, req'[p].pc # "idle", req'[p].op \in Validated
      PROVE  Exists(req[p].rsv)'
  <2>1. CASE p # q
    BY <1>2, <1>3, <2>1, ActsAlone
  <2>2. CASE p = q /\ Arrives(q)
    BY <1>1, <1>3, <2>2, ArrivalKnows
  <2>3. CASE p = q /\ ~Arrives(q)
    BY <1>1, <1>2, <1>3, <2>3, LaterStepKeeps DEF Idle
  <2>4. QED
    BY <2>1, <2>2, <2>3
<1>4. QED
  BY <1>3 DEF MovesExisting
----------------------------------------------------------------------------
(* The row invariant.                                                      *)

\* The empty database satisfies the invariant.
LEMMA InitRowInv == ASSUME Init PROVE RowInv
  BY DEF Init, Idle, RowInv, LocksExclusive, WritersHoldRow, WritesRow, DueIsSelected,
     SnapshotsLive, InsertsAbsent, MovesExisting

\* A step that changes nothing keeps the invariant.
LEMMA StutterRowInv ==
    ASSUME RowInv, UNCHANGED <<status, requestVars>>
    PROVE  RowInv'
  BY DEF requestVars, RowInv, LocksExclusive, WritersHoldRow, WritesRow, DueIsSelected,
     SnapshotsLive, InsertsAbsent, MovesExisting, Exists

\* A step of the system is a request's, or leaves rows and requests alone.
LEMMA NextCases ==
    ASSUME [Next]_vars
    PROVE  (\E q \in Requests : Step(q)) \/ UNCHANGED <<reservationVars, session, requestVars>>
  BY DEF Next, Step, KeyExpires, DataUnchanged, vars

\* Every step keeps the invariant: one step per conjunct.
LEMMA NextRowInv == ASSUME TypeOK, RowInv, [Next]_vars PROVE RowInv'
<1>1. ASSUME NEW q \in Requests, Step(q) PROVE RowInv'
  <2>1. LocksExclusive'
    BY <1>1, LocksStayExclusive DEF RowInv
  <2>2. ASSUME NEW p \in Requests PROVE WriterOK(p)' /\ SnapshotOK(p)'
    <3>1. CASE p = q
      BY <1>1, <3>1, WriterKeepsRow, OwnSnapshotStays DEF RowInv
    <3>2. CASE p # q
      BY <1>1, <3>2, ActsAlone, OthersSnapshotsStay
         DEF RowInv, WritersHoldRow, DueIsSelected, WriterOK, WritesRow
    <3>3. QED
      BY <3>1, <3>2
  <2>3. WritersHoldRow' /\ DueIsSelected'
    BY <2>2 DEF WriterOK, WritersHoldRow, DueIsSelected
  <2>4. SnapshotsLive'
    BY <2>2 DEF SnapshotOK, SnapshotsLive
  <2>5. QED
    BY <1>1, <2>1, <2>3, <2>4, InsertsStayAbsent, MovesStayExisting DEF RowInv
<1>2. QED
  BY <1>1, NextCases, StutterRowInv DEF reservationVars

\* Requests write a reservation only while they hold its row, and an edit's
\* snapshot shows a live reservation, however many requests are in flight.
THEOREM RowsProtected == Spec => []RowInv
<1>1. Init => RowInv
  BY InitRowInv
<1>2. TypeOK /\ RowInv /\ [Next]_vars => RowInv'
  BY NextRowInv
<1>3. QED
  BY <1>1, <1>2, TypeCorrect, PTL DEF Spec

\* Only the commit of an edit moves a reservation that exists.
LEMMA OnlyEditsMove ==
    ASSUME TypeOK, RowInv, [Next]_vars, NEW r \in Reservations, Exists(r),
           slot'[r] # slot[r]
    PROVE  status[r] \notin TerminalStates
<1>1. PICK q \in Requests : Step(q)
  BY NextCases DEF reservationVars
<1>2. CASE UpdateCommit(q)
  <2>1. req[q].rsv = r /\ req[q].op = "update" /\ req[q].pc = "commit"
    BY <1>2 DEF UpdateCommit, At, TypeOK, ReservationTypeOK
  <2>2. QED
    BY <2>1 DEF RowInv, SnapshotsLive
<1>3. CASE PublicInsert(q)
  <2>1. req[q].rsv = r /\ req[q].op = "createPublic" /\ req[q].pc = "insert"
    BY <1>3 DEF PublicInsert, InsertReservation, At, TypeOK, ReservationTypeOK
  <2>2. QED
    BY <2>1 DEF RowInv, InsertsAbsent
<1>4. CASE Arrives(q)
  <2>1. \E x \in Reservations, k \in Slots : CreateReservation(q, x, k)
    BY <1>4 DEF Arrives, PublicCheck, UpdateRead, ConfirmRead, CancelRead,
       CustomerCancelRead, StartRead, CompleteRead, NoShowRead, ReadAndValidate,
       InitiateRead, FindKey, WebhookUnchanged, SessionStartRead, PauseSessionRead,
       ResumeSessionRead, StopSessionRead, SessionRead, SessionUnchanged, reservationVars
  <2>2. ~Exists(r)
    BY <2>1 DEF CreateReservation, InsertReservation, Unclaimed, Exists, TypeOK,
       ReservationTypeOK
  <2>3. QED
    BY <2>2
<1>5. CASE ~(UpdateCommit(q) \/ PublicInsert(q) \/ Arrives(q))
  <2>1. UNCHANGED slot
    BY <1>1, <1>5 DEF Step, Proceeds, UpdateWrite, UpdateConflict, ConfirmWrite,
       NoShowWrite, CancelWrite, CancelCommit, StartWrite, StartSession, StartCommit,
       CompleteWrite, EndSession, CompleteCommit, LockReservation, SetStatus, RecordAudit,
       Emit, CallCommission, RefundSelect, RefundCredit, RefundState, RefundSweep,
       RefundStep, InitiateCreate, InitiateGateway, CreateKey, ReadPayment, PayThenApply,
       PayThenRefund, LockPayment, ApplyToReservation, ApplyCommit, RefundedPaymentCommit,
       MarkCompleted, MarkFailed, WebhookUnchanged, SessionStartWrite, SessionWrite,
       SessionUnchanged, Calculates, CalculateRead, CreateEarning, CalcUnchanged, Abort,
       Crash, CalculateFails, DataUnchanged, reservationVars
  <2>2. QED
    BY <2>1
<1>6. QED
  BY <1>2, <1>3, <1>4, <1>5

\* REPEATABLE READ is enough for updateReservation: its terminal state check
\* on a snapshot keeps every reservation that has ended where it was.
THEOREM EditsSafe == Spec => EditsOnlyLive
<1>1. TypeOK /\ RowInv /\ [Next]_vars =>
         [\A r \in Reservations :
            (slot'[r] # slot[r] /\ Exists(r)) => status[r] \notin TerminalStates]_vars
  BY OnlyEditsMove
<1>2. QED
  BY <1>1, TypeCorrect, RowsProtected, PTL DEF Spec, EditsOnlyLive
----------------------------------------------------------------------------
(* A running reservation has its one active gaming session, as long as     *)
(* sessions are started and ended through the reservation.                 *)

\* The instance leaves out the routes that act on sessions directly.
NoSessionRoutes == Enabled \cap (SessionRoutes \cup {"sessionStart"}) = {}

\* Sessions change only when a start or a completion commits.
LEMMA OnlyCommitsTouchSessions ==
    ASSUME StartsAlone, NEW q \in Requests, Step(q), ~StartCommit(q), ~CompleteCommit(q)
    PROVE  UNCHANGED session
<1>1. CASE Arrives(q)
  BY <1>1 DEF Arrives, CreateReservation, PublicCheck, UpdateRead, ConfirmRead,
     CancelRead, CustomerCancelRead, StartRead, CompleteRead, NoShowRead, ReadAndValidate,
     InitiateRead, FindKey, WebhookUnchanged, SessionStartRead, PauseSessionRead,
     ResumeSessionRead, StopSessionRead, SessionRead
<1>2. ~SessionStartWrite(q) /\ ~SessionWrite(q)
  BY DEF StartsAlone, SessionStartWrite, SessionWrite, At
<1>3. CASE ~Arrives(q)
  BY <1>2, <1>3 DEF Step, Proceeds, PublicInsert, UpdateWrite, UpdateConflict, UpdateCommit,
     ConfirmWrite, NoShowWrite, CancelWrite, CancelCommit, StartWrite, StartSession,
     CompleteWrite, EndSession, LockReservation, RecordAudit, Emit, CallCommission,
     RefundSelect, RefundCredit, RefundState, RefundSweep, RefundStep, InitiateCreate,
     InitiateGateway, CreateKey, ReadPayment, PayThenApply, PayThenRefund, LockPayment,
     ApplyToReservation, ApplyCommit, RefundedPaymentCommit, MarkCompleted, MarkFailed,
     WebhookUnchanged, Calculates, CalculateRead, CreateEarning, CalcUnchanged, Abort,
     Crash, CalculateFails, DataUnchanged
<1>4. QED
  BY <1>1, <1>3

\* The two that do hold the reservation's row, and what they leave there.
LEMMA CommitsSession ==
    ASSUME TypeOK, RowInv, SessionInv, NEW q \in Requests,
           StartCommit(q) \/ CompleteCommit(q), NEW r \in Reservations, r = req[q].rsv
    PROVE  /\ ReservationRow(r) \in locks[q]
           /\ \A x \in Reservations \ {r} : session'[x] = session[x] /\ status'[x] = status[x]
           /\ \A s, t \in SessionsIn(r, {"ACTIVE"})' : s = t
           /\ status'[r] = "IN_PROGRESS" => SessionsIn(r, {"ACTIVE"})' # {}
<1>1. req[q].pc = "commit" /\ ReservationRow(r) \in locks[q]
  BY DEF StartCommit, CompleteCommit, At, RowInv, WritersHoldRow, WritesRow
<1>2. \A x \in Reservations \ {r} : session'[x] = session[x] /\ status'[x] = status[x]
  BY DEF StartCommit, CompleteCommit, SetStatus, TypeOK, SessionTypeOK, ReservationTypeOK
<1>3. CASE StartCommit(q)
  <2>1. PICK s \in SessionIds : session' = [session EXCEPT ![r][s] = "ACTIVE"]
    BY <1>3 DEF StartCommit, SessionsIn
  <2>2. SessionsIn(r, {"ACTIVE"}) = {}
    BY <1>1, <1>3 DEF StartCommit, At, SessionInv, StartsAlone
  <2>3. \A t \in SessionIds : session'[r][t] = IF t = s THEN "ACTIVE" ELSE session[r][t]
    BY <2>1 DEF TypeOK, SessionTypeOK
  <2>4. SessionsIn(r, {"ACTIVE"})' = {s}
    BY <2>2, <2>3 DEF SessionsIn
  <2>5. QED
    BY <1>1, <1>2, <2>4
<1>4. CASE CompleteCommit(q)
  <2>1. status'[r] = "COMPLETED"
    BY <1>4 DEF CompleteCommit, SetStatus, Target, At, TypeOK, ReservationTypeOK
  <2>2. \A t \in SessionIds : session'[r][t] = "ACTIVE" => session[r][t] = "ACTIVE"
    <3>1. CASE UNCHANGED session
      BY <3>1
    <3>2. CASE session' = [session EXCEPT ![r][req[q].item] = "COMPLETED"]
      BY <3>2 DEF TypeOK, SessionTypeOK
    <3>3. QED
      BY <1>4, <3>1, <3>2 DEF CompleteCommit
  <2>3. \A s, t \in SessionsIn(r, {"ACTIVE"})' : s = t
    BY <2>2 DEF SessionInv, RunningHasItsSession, SessionsIn
  <2>4. QED
    BY <1>1, <1>2, <2>1, <2>3
<1>5. QED
  BY <1>3, <1>4

\* Every step keeps one active session for a running reservation.
LEMMA RunningStays ==
    ASSUME TypeOK, RowInv, SessionInv, NEW q \in Requests, Step(q)
    PROVE  RunningHasItsSession'
<1>1. ASSUME NEW r \in Reservations
      PROVE  /\ \A s, t \in SessionsIn(r, {"ACTIVE"})' : s = t
             /\ status'[r] = "IN_PROGRESS" => SessionsIn(r, {"ACTIVE"})' # {}
  <2>1. /\ \A s, t \in SessionsIn(r, {"ACTIVE"}) : s = t
        /\ status[r] = "IN_PROGRESS" => SessionsIn(r, {"ACTIVE"}) # {}
    BY DEF SessionInv, RunningHasItsSession
  <2>2. CASE (StartCommit(q) \/ CompleteCommit(q)) /\ r = req[q].rsv
    BY <2>2, CommitsSession
  <2>3. CASE (StartCommit(q) \/ CompleteCommit(q)) /\ r # req[q].rsv
    <3>1. req[q].rsv \in Reservations
      BY <2>3, InFlight DEF StartCommit, CompleteCommit, At, TypeOK
    <3>2. session'[r] = session[r] /\ status'[r] = status[r]
      BY <2>3, <3>1, CommitsSession
    <3>3. QED
      BY <2>1, <3>2 DEF SessionsIn
  <2>4. CASE ~StartCommit(q) /\ ~CompleteCommit(q)
    <3>1. UNCHANGED session
      BY <2>4, OnlyCommitsTouchSessions DEF SessionInv
    <3>2. status'[r] = "IN_PROGRESS" => status[r] = "IN_PROGRESS"
      <4>1. LeavesRows(q) \/ InsertsRow(q) \/ OverwritesRow(q)
        BY RowEffect DEF RowInv
      <4>2. QED
        BY <2>4, <4>1 DEF LeavesRows, InsertsRow, OverwritesRow, TypeOK, ReservationTypeOK
    <3>3. QED
      BY <2>1, <3>1, <3>2 DEF SessionsIn
  <2>5. QED
    BY <2>2, <2>3, <2>4
<1>2. QED
  BY <1>1 DEF RunningHasItsSession

\* What StartsAlone says of one request.
StartOK(p) ==
    /\ (req[p].op = "start" /\ req[p].pc \in {"audit", "commit"})
          => SessionsIn(req[p].rsv, {"ACTIVE"}) = {}
    /\ req[p].pc # "idle" => req[p].op \notin SessionRoutes \cup {"sessionStart"}

\* The session check of a start still holds when another request has acted.
LEMMA OthersStartsStay ==
    ASSUME TypeOK, RowInv, SessionInv, NEW q \in Requests, Step(q),
           NEW p \in Requests \ {q}
    PROVE  StartOK(p)'
<1>1. req'[p] = req[p] /\ StartOK(p)
  BY ActsAlone DEF SessionInv, StartsAlone, StartOK
<1>2. CASE req[p].op = "start" /\ req[p].pc \in {"audit", "commit"}
  <2>1. req[p].rsv \in Reservations /\ ReservationRow(req[p].rsv) \in locks[p]
    BY <1>2, InFlight DEF TypeOK, RowInv, WritersHoldRow, WritesRow
  <2>2. session'[req[p].rsv] = session[req[p].rsv]
    <3>1. CASE StartCommit(q) \/ CompleteCommit(q)
      <4>1. req[q].rsv \in Reservations
        BY <3>1, InFlight DEF StartCommit, CompleteCommit, At, TypeOK
      <4>2. ReservationRow(req[q].rsv) \in locks[q]
        BY <3>1, <4>1, CommitsSession
      <4>3. req[p].rsv # req[q].rsv
        BY <2>1, <4>2 DEF RowInv, LocksExclusive
      <4>4. QED
        BY <2>1, <3>1, <4>1, <4>3, CommitsSession
    <3>2. CASE ~StartCommit(q) /\ ~CompleteCommit(q)
      BY <3>2, OnlyCommitsTouchSessions DEF SessionInv
    <3>3. QED
      BY <3>1, <3>2
  <2>3. QED
    BY <1>1, <2>2 DEF StartOK, SessionsIn
<1>3. QED
  BY <1>1, <1>2 DEF StartOK

\* A start's own step keeps what its session check found.
LEMMA OwnStartStays ==
    ASSUME NoSessionRoutes, TypeOK, RowInv, SessionInv, NEW q \in Requests, Step(q)
    PROVE  StartOK(q)'
<1>1. StartOK(q)
  BY DEF SessionInv, StartsAlone, StartOK
<1>2. req'[q].pc # "idle" => req'[q].op \notin SessionRoutes \cup {"sessionStart"}
  BY <1>1, ArrivalKnows, LaterStepKeeps DEF StartOK, NoSessionRoutes, Idle
<1>3. ASSUME req'[q].op = "start", req'[q].pc \in {"audit", "commit"}
      PROVE  (SessionsIn(req[q].rsv, {"ACTIVE"}) = {})'
  <2>1. CASE UNCHANGED <<req, session>>
    BY <1>1, <1>3, <2>1 DEF StartOK, SessionsIn
  <2>2. CASE StartSession(q)
    <3>1. /\ SessionsIn(req[q].rsv, {"ACTIVE"}) = {} /\ Goto(q, "audit") /\ UNCHANGED session
      BY <1>3, <2>2, FinishIdles DEF StartSession, Reject
    <3>2. req'[q].rsv = req[q].rsv
      BY <3>1, GotoKeeps DEF Steps
    <3>3. QED
      BY <3>1, <3>2 DEF SessionsIn
  <2>3. CASE RecordAudit(q)
    <3>1. req[q].pc = "audit" /\ UNCHANGED session /\ (Finish(q) \/ \E step : Goto(q, step))
      BY <2>3 DEF RecordAudit
    <3>2. req'[q].rsv = req[q].rsv /\ req'[q].op = req[q].op
      BY <1>3, <3>1, FinishIdles DEF Goto, TypeOK, RequestTypeOK, RequestRecord
    <3>3. QED
      BY <1>1, <1>3, <3>1, <3>2 DEF StartOK, SessionsIn
  <2>4. CASE Calculates(q) \/ CalculateFails(q)
    BY <2>1, <2>4 DEF Calculates, CalculateRead, CreateEarning, CalcUnchanged,
       CalculateFails, DataUnchanged, requestVars
  <2>5. CASE Proceeds(q) /\ ~StartSession(q) /\ ~RecordAudit(q)
    <3>1. req[q].op = "start"
      BY <1>3, <2>5, ProceedsKeeps DEF Idle
    <3>2. StartWrite(q) \/ StartCommit(q) \/ Emit(q)
      BY <2>5, <3>1 DEF Proceeds, PublicInsert, UpdateWrite, UpdateConflict, UpdateCommit,
         ConfirmWrite, NoShowWrite, CancelWrite, CancelCommit, CompleteWrite, EndSession,
         CompleteCommit, CallCommission, RefundSelect, RefundCredit, RefundState,
         RefundSweep, RefundStep, InitiateCreate, InitiateGateway, CreateKey, ReadPayment,
         PayThenApply, PayThenRefund, LockPayment, ApplyToReservation, ApplyCommit,
         RefundedPaymentCommit, MarkCompleted, MarkFailed, SessionStartWrite, SessionWrite,
         LockReservation, At, Cancels, Refunding, SessionRoutes
    <3>3. Goto(q, "session") \/ Finish(q)
      BY <3>1, <3>2 DEF StartWrite, LockReservation, StartCommit, Emit
    <3>4. QED
      BY <1>3, <3>3, GotoKeeps, FinishIdles DEF Steps
  <2>6. CASE Arrives(q)
    BY <1>3, <2>6, ArrivalKnows
  <2>7. CASE Abort(q) \/ Crash(q)
    <3>1. Finish(q) \/ Goto(q, "fail")
      BY <2>7 DEF Abort, Crash, Reject
    <3>2. QED
      BY <1>3, <3>1, GotoKeeps, FinishIdles DEF Steps
  <2>8. QED
    BY <2>2, <2>3, <2>4, <2>5, <2>6, <2>7 DEF Step
<1>4. QED
  BY <1>2, <1>3 DEF StartOK

\* Every step keeps the session invariant.
LEMMA NextSessionInv ==
    ASSUME NoSessionRoutes, TypeOK, RowInv, SessionInv, [Next]_vars
    PROVE  SessionInv'
<1>1. ASSUME NEW q \in Requests, Step(q) PROVE SessionInv'
  <2>1. \A p \in Requests : StartOK(p)'
    BY <1>1, OthersStartsStay, OwnStartStays
  <2>2. StartsAlone'
    BY <2>1 DEF StartsAlone, StartOK
  <2>3. QED
    BY <1>1, <2>2, RunningStays DEF SessionInv
<1>2. CASE UNCHANGED <<reservationVars, session, requestVars>>
  BY <1>2 DEF SessionInv, RunningHasItsSession, StartsAlone, SessionsIn, reservationVars,
     requestVars
<1>3. QED
  BY <1>1, <1>2, NextCases

\* However many starts, completions, cancellations and edits race for it, a
\* running reservation has exactly one active gaming session, provided the
\* panel's session routes are not used.
THEOREM RunningHasSession ==
    ASSUME NoSessionRoutes
    PROVE  Spec => []RunningHasItsSession
<1>1. Init => SessionInv
  BY DEF Init, Idle, SessionInv, RunningHasItsSession, StartsAlone, SessionsIn
<1>2. TypeOK /\ RowInv /\ SessionInv /\ [Next]_vars => SessionInv'
  BY NextSessionInv
<1>3. SessionInv => RunningHasItsSession
  BY DEF SessionInv
<1>4. QED
  BY <1>1, <1>2, <1>3, TypeCorrect, RowsProtected, PTL DEF Spec
====
