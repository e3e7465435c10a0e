---- MODULE Handlers_proofs ----
(***************************************************************************)
(* Safety of the handlers.  Money, for any number of requests: what is     *)
(* announced has happened, cancellations leave nothing paid and refund     *)
(* nothing again, only what the provider reported is credited or charged,  *)
(* and events settle their keys.  Then one request at a time, with         *)
(* transactions that fail and instances that crash: ends are final, stamps *)
(* and wallet agree with the rows, and the handlers keep BookingPromise.   *)
(***************************************************************************)
EXTENDS OneRequestInvariants, BookingRefinement, Booking_proofs

\* A request that moves on keeps every field but its step.
LEMMA GotoMoves ==
    ASSUME TypeOK, NEW q \in Requests, NEW step, Goto(q, step)
    PROVE  /\ req'[q].pc = step /\ req'[q].op = req[q].op /\ req'[q].rsv = req[q].rsv
           /\ req'[q].due = req[q].due /\ req'[q].item = req[q].item
           /\ req'[q].event = req[q].event
  BY DEF Goto, TypeOK, RequestTypeOK, RequestRecord

\* One cell of a table is written, the others keep their values.
LEMMA CellWritten ==
    ASSUME NEW Keys, NEW Cols, NEW Vals, NEW f \in [Keys -> [Cols -> Vals]],
           NEW r \in Keys, NEW s \in Cols, NEW v
    PROVE  \A x \in Keys, y \in Cols :
              [f EXCEPT ![r][s] = v][x][y] = IF x = r /\ y = s THEN v ELSE f[x][y]
  OBVIOUS

\* What the first step of each operation has checked of the rows it read.
LEMMA ArrivalChecks ==
    ASSUME TypeOK, NEW q \in Requests, Arrives(q)
    PROVE  LET x == req'[q] IN
           /\ x.pc = "emit" => x.op = "createPanel"
           /\ x.op \in Validated => x.pc = "write" /\ MayMove(status[x.rsv], Target[x.op])
           /\ x.op = "webhook" => x.pc = "createKey" /\ x.item \in checkout[x.rsv]
           /\ x.op = "initiate" => x.pc = "create" /\ Exists(x.rsv)
           /\ x.op \in SessionRoutes =>
                 x.item \in SessionIds /\ SessionMayMove(session[x.rsv][x.item], SessionTarget[x.op])
<1> DEFINE x == req'[q]
           Checked == /\ x.pc = "emit" => x.op = "createPanel"
                      /\ x.op \in Validated => x.pc = "write" /\ MayMove(status[x.rsv], Target[x.op])
                      /\ x.op = "webhook" => x.pc = "createKey" /\ x.item \in checkout[x.rsv]
                      /\ x.op = "initiate" => x.pc = "create" /\ Exists(x.rsv)
                      /\ x.op \in SessionRoutes =>
                            /\ x.item \in SessionIds
                            /\ SessionMayMove(session[x.rsv][x.item], SessionTarget[x.op])
<1>1. ASSUME NEW r \in Reservations, NEW o, NEW step, NEW c, Begins(q, c), Calls(c, o, step, r)
      PROVE  x = c /\ x.op = o /\ x.pc = step /\ x.rsv = r
  BY <1>1 DEF Begins, Calls, TypeOK, RequestTypeOK
<1> HIDE DEF x
<1>2. ASSUME NEW r \in Reservations, NEW k \in Slots,
             CreateReservation(q, r, k) \/ PublicCheck(q, r, k) \/ UpdateRead(q, r, k)
      PROVE  Checked
  <2>1. CASE CreateReservation(q, r, k)
    <3>1. x.op = "createPanel" /\ x.pc = "emit"
      BY <2>1, CallFields, BeginsCalls DEF CreateReservation, Calls, x
    <3>2. QED
      BY <3>1 DEF Validated, SessionRoutes
  <2>2. CASE PublicCheck(q, r, k)
    <3>1. Calls(x, "createPublic", "insert", r)
      BY <2>2, CallFields, BeginsCalls DEF PublicCheck, x
    <3>2. QED
      BY <3>1 DEF Calls, Validated, SessionRoutes
  <2>3. CASE UpdateRead(q, r, k)
    <3>1. Calls(x, "update", "write", r)
      BY <2>3, CallFields, BeginsCalls DEF UpdateRead, x
    <3>2. QED
      BY <3>1 DEF Calls, Validated, SessionRoutes
  <2>4. QED
    BY <1>2, <2>1, <2>2, <2>3
<1>3. ASSUME NEW r \in Reservations, NEW o \in Validated, ReadAndValidate(q, o, r)
      PROVE  Checked
  <2>1. Calls(x, o, "write", r) /\ MayMove(status[r], Target[o])
    BY <1>3, CallFields, BeginsCalls DEF ReadAndValidate, x
  <2>2. QED
    BY <2>1 DEF Calls, Validated, SessionRoutes
<1>4. ASSUME NEW r \in Reservations,
             \/ ConfirmRead(q, r) \/ CancelRead(q, r) \/ CustomerCancelRead(q, r)
             \/ StartRead(q, r) \/ CompleteRead(q, r) \/ NoShowRead(q, r)
      PROVE  Checked
  BY <1>3, <1>4 DEF ConfirmRead, CancelRead, CustomerCancelRead, StartRead, CompleteRead,
     NoShowRead, Validated
<1>5. ASSUME NEW r \in Reservations, InitiateRead(q, r)
      PROVE  Checked
  <2>1. x.op = "initiate" /\ x.pc = "create" /\ x.rsv = r /\ Exists(r)
    BY <1>5, CallFields, BeginsCalls DEF InitiateRead, Calls, x
  <2>2. QED
    BY <2>1 DEF Validated, SessionRoutes
<1>6. ASSUME NEW r \in Reservations, NEW i \in PayIds, NEW e \in Reported, FindKey(q, r, i, e)
      PROVE  Checked
  <2> DEFINE c == [Call("webhook", "createKey", r) EXCEPT !.item = i, !.event = e]
  <2>1. Begins(q, c) /\ i \in checkout[r]
    BY <1>6 DEF FindKey
  <2>2. c.item = i
    BY DEF Call, Idle
  <2>3. Calls(c, "webhook", "createKey", r)
    BY CallFields
  <2> HIDE DEF c
  <2>4. x = c /\ x.op = "webhook" /\ x.pc = "createKey" /\ x.rsv = r
    BY <1>1, <2>1, <2>3
  <2>5. QED
    BY <2>1, <2>2, <2>4 DEF Validated, SessionRoutes
<1>7. ASSUME NEW r \in Reservations, NEW o \in SessionRoutes, SessionRead(q, o, r)
      PROVE  Checked
  <2>1. PICK s \in SessionIds :
           /\ SessionMayMove(session[r][s], SessionTarget[o])
           /\ Begins(q, [Call(o, "sessionWrite", r) EXCEPT !.item = s])
    BY <1>7 DEF SessionRead, SessionsIn
  <2> DEFINE c == [Call(o, "sessionWrite", r) EXCEPT !.item = s]
  <2>2. c.item = s
    BY DEF Call, Idle
  <2>3. Calls(c, o, "sessionWrite", r)
    BY CallFields
  <2> HIDE DEF c
  <2>4. x = c /\ x.op = o /\ x.pc = "sessionWrite" /\ x.rsv = r
    BY <1>1, <2>1, <2>3 DEF c
  <2>5. QED
    BY <2>1, <2>2, <2>4 DEF Validated, SessionRoutes
<1>8. ASSUME NEW r \in Reservations,
             \/ SessionStartRead(q, r) \/ PauseSessionRead(q, r)
             \/ ResumeSessionRead(q, r) \/ StopSessionRead(q, r)
      PROVE  Checked
  <2>1. CASE SessionStartRead(q, r)
    <3>1. x.op = "sessionStart" /\ x.pc = "sessionWrite"
      BY <2>1, CallFields, BeginsCalls DEF SessionStartRead, Calls, x
    <3>2. QED
      BY <3>1 DEF Validated, SessionRoutes
  <2>2. CASE PauseSessionRead(q, r) \/ ResumeSessionRead(q, r) \/ StopSessionRead(q, r)
    BY <1>7, <2>2 DEF PauseSessionRead, ResumeSessionRead, StopSessionRead, SessionRoutes
  <2>3. QED
    BY <1>8, <2>1, <2>2
<1>9. Checked
  BY <1>2, <1>4, <1>5, <1>6, <1>8 DEF Arrives
<1>10. QED
  BY <1>9 DEF x

\* The steps a cancellation can take.
LEMMA CancelSteps ==
    ASSUME NEW q \in Requests, Step(q), req[q].pc # "idle", req[q].op \in Cancels
    PROVE  \/ CancelWrite(q) \/ RefundSelect(q) \/ RefundCredit(q) \/ RefundState(q)
           \/ RefundSweep(q) \/ CancelCommit(q) \/ Emit(q) \/ RecordAudit(q)
           \/ Calculates(q) \/ CalculateFails(q) \/ Abort(q) \/ Crash(q)
<1>1. ~Arrives(q)
  BY ArrivalBegins DEF Idle
<1>2. QED
  BY <1>1 DEF Step, Proceeds, PublicInsert, UpdateWrite, UpdateConflict, UpdateCommit,
     ConfirmWrite, NoShowWrite, StartWrite, StartSession, StartCommit, CompleteWrite,
     EndSession, CompleteCommit, CallCommission, InitiateCreate, InitiateGateway,
     CreateKey, ReadPayment, PayThenApply, PayThenRefund, LockPayment,
     ApplyToReservation, ApplyCommit, RefundedPaymentCommit, MarkCompleted, MarkFailed,
     SessionStartWrite, SessionWrite, LockReservation, At, Cancels, SessionRoutes

\* The steps a provider event can take.
LEMMA WebhookSteps ==
    ASSUME TypeOK, NEW q \in Requests, Step(q), req[q].pc # "idle", req[q].op = "webhook"
    PROVE  \/ CreateKey(q) \/ ReadPayment(q) \/ PayThenApply(q) \/ PayThenRefund(q)
           \/ ApplyToReservation(q) \/ ApplyCommit(q)
           \/ RefundSelect(q) \/ RefundCredit(q) \/ RefundState(q) \/ RefundSweep(q)
           \/ RefundedPaymentCommit(q) \/ MarkCompleted(q) \/ MarkFailed(q)
           \/ Calculates(q) \/ CalculateFails(q) \/ Abort(q) \/ Crash(q)
<1>1. ~Arrives(q)
  BY ArrivalBegins DEF Idle
<1>2. req[q].pc \notin {"emit", "audit"}
  BY InFlight DEF TypeOK, WellFormed, Emitting, Auditing, Cancels
<1>3. QED
  BY <1>1, <1>2 DEF Step, Proceeds, PublicInsert, UpdateWrite, UpdateConflict, UpdateCommit,
     ConfirmWrite, NoShowWrite, CancelWrite, CancelCommit, StartWrite, StartSession,
     StartCommit, CompleteWrite, EndSession, CompleteCommit, RecordAudit, Emit,
     CallCommission, InitiateCreate, InitiateGateway, SessionStartWrite, SessionWrite,
     LockReservation, At, Cancels, SessionRoutes

\* A step that is not a request's own handler leaves the request as it was.
LEMMA CalculationsKeep ==
    ASSUME NEW q \in Requests, Calculates(q) \/ CalculateFails(q)
    PROVE  UNCHANGED <<reservationVars, moneyVars, session, key, effectVars, requestVars>>
  BY DEF Calculates, CalculateRead, CreateEarning, CalcUnchanged, CalculateFails, DataUnchanged

\* A failure ends a request, or sends a provider event to mark its key.
LEMMA FailureEnds ==
    ASSUME TypeOK, NEW q \in Requests, Abort(q) \/ Crash(q)
    PROVE  /\ req'[q].pc \in {"idle", "fail"} /\ locks'[q] = {}
           /\ UNCHANGED <<reservationVars, moneyVars, session, earning, key, effectVars>>
<1>1. Finish(q) \/ Goto(q, "fail")
  BY DEF Abort, Crash, Reject
<1>2. req'[q].pc \in {"idle", "fail"}
  BY <1>1, FinishIdles, GotoMoves
<1>3. QED
  BY <1>2 DEF Abort, Crash, Reject, Rollback, Release, DataUnchanged, TypeOK, RequestTypeOK
----------------------------------------------------------------------------
(* What is announced has happened.                                         *)

StampsEnd(q) ==
    ConfirmWrite(q) \/ NoShowWrite(q) \/ CancelCommit(q) \/ StartCommit(q) \/ CompleteCommit(q)

\* Stamps are written with the status, by no other step.
LEMMA OnlyStatusWritesStamp ==
    ASSUME NEW q \in Requests, Step(q), ~StampsEnd(q)
    PROVE  UNCHANGED stamps
<1>1. CASE Arrives(q)
  BY <1>1 DEF Arrives, CreateReservation, PublicCheck, UpdateRead, ConfirmRead,
     CancelRead, CustomerCancelRead, StartRead, CompleteRead, NoShowRead, ReadAndValidate,
     InitiateRead, FindKey, WebhookUnchanged, SessionStartRead, PauseSessionRead,
     ResumeSessionRead, StopSessionRead, SessionRead, SessionUnchanged, InsertReservation,
     reservationVars
<1>2. CASE ~Arrives(q)
  BY <1>2 DEF Step, Proceeds, PublicInsert, InsertReservation, UpdateWrite, UpdateConflict,
     UpdateCommit, CancelWrite, StartWrite, StartSession, CompleteWrite, EndSession,
     LockReservation, RecordAudit, Emit, CallCommission, RefundSelect, RefundCredit,
     RefundState, RefundSweep, RefundStep, InitiateCreate, InitiateGateway, CreateKey,
     ReadPayment, PayThenApply, PayThenRefund, LockPayment, ApplyToReservation,
     ApplyCommit, RefundedPaymentCommit, MarkCompleted, MarkFailed, WebhookUnchanged,
     SessionStartWrite, SessionWrite, SessionUnchanged, Calculates, CalculateRead,
     CreateEarning, CalcUnchanged, Abort, Crash, CalculateFails, DataUnchanged,
     reservationVars, StampsEnd
<1>3. QED
  BY <1>1, <1>2

\* A stamp is never taken back.
LEMMA StampsGrow ==
    ASSUME TypeOK, NEW q \in Requests, Step(q), NEW r \in Reservations
    PROVE  stamps[r] \subseteq stamps'[r]
<1>1. CASE StampsEnd(q)
  <2>1. PICK stamped \in SUBSET Stamps : SetStatus(q, stamped)
    BY <1>1 DEF StampsEnd, ConfirmWrite, NoShowWrite, CancelCommit, StartCommit,
       CompleteCommit, Stamps
  <2>2. QED
    BY <2>1 DEF SetStatus, TypeOK, ReservationTypeOK
<1>2. CASE ~StampsEnd(q)
  BY <1>2, OnlyStatusWritesStamp
<1>3. QED
  BY <1>1, <1>2

\* Audit rows and events come from the two steps that follow a write.
LEMMA OnlyAfterwardsTell ==
    ASSUME NEW q \in Requests, Step(q)
    PROVE  /\ ~RecordAudit(q) => UNCHANGED audit
           /\ ~Emit(q) => UNCHANGED outbox
<1>1. CASE Arrives(q)
  BY <1>1 DEF Arrives, CreateReservation, PublicCheck, UpdateRead, ConfirmRead,
     CancelRead, CustomerCancelRead, StartRead, CompleteRead, NoShowRead, ReadAndValidate,
     InitiateRead, FindKey, WebhookUnchanged, SessionStartRead, PauseSessionRead,
     ResumeSessionRead, StopSessionRead, SessionRead, SessionUnchanged, effectVars
<1>2. CASE ~Arrives(q)
  BY <1>2 DEF Step, Proceeds, PublicInsert, UpdateWrite, UpdateConflict,
     UpdateCommit, ConfirmWrite, NoShowWrite, CancelWrite, CancelCommit, StartWrite,
     StartSession, StartCommit, CompleteWrite, EndSession, CompleteCommit,
     LockReservation, RecordAudit, Emit, CallCommission, RefundSelect, RefundCredit,
     RefundState, RefundSweep, RefundStep, InitiateCreate, InitiateGateway, CreateKey,
     ReadPayment, PayThenApply, PayThenRefund, LockPayment, ApplyToReservation,
     ApplyCommit, RefundedPaymentCommit, MarkCompleted, MarkFailed, WebhookUnchanged,
     SessionStartWrite, SessionWrite, SessionUnchanged, Calculates, CalculateRead,
     CreateEarning, CalcUnchanged, Abort, Crash, CalculateFails, DataUnchanged, effectVars
<1>3. QED
  BY <1>1, <1>2

\* What an end announces, and what it has stamped before.
LEMMA TellsItsStamp ==
    ASSUME TypeOK, NEW q \in Requests, StampedOK(q), NEW r \in Reservations
    PROVE  /\ (Emit(q) /\ outbox'[r] # outbox[r]) =>
                 /\ outbox'[r] = "CANCELED" => "canceledAt" \in stamps[r]
                 /\ outbox'[r] = "COMPLETED" => "completedAt" \in stamps[r]
                 /\ outbox'[r] = "NO_SHOW" => "noShowAt" \in stamps[r]
           /\ (RecordAudit(q) /\ audit'[r] # audit[r]) =>
                 /\ audit'[r] = "CANCEL" => "canceledAt" \in stamps[r]
                 /\ audit'[r] = "COMPLETE" => "completedAt" \in stamps[r]
                 /\ audit'[r] = "NOSHOW" => "noShowAt" \in stamps[r]
<1>1. ASSUME Emit(q), outbox'[r] # outbox[r]
      PROVE  /\ outbox'[r] = "CANCELED" => "canceledAt" \in stamps[r]
             /\ outbox'[r] = "COMPLETED" => "completedAt" \in stamps[r]
             /\ outbox'[r] = "NO_SHOW" => "noShowAt" \in stamps[r]
  <2>1. req[q].pc = "emit" /\ req[q].rsv = r /\ outbox'[r] = EventOf[req[q].op]
    BY <1>1 DEF Emit, TypeOK, EffectTypeOK
  <2>2. req[q].op \in Emitting
    BY <2>1, InFlight DEF TypeOK, WellFormed
  <2>3. QED
    BY <2>1, <2>2 DEF EventOf, Emitting, StampedOK, EndStamp
<1>2. ASSUME RecordAudit(q), audit'[r] # audit[r]
      PROVE  /\ audit'[r] = "CANCEL" => "canceledAt" \in stamps[r]
             /\ audit'[r] = "COMPLETE" => "completedAt" \in stamps[r]
             /\ audit'[r] = "NOSHOW" => "noShowAt" \in stamps[r]
  <2>1. /\ req[q].pc = "audit" /\ req[q].rsv = r /\ req[q].op # "customerCancel"
        /\ audit'[r] = AuditOf[req[q].op]
    BY <1>2 DEF RecordAudit, TypeOK, EffectTypeOK
  <2>2. req[q].op \in Auditing \ {"customerCancel"}
    BY <2>1, InFlight DEF TypeOK, WellFormed
  <2>3. QED
    BY <2>1, <2>2 DEF AuditOf, Auditing, Cancels, StampedOK, EndStamp
<1>3. QED
  BY <1>1, <1>2

\* A request comes to its event or audit row with the stamp written.
LEMMA StampedStays ==
    ASSUME TypeOK, AnnounceInv, NEW q \in Requests, Step(q), NEW p \in Requests
    PROVE  StampedOK(p)'
<1>1. StampedOK(p)
  BY DEF AnnounceInv
<1>2. CASE UNCHANGED req
  <2>1. CASE req[p].op \in DOMAIN EndStamp /\ req[p].pc \in {"audit", "emit"}
    <3>1. req[p].rsv \in Reservations
      BY <2>1, InFlight DEF TypeOK
    <3>2. QED
      BY <1>1, <1>2, <3>1, StampsGrow DEF StampedOK
  <2>2. QED
    BY <1>2, <2>1 DEF StampedOK
<1>3. CASE p # q
  <2>1. req'[p] = req[p]
    BY <1>3, ActsAlone
  <2>2. CASE req[p].op \in DOMAIN EndStamp /\ req[p].pc \in {"audit", "emit"}
    <3>1. req[p].rsv \in Reservations
      BY <2>2, InFlight DEF TypeOK
    <3>2. QED
      BY <1>1, <2>1, <3>1, StampsGrow DEF StampedOK
  <2>3. QED
    BY <2>1, <2>2 DEF StampedOK
<1>4. ASSUME p = q, ~UNCHANGED req, req'[q].op \in DOMAIN EndStamp,
             req'[q].pc \in {"audit", "emit"}
      PROVE  EndStamp[req'[q].op] \in stamps'[req'[q].rsv]
  <2>1. /\ req[q].pc # "idle" /\ req'[q].op = req[q].op /\ req'[q].rsv = req[q].rsv
        /\ ~Arrives(q)
    <3>1. ~Arrives(q)
      BY <1>4, ArrivalKnows, ArrivalChecks DEF EndStamp
    <3>2. QED
      BY <1>4, <3>1, LaterStepKeeps DEF Idle
  <2>2. req[q].rsv \in Reservations /\ req[q].op \in Operations
    BY <2>1, InFlight DEF TypeOK
  <2>3. CASE NoShowWrite(q) \/ CancelCommit(q) \/ CompleteCommit(q)
    <3>1. EndStamp[req[q].op] \in stamps'[req[q].rsv]
      BY <2>2, <2>3 DEF NoShowWrite, CancelCommit, CompleteCommit, SetStatus, At, Cancels,
         EndStamp, TypeOK, ReservationTypeOK
    <3>2. QED
      BY <2>1, <3>1
  <2>4. CASE RecordAudit(q) \/ Emit(q)
    <3>1. req[q].pc \in {"audit", "emit"}
      BY <2>4 DEF RecordAudit, Emit
    <3>2. QED
      BY <1>1, <1>4, <2>1, <2>2, <3>1, StampsGrow DEF StampedOK
  <2>5. CASE CancelWrite(q) \/ CompleteWrite(q) \/ EndSession(q)
    <3>1. \/ Finish(q) \/ Goto(q, "refund") \/ Goto(q, "session") \/ Goto(q, "commit")
          \/ \E s \in SessionIds : req' = [req EXCEPT ![q].pc = "commit", ![q].item = s]
      BY <2>5 DEF CancelWrite, CompleteWrite, EndSession, LockReservation, Reject, SessionsIn
    <3>2. QED
      BY <1>4, <3>1, GotoMoves, FinishIdles DEF TypeOK, RequestTypeOK, RequestRecord
  <2>6. CASE RefundSelect(q) \/ RefundCredit(q) \/ RefundState(q) \/ RefundSweep(q)
    <3>1. \/ \E step \in {"commit", "refundState", "sweep"} : Goto(q, step)
          \/ \E due : req' = [req EXCEPT ![q].pc = "credit", ![q].due = due]
      BY <2>6 DEF RefundSelect, RefundCredit, RefundState, RefundSweep, RefundStep
    <3>2. QED
      BY <1>4, <3>1, GotoMoves DEF TypeOK, RequestTypeOK, RequestRecord
  <2>7. CASE CallCommission(q) \/ Abort(q) \/ Crash(q)
    <3>1. Finish(q) \/ Goto(q, "fail")
      BY <2>7 DEF CallCommission, Abort, Crash, Reject
    <3>2. QED
      BY <1>4, <3>1, GotoMoves, FinishIdles
  <2>8. CASE Calculates(q) \/ CalculateFails(q)
    BY <1>4, <2>8, CalculationsKeep DEF requestVars
  <2>9. QED
    BY <1>4, <2>1, <2>3, <2>4, <2>5, <2>6, <2>7, <2>8 DEF Step, Proceeds, PublicInsert,
       UpdateWrite, UpdateConflict, UpdateCommit, ConfirmWrite, StartWrite, StartSession,
       StartCommit, LockReservation, InitiateCreate, InitiateGateway, CreateKey,
       ReadPayment, PayThenApply, PayThenRefund, LockPayment, ApplyToReservation,
       ApplyCommit, RefundedPaymentCommit, MarkCompleted, MarkFailed, SessionStartWrite,
       SessionWrite, At, EndStamp, SessionRoutes
<1>5. QED
  BY <1>2, <1>3, <1>4 DEF StampedOK

\* Every step keeps the invariant about announcements.
LEMMA NextAnnounceInv ==
    ASSUME TypeOK, AnnounceInv, [Next]_vars
    PROVE  AnnounceInv'
<1>1. ASSUME NEW q \in Requests, Step(q) PROVE AnnounceInv'
  <2>1. ASSUME NEW r \in Reservations
        PROVE  /\ (outbox'[r] = "CANCELED" \/ audit'[r] = "CANCEL")
                     => "canceledAt" \in stamps'[r]
               /\ (outbox'[r] = "COMPLETED" \/ audit'[r] = "COMPLETE")
                     => "completedAt" \in stamps'[r]
               /\ (outbox'[r] = "NO_SHOW" \/ audit'[r] = "NOSHOW")
                     => "noShowAt" \in stamps'[r]
    BY <1>1, StampsGrow, TellsItsStamp, OnlyAfterwardsTell
       DEF AnnounceInv, AnnouncedIsCommitted
  <2>2. AnnouncedIsCommitted'
    BY <2>1 DEF AnnouncedIsCommitted
  <2>3. QED
    BY <1>1, <2>2, StampedStays DEF AnnounceInv
<1>2. CASE UNCHANGED vars \/ \E r \in Reservations, i \in PayIds, e \in PaymentEvents :
                                KeyExpires(r, i, e)
  BY <1>2 DEF AnnounceInv, AnnouncedIsCommitted, StampedOK, KeyExpires, DataUnchanged,
     vars, reservationVars, effectVars, requestVars
<1>3. QED
  BY <1>1, <1>2 DEF Next, Step

\* Whatever interleaves, fails or crashes, no event and no audit row tells of
\* a cancellation, completion or no-show that has not been stamped.
THEOREM AnnouncedSafe == Spec => []AnnouncedIsCommitted
<1>1. Init => AnnounceInv
  BY NullAssumption DEF Announcements, AuditActions, Init, Idle, AnnounceInv, AnnouncedIsCommitted, StampedOK
<1>2. TypeOK /\ AnnounceInv /\ [Next]_vars => AnnounceInv'
  BY NextAnnounceInv
<1>3. AnnounceInv => AnnouncedIsCommitted
  BY DEF AnnounceInv
<1>4. QED
  BY <1>1, <1>2, <1>3, TypeCorrect, PTL DEF Spec
----------------------------------------------------------------------------
(* Cancellations leave nothing paid.                                       *)

\* A refund that is past its selection came there from the selection.
LEMMA SelectedBy ==
    ASSUME TypeOK, NEW q \in Requests, Step(q),
           req'[q].op \in Refunding, req'[q].pc \in Selected
    PROVE  /\ req[q].pc # "idle" /\ req'[q].op = req[q].op /\ req'[q].rsv = req[q].rsv
           /\ req'[q].item = req[q].item /\ req'[q].event = req[q].event
           /\ \/ RefundSelect(q)
              \/ /\ RefundCredit(q) \/ RefundState(q) \/ RefundSweep(q)
                 /\ req'[q].due = req[q].due
              \/ UNCHANGED <<reservationVars, moneyVars, key, requestVars>>
<1> USE DEF Selected
<1>1. ~Arrives(q)
  BY ArrivalKnows
<1>2. CASE Calculates(q) \/ CalculateFails(q)
  BY <1>2, CalculationsKeep DEF requestVars, Refunding, Cancels, TypeOK, RequestTypeOK,
     WellFormed, Idle
<1>3. CASE ~(Calculates(q) \/ CalculateFails(q))
  <2>1. ~(Abort(q) \/ Crash(q))
    BY FailureEnds
  <2>2. Proceeds(q)
    BY <1>1, <1>3, <2>1 DEF Step
  <2>3. req[q].pc # "idle" /\ req'[q].op = req[q].op /\ req'[q].rsv = req[q].rsv
    BY <2>2, ProceedsKeeps DEF Idle
  <2>4. ASSUME NEW step \in Steps, Goto(q, step)
        PROVE  /\ step \in Selected /\ req'[q].due = req[q].due
               /\ req'[q].item = req[q].item /\ req'[q].event = req[q].event
    BY <2>4, GotoMoves
  <2>5. ~Finish(q)
    BY FinishIdles
  <2>6. CASE RefundSelect(q)
    <3>1. Goto(q, "commit") \/ \E due : req' = [req EXCEPT ![q].pc = "credit", ![q].due = due]
      BY <2>6 DEF RefundSelect
    <3>2. QED
      BY <2>3, <2>4, <2>6, <3>1 DEF TypeOK, RequestTypeOK, RequestRecord, Steps
  <2>7. CASE RefundCredit(q) \/ RefundState(q) \/ RefundSweep(q)
    <3>1. \E step \in {"refundState", "sweep", "commit"} : Goto(q, step)
      BY <2>7 DEF RefundCredit, RefundState, RefundSweep, RefundStep
    <3>2. QED
      BY <2>3, <2>4, <2>7, <3>1 DEF Steps
  <2>8. CASE req[q].op \in Cancels
    <3>1. ~(CancelWrite(q) \/ CancelCommit(q) \/ Emit(q) \/ RecordAudit(q))
      <4>1. ASSUME CancelWrite(q) \/ CancelCommit(q) \/ Emit(q) \/ RecordAudit(q)
            PROVE  Finish(q) \/ \E step \in {"refund", "emit", "audit", "commission"} :
                                   Goto(q, step)
        BY <2>8, <4>1 DEF CancelWrite, LockReservation, CancelCommit, Emit, RecordAudit, Cancels
      <4>2. QED
        BY <2>4, <2>5, <4>1 DEF Steps
    <3>2. QED
      BY <1>3, <2>1, <2>3, <2>6, <2>7, <2>8, <3>1, CancelSteps
  <2>9. CASE req[q].op = "webhook"
    <3>1. ~(\/ CreateKey(q) \/ ReadPayment(q) \/ PayThenApply(q) \/ PayThenRefund(q)
            \/ ApplyToReservation(q) \/ ApplyCommit(q) \/ RefundedPaymentCommit(q)
            \/ MarkCompleted(q) \/ MarkFailed(q))
      <4>1. ASSUME \/ CreateKey(q) \/ ReadPayment(q) \/ PayThenApply(q) \/ PayThenRefund(q)
                   \/ ApplyToReservation(q) \/ ApplyCommit(q) \/ RefundedPaymentCommit(q)
                   \/ MarkCompleted(q) \/ MarkFailed(q)
            PROVE  Finish(q) \/ \E step \in {"read", "payThenApply", "payThenRefund", "fail",
                                             "refund", "apply", "applied", "ack"} : Goto(q, step)
        BY <4>1 DEF CreateKey, ReadPayment, PayThenApply, PayThenRefund, LockPayment,
           ApplyToReservation, ApplyCommit, RefundedPaymentCommit, MarkCompleted, MarkFailed
      <4>2. QED
        BY <2>4, <2>5, <4>1 DEF Steps
    <3>2. QED
      BY <1>3, <2>1, <2>3, <2>6, <2>7, <2>9, <3>1, WebhookSteps
  <2>10. QED
    BY <2>3, <2>8, <2>9 DEF Refunding
<1>4. QED
  BY <1>2, <1>3

MovesMoney(q) ==
    InitiateCreate(q) \/ CancelCommit(q) \/ ApplyCommit(q) \/ RefundedPaymentCommit(q)

\* Payments and credits change in four steps only.
LEMMA OnlyFourMoveMoney ==
    ASSUME NEW q \in Requests, Step(q), ~MovesMoney(q)
    PROVE  UNCHANGED <<payment, credits>>
<1>1. CASE Arrives(q)
  BY <1>1 DEF Arrives, CreateReservation, PublicCheck, UpdateRead, ConfirmRead,
     CancelRead, CustomerCancelRead, StartRead, CompleteRead, NoShowRead, ReadAndValidate,
     InitiateRead, FindKey, WebhookUnchanged, SessionStartRead, PauseSessionRead,
     ResumeSessionRead, StopSessionRead, SessionRead, SessionUnchanged, moneyVars
<1>2. CASE ~Arrives(q)
  BY <1>2 DEF Step, Proceeds, PublicInsert, UpdateWrite, UpdateConflict,
     UpdateCommit, ConfirmWrite, NoShowWrite, CancelWrite, StartWrite,
     StartSession, StartCommit, CompleteWrite, EndSession, CompleteCommit,
     LockReservation, RecordAudit, Emit, CallCommission, RefundSelect, RefundCredit,
     RefundState, RefundSweep, RefundStep, InitiateGateway, CreateKey,
     ReadPayment, PayThenApply, PayThenRefund, LockPayment, ApplyToReservation,
     MarkCompleted, MarkFailed, WebhookUnchanged,
     SessionStartWrite, SessionWrite, SessionUnchanged, Calculates, CalculateRead,
     CreateEarning, CalcUnchanged, Abort, Crash, CalculateFails, DataUnchanged, moneyVars,
     MovesMoney
<1>3. QED
  BY <1>1, <1>2

\* What a refund writes, payment by payment.
LEMMA RefundWrites ==
    ASSUME TypeOK, NEW q \in Requests, req[q].rsv \in Reservations, RefundCommitted(q)
    PROVE  \A r \in Reservations, i \in PayIds :
              /\ credits'[r][i] = IF r = req[q].rsv /\ i \in req[q].due THEN credits[r][i] + 1
                                  ELSE credits[r][i]
              /\ payment'[r][i] = IF r = req[q].rsv /\ PaymentRow(r, i) \in locks[q]
                                  THEN "REFUNDED" ELSE payment[r][i]
  BY DEF RefundCommitted, TypeOK, MoneyTypeOK

\* A credit is never taken back, and what is paid for a reservation changes
\* only once it has a refund or under the lock of its row.
LEMMA MoneyEffect ==
    ASSUME TypeOK, RowInv, NEW q \in Requests, RefundOK(q), Step(q), NEW r \in Reservations
    PROVE  /\ \A i \in PayIds : credits[r][i] <= credits'[r][i]
           /\ RefundExists(r) => RefundExists(r)'
           /\ \/ PaidOf(r)' = PaidOf(r) /\ (\A i \in PayIds : credits'[r][i] = credits[r][i])
              \/ RefundExists(r)
              \/ req[q].rsv = r /\ ReservationRow(r) \in locks[q]
<1>1. \A i \in PayIds : credits[r][i] \in Nat
  BY DEF TypeOK, MoneyTypeOK
<1>2. /\ \A i \in PayIds : credits[r][i] <= credits'[r][i] /\ credits'[r][i] \in Nat
      /\ \/ PaidOf(r)' = PaidOf(r) /\ (\A i \in PayIds : credits'[r][i] = credits[r][i])
         \/ RefundExists(r)
         \/ req[q].rsv = r /\ ReservationRow(r) \in locks[q]
  <2>1. CASE ~MovesMoney(q)
    BY <1>1, <2>1, OnlyFourMoveMoney DEF PaidOf
  <2>2. CASE InitiateCreate(q)
    <3>1. PICK i \in PayIds :
             /\ payment[req[q].rsv][i] = "ABSENT"
             /\ payment' = [payment EXCEPT ![req[q].rsv][i] = "INITIATED"]
      BY <2>2 DEF InitiateCreate
    <3>2. req[q].rsv \in Reservations
      BY <2>2, InFlight DEF InitiateCreate, At, TypeOK
    <3>3. \A x \in PayIds : payment'[r][x] = "PAID" <=> payment[r][x] = "PAID"
      BY <3>1, <3>2 DEF TypeOK, MoneyTypeOK
    <3>4. UNCHANGED credits
      BY <2>2 DEF InitiateCreate
    <3>5. QED
      BY <1>1, <3>3, <3>4 DEF PaidOf
  <2>3. CASE CancelCommit(q) \/ ApplyCommit(q) \/ RefundedPaymentCommit(q)
    <3>1. req[q].pc # "idle" /\ req[q].rsv \in Reservations
      BY <2>3, InFlight DEF CancelCommit, ApplyCommit, RefundedPaymentCommit, At, TypeOK
    <3>2. RefundCommitted(q) \/ UNCHANGED credits
      BY <2>3 DEF CancelCommit, ApplyCommit, RefundedPaymentCommit
    <3>3. \A i \in PayIds : credits[r][i] <= credits'[r][i] /\ credits'[r][i] \in Nat
      BY <1>1, <3>1, <3>2, RefundWrites
    <3>4. CASE r # req[q].rsv
      <4>1. \A i \in PayIds : credits'[r][i] = credits[r][i] /\ payment'[r][i] = payment[r][i]
        <5>1. CASE RefundCommitted(q)
          BY <3>1, <3>4, <5>1, RefundWrites
        <5>2. CASE ~RefundCommitted(q)
          BY <2>3, <3>1, <3>4, <5>2 DEF CancelCommit, ApplyCommit, RefundedPaymentCommit,
             TypeOK, MoneyTypeOK
        <5>3. QED
          BY <5>1, <5>2
      <4>2. QED
        BY <3>3, <4>1 DEF PaidOf
    <3>5. CASE r = req[q].rsv
      <4>1. WritesRow(q) \/ (At(q, {"webhook"}, "commit") /\ req[q].due = {})
        BY <2>3 DEF CancelCommit, ApplyCommit, RefundedPaymentCommit, At, WritesRow, Cancels
      <4>2. QED
        BY <3>3, <3>5, <4>1 DEF RowInv, WritersHoldRow, RefundOK, At
    <3>6. QED
      BY <3>4, <3>5
  <2>4. QED
    BY <2>1, <2>2, <2>3 DEF MovesMoney
<1>3. RefundExists(r) => RefundExists(r)'
  BY <1>1, <1>2 DEF RefundExists
<1>4. QED
  BY <1>2, <1>3

\* A refund's own steps keep what it knows of the payments.
LEMMA OwnRefundStays ==
    ASSUME TypeOK, NEW q \in Requests, RefundOK(q), Step(q)
    PROVE  RefundOK(q)'
<1>1. CASE req'[q].op \in Refunding /\ req'[q].pc \in Selected
  <2>1. /\ req[q].pc # "idle" /\ req'[q].op = req[q].op /\ req'[q].rsv = req[q].rsv
        /\ \/ RefundSelect(q)
           \/ /\ RefundCredit(q) \/ RefundState(q) \/ RefundSweep(q)
              /\ req'[q].due = req[q].due
           \/ UNCHANGED <<moneyVars, requestVars>>
    BY <1>1, SelectedBy
  <2>2. req[q].rsv \in Reservations
    BY <2>1, InFlight DEF TypeOK
  <2>3. CASE RefundSelect(q)
    <3>1. UNCHANGED <<payment, credits>>
      BY <2>3 DEF RefundSelect, moneyVars
    <3>2. CASE Goto(q, "commit")
      <4>1. PaidOf(req[q].rsv) \cup OwnPaid(q) = {} \/ RefundExists(req[q].rsv)
        <5>1. ~(req' = [req EXCEPT ![q].pc = "credit",
                                   ![q].due = PaidOf(req[q].rsv) \cup OwnPaid(q)])
          BY <3>2, GotoMoves DEF TypeOK, RequestTypeOK, RequestRecord
        <5>2. QED
          BY <2>3, <5>1 DEF RefundSelect
      <4>2. req'[q].pc = "commit"
        BY <3>2, GotoMoves
      <4>3. QED
        BY <2>1, <3>1, <4>1, <4>2 DEF RefundOK, OwnPaid, RefundExists, PaidOf, Selected
    <3>3. CASE ~Goto(q, "commit")
      <4>1. /\ req' = [req EXCEPT ![q].pc = "credit",
                                  ![q].due = PaidOf(req[q].rsv) \cup OwnPaid(q)]
            /\ PaidOf(req[q].rsv) \cup OwnPaid(q) # {}
        BY <2>3, <3>3 DEF RefundSelect
      <4>2. req'[q].pc = "credit" /\ req'[q].due # {}
        BY <4>1 DEF TypeOK, RequestTypeOK, RequestRecord
      <4>3. QED
        BY <4>2 DEF RefundOK
    <3>4. QED
      BY <3>2, <3>3
  <2>4. CASE (RefundCredit(q) \/ RefundState(q) \/ RefundSweep(q)) /\ req'[q].due = req[q].due
    <3>1. req[q].due # {} /\ UNCHANGED <<payment, credits>>
      BY <2>4 DEF RefundOK, RefundCredit, RefundState, RefundSweep, RefundStep, At, Selected,
         moneyVars
    <3>2. CASE RefundSweep(q)
      <4>1. \A i \in PaidOf(req[q].rsv) : PaymentRow(req[q].rsv, i) \in locks'[q]
        BY <3>2 DEF RefundSweep, RefundStep, Lock, TypeOK, RequestTypeOK
      <4>2. QED
        BY <2>1, <2>4, <3>1, <4>1 DEF RefundOK, PaidOf
    <3>3. CASE RefundCredit(q) \/ RefundState(q)
      <4>1. req'[q].pc # "commit"
        BY <3>3, GotoMoves DEF RefundCredit, RefundState, RefundStep
      <4>2. QED
        BY <2>4, <3>1, <4>1 DEF RefundOK
    <3>4. QED
      BY <2>4, <3>2, <3>3
  <2>5. CASE UNCHANGED <<moneyVars, requestVars>>
    BY <2>5 DEF RefundOK, RefundExists, PaidOf, moneyVars, requestVars
  <2>6. QED
    BY <2>1, <2>3, <2>4, <2>5
<1>2. CASE ~(req'[q].op \in Refunding /\ req'[q].pc \in Selected)
  BY <1>2 DEF RefundOK, Refunding, Selected
<1>3. QED
  BY <1>1, <1>2

\* Nor does another request change it: a cancellation at its commit holds
\* the row that every change of what is paid needs.
LEMMA OthersRefundsStay ==
    ASSUME TypeOK, RowInv, RefundInv, NEW q \in Requests, Step(q), NEW p \in Requests \ {q}
    PROVE  RefundOK(p)'
<1>1. req'[p] = req[p] /\ locks'[p] = locks[p] /\ RefundOK(p) /\ RefundOK(q)
  BY ActsAlone DEF RefundInv
<1>2. CASE req[p].pc = "idle"
  BY <1>1, <1>2 DEF RefundOK, Selected
<1>3. CASE req[p].pc # "idle"
  <2>1. req[p].rsv \in Reservations
    BY <1>3, InFlight DEF TypeOK
  <2>2. RefundExists(req[p].rsv) => RefundExists(req[p].rsv)'
    BY <1>1, <2>1, MoneyEffect
  <2>3. (req[p].op \in Cancels /\ req[p].pc = "commit") =>
           RefundExists(req[p].rsv) \/ PaidOf(req[p].rsv)' = PaidOf(req[p].rsv)
    <3>1. (req[p].op \in Cancels /\ req[p].pc = "commit") => ReservationRow(req[p].rsv) \in locks[p]
      BY DEF RowInv, WritersHoldRow, WritesRow
    <3>2. QED
      BY <1>1, <2>1, <3>1, MoneyEffect DEF RowInv, LocksExclusive
  <2>4. QED
    BY <1>1, <2>2, <2>3 DEF RefundOK, PaidOf, RefundExists
<1>4. QED
  BY <1>2, <1>3

\* Every step keeps what refunds know.
LEMMA NextRefundInv ==
    ASSUME TypeOK, RowInv, RefundInv, [Next]_vars
    PROVE  RefundInv'
<1>1. ASSUME NEW q \in Requests, Step(q) PROVE RefundInv'
  BY <1>1, OwnRefundStays, OthersRefundsStay DEF RefundInv
<1>2. CASE UNCHANGED vars \/ \E r \in Reservations, i \in PayIds, e \in PaymentEvents :
                                KeyExpires(r, i, e)
  BY <1>2 DEF RefundInv, RefundOK, PaidOf, RefundExists, KeyExpires, DataUnchanged,
     vars, moneyVars, requestVars
<1>3. QED
  BY <1>1, <1>2 DEF Next, Step

\* After its arrival a request moves a status by an insert or a status write.
LEMMA OnlyTheseMoveStatus ==
    ASSUME NEW q \in Requests, Step(q), ~Arrives(q), ~PublicInsert(q), ~StampsEnd(q)
    PROVE  UNCHANGED status
  BY DEF Step, Proceeds, UpdateWrite, UpdateConflict,
     UpdateCommit, CancelWrite, StartWrite, StartSession, CompleteWrite, EndSession,
     LockReservation, RecordAudit, Emit, CallCommission, RefundSelect, RefundCredit,
     RefundState, RefundSweep, RefundStep, InitiateCreate, InitiateGateway, CreateKey,
     ReadPayment, PayThenApply, PayThenRefund, LockPayment, ApplyToReservation,
     ApplyCommit, RefundedPaymentCommit, MarkCompleted, MarkFailed, WebhookUnchanged,
     SessionStartWrite, SessionWrite, SessionUnchanged, Calculates, CalculateRead,
     CreateEarning, CalcUnchanged, Abort, Crash, CalculateFails, DataUnchanged,
     reservationVars, StampsEnd

\* Only the commit of a cancellation cancels.
LEMMA OnlyCancelsCancel ==
    ASSUME TypeOK, NEW q \in Requests, Step(q), NEW r \in Reservations,
           status[r] # "CANCELED", status'[r] = "CANCELED"
    PROVE  CancelCommit(q) /\ req[q].rsv = r
<1>1. CASE CancelCommit(q)
  BY <1>1 DEF CancelCommit, SetStatus, TypeOK, ReservationTypeOK
<1>2. CASE ConfirmWrite(q) \/ NoShowWrite(q) \/ StartCommit(q) \/ CompleteCommit(q)
  BY <1>2 DEF ConfirmWrite, NoShowWrite, StartCommit, CompleteCommit, SetStatus, Target, At,
     TypeOK, ReservationTypeOK
<1>3. CASE PublicInsert(q)
  BY <1>3 DEF PublicInsert, InsertReservation, TypeOK, ReservationTypeOK
<1>4. CASE Arrives(q)
  BY <1>4, ArrivalKnows DEF TypeOK, ReservationTypeOK
<1>5. CASE ~Arrives(q) /\ ~PublicInsert(q) /\ ~StampsEnd(q)
  BY <1>5, OnlyTheseMoveStatus
<1>6. QED
  BY <1>1, <1>2, <1>3, <1>4, <1>5 DEF StampsEnd

\* A cancellation sweeps every payment that is paid when it commits.
LEMMA CancelSweeps ==
    ASSUME TypeOK, RefundInv, [Next]_vars, NEW r \in Reservations,
           status[r] # "CANCELED", status'[r] = "CANCELED", PaidOf(r)' # {}
    PROVE  RefundExists(r)
<1>1. PICK q \in Requests : Step(q)
  BY NextCases DEF reservationVars
<1>2. CancelCommit(q) /\ req[q].rsv = r
  BY <1>1, OnlyCancelsCancel
<1>3. CASE RefundExists(r)
  BY <1>3
<1>4. CASE PaidOf(r) = {} /\ ~RefundCommitted(q)
  BY <1>2, <1>4 DEF CancelCommit, PaidOf
<1>5. CASE RefundCommitted(q) /\ \A i \in PaidOf(r) : PaymentRow(r, i) \in locks[q]
  <2>1. \A i \in PayIds : payment'[r][i] # "PAID"
    BY <1>2, <1>5, RefundWrites DEF PaidOf
  <2>2. QED
    BY <2>1 DEF PaidOf
<1>6. QED
  <2>1. req[q].op \in Cancels /\ req[q].pc = "commit" /\ RefundOK(q)
    BY <1>2 DEF CancelCommit, At, RefundInv
  <2>2. req[q].due # {} => RefundCommitted(q)
    BY <1>2 DEF CancelCommit
  <2>3. QED
    BY <1>2, <1>3, <1>4, <1>5, <2>1, <2>2 DEF RefundOK

\* What a refund has found still holds at every step of its transaction.
LEMMA RefundsHold == Spec => []RefundInv
<1>1. Init => RefundInv
  BY DEF Init, Idle, RefundInv, RefundOK, Selected
<1>2. TypeOK /\ RowInv /\ RefundInv /\ [Next]_vars => RefundInv'
  BY NextRefundInv
<1>3. QED
  BY <1>1, <1>2, TypeCorrect, RowsProtected, PTL DEF Spec

\* Whatever provider events, other cancellations and failures come between
\* its statements, a cancellation leaves no payment paid behind unless the
\* reservation had been refunded before.
THEOREM CancelSafe == Spec => CancelLeavesNothingPaid
<1>1. TypeOK /\ RefundInv /\ [Next]_vars =>
         [\A r \in Reservations :
            (status[r] # "CANCELED" /\ status'[r] = "CANCELED" /\ PaidOf(r)' # {})
                => RefundExists(r)]_vars
  BY CancelSweeps
<1>2. QED
  BY <1>1, RefundsHold, TypeCorrect, PTL DEF Spec, CancelLeavesNothingPaid
----------------------------------------------------------------------------
(* A cancellation refunds no reservation again, however many payments.     *)

\* Whoever credits a reservation is at the commit of a refund, and holds the
\* reservation's row.
LEMMA CreditEffect ==
    ASSUME TypeOK, RowInv, NEW q \in Requests, Step(q), NEW r \in Reservations,
           credits'[r] # credits[r]
    PROVE  /\ CancelCommit(q) \/ RefundedPaymentCommit(q)
           /\ req[q].rsv = r /\ req[q].due # {}
           /\ ReservationRow(r) \in locks[q]
<1>1. MovesMoney(q)
  BY OnlyFourMoveMoney
<1>2. CancelCommit(q) \/ RefundedPaymentCommit(q)
  BY <1>1 DEF MovesMoney, InitiateCreate, ApplyCommit
<1>3. req[q].due # {} /\ RefundCommitted(q)
  BY <1>2 DEF CancelCommit, RefundedPaymentCommit
<1>4. req[q].rsv = r
  BY <1>3 DEF RefundCommitted, TypeOK, MoneyTypeOK
<1>5. WritesRow(q)
  BY <1>2, <1>3 DEF CancelCommit, RefundedPaymentCommit, At, WritesRow
<1>6. QED
  BY <1>2, <1>3, <1>4, <1>5 DEF RowInv, WritersHoldRow

\* What a cancellation has selected has not been refunded, and its own steps
\* up to the commit refund nothing.
LEMMA OwnDueStays ==
    ASSUME TypeOK, NEW q \in Requests, DueIsFresh(q), Step(q), DueIsSelected
    PROVE  DueIsFresh(q)'
<1>1. CASE req'[q].op \in Refunding /\ req'[q].pc \in Selected
  <2>1. /\ req[q].pc # "idle" /\ req'[q].op = req[q].op /\ req'[q].rsv = req[q].rsv
        /\ \/ RefundSelect(q)
           \/ /\ RefundCredit(q) \/ RefundState(q) \/ RefundSweep(q)
              /\ req'[q].due = req[q].due
           \/ UNCHANGED <<moneyVars, requestVars>>
    BY <1>1, SelectedBy
  <2>2. CASE RefundSelect(q)
    <3>1. UNCHANGED credits /\ req[q].due = {}
      BY <2>2 DEF RefundSelect, moneyVars, At, DueIsSelected
    <3>2. req'[q].due = {} \/ ~RefundExists(req[q].rsv)
      <4>1. CASE Goto(q, "commit")
        BY <3>1, <4>1, GotoMoves
      <4>2. CASE ~Goto(q, "commit")
        BY <2>2, <4>2 DEF RefundSelect
      <4>3. QED
        BY <4>1, <4>2
    <3>3. QED
      BY <2>1, <3>1, <3>2 DEF DueIsFresh, RefundExists
  <2>3. CASE (RefundCredit(q) \/ RefundState(q) \/ RefundSweep(q)) /\ req'[q].due = req[q].due
    <3>1. req[q].pc \in Selected /\ UNCHANGED credits
      BY <2>3 DEF RefundCredit, RefundState, RefundSweep, RefundStep, At, Selected, moneyVars
    <3>2. QED
      BY <2>1, <2>3, <3>1 DEF DueIsFresh, RefundExists
  <2>4. CASE UNCHANGED <<moneyVars, requestVars>>
    BY <2>4 DEF DueIsFresh, RefundExists, moneyVars, requestVars
  <2>5. QED
    BY <2>1, <2>2, <2>3, <2>4
<1>2. CASE ~(req'[q].op \in Refunding /\ req'[q].pc \in Selected)
  BY <1>2 DEF DueIsFresh, Refunding
<1>3. QED
  BY <1>1, <1>2

\* No other request refunds it either: that takes the reservation's row,
\* which the cancellation holds.
LEMMA OthersDueStays ==
    ASSUME TypeOK, RowInv, NEW q \in Requests, Step(q),
           NEW p \in Requests \ {q}, DueIsFresh(p)
    PROVE  DueIsFresh(p)'
<1>1. req'[p] = req[p]
  BY ActsAlone
<1>2. CASE req[p].op \in Cancels /\ req[p].pc \in Selected
  <2>1. req[p].rsv \in Reservations /\ ReservationRow(req[p].rsv) \in locks[p]
    BY <1>2, InFlight DEF TypeOK, RowInv, WritersHoldRow, WritesRow, Selected
  <2>2. ReservationRow(req[p].rsv) \notin locks[q]
    BY <2>1 DEF RowInv, LocksExclusive
  <2>3. credits'[req[p].rsv] = credits[req[p].rsv]
    BY <2>1, <2>2, CreditEffect
  <2>4. QED
    BY <1>1, <2>3 DEF DueIsFresh, RefundExists
<1>3. CASE ~(req[p].op \in Cancels /\ req[p].pc \in Selected)
  BY <1>1, <1>3 DEF DueIsFresh
<1>4. QED
  BY <1>2, <1>3

\* Every step keeps what cancellations have selected fresh.
LEMMA NextFreshInv ==
    ASSUME TypeOK, RowInv, FreshInv, [Next]_vars
    PROVE  FreshInv'
<1>1. ASSUME NEW q \in Requests, Step(q) PROVE FreshInv'
  <2>1. DueIsFresh(q)'
    BY <1>1, OwnDueStays DEF FreshInv, RowInv
  <2>2. \A p \in Requests \ {q} : DueIsFresh(p)'
    BY <1>1, OthersDueStays DEF FreshInv
  <2>3. QED
    BY <2>1, <2>2 DEF FreshInv
<1>2. CASE UNCHANGED vars \/ \E r \in Reservations, i \in PayIds, e \in PaymentEvents :
                                KeyExpires(r, i, e)
  BY <1>2 DEF FreshInv, DueIsFresh, RefundExists, KeyExpires, DataUnchanged, vars,
     moneyVars, requestVars
<1>3. QED
  BY <1>1, <1>2 DEF Next, Step

\* Whoever credits a refunded reservation is a provider event's refund: it
\* cannot be a cancellation, whose dues are fresh.
LEMMA RefundedAgain ==
    ASSUME TypeOK, RowInv, FreshInv, NEW q \in Requests, Step(q), NEW r \in Reservations,
           RefundExists(r), credits'[r] # credits[r]
    PROVE  RefundsNow(q, r)
<1>1. /\ CancelCommit(q) \/ RefundedPaymentCommit(q)
      /\ req[q].rsv = r /\ req[q].due # {}
  BY CreditEffect
<1>2. ~CancelCommit(q)
  <2>1. req[q].op \in Cancels => req[q].pc # "commit"
    BY <1>1 DEF FreshInv, DueIsFresh, Selected
  <2>2. QED
    BY <2>1 DEF CancelCommit, At
<1>3. At(q, {"webhook"}, "commit") /\ Goto(q, "ack")
  BY <1>1, <1>2 DEF RefundedPaymentCommit
<1>4. req'[q].pc = "ack"
  BY <1>3, GotoMoves
<1>5. QED
  BY <1>1, <1>3, <1>4 DEF RefundsNow

\* For any number of payments and requests, and in any interleaving with
\* provider events and failures, no cancellation refunds a reservation that
\* has been refunded; only a provider event can.
THEOREM CreditSafe == Spec => OnlyEventsRefundAgain
<1>1. Init => FreshInv
  BY DEF Init, Idle, FreshInv, DueIsFresh, Selected
<1>2. TypeOK /\ RowInv /\ FreshInv /\ [Next]_vars => FreshInv'
  BY NextFreshInv
<1>3. TypeOK /\ RowInv /\ FreshInv /\ [Next]_vars =>
         [\A r \in Reservations : (RefundExists(r) /\ credits'[r] # credits[r])
             => \E q \in Requests : RefundsNow(q, r)]_vars
  <2>1. ASSUME TypeOK, RowInv, FreshInv, NEW q \in Requests, Step(q)
        PROVE  \A r \in Reservations : (RefundExists(r) /\ credits'[r] # credits[r])
                   => \E p \in Requests : RefundsNow(p, r)
    BY <2>1, RefundedAgain
  <2>2. ASSUME NEW r \in Reservations, NEW i \in PayIds, NEW e \in PaymentEvents,
               KeyExpires(r, i, e)
        PROVE  UNCHANGED credits
    BY <2>2 DEF KeyExpires, DataUnchanged, moneyVars
  <2>3. QED
    BY <2>1, <2>2 DEF Next, Step
<1>4. QED
  BY <1>1, <1>2, <1>3, TypeCorrect, RowsProtected, PTL DEF Spec, OnlyEventsRefundAgain
----------------------------------------------------------------------------
(* While no key expires, only what the provider reported is credited.      *)

\* No key expires in the time that is looked at.
NoExpiry == "expire" \notin Enabled

\* Who writes keys, calculations and earnings.
LEMMA OnlyTheseKeyAndCharge ==
    ASSUME NEW q \in Requests, Step(q)
    PROVE  /\ ~CreateKey(q) /\ ~MarkCompleted(q) /\ ~MarkFailed(q) => UNCHANGED key
           /\ ~CreateEarning(q) => UNCHANGED earning
           /\ (/\ ~ApplyToReservation(q) /\ ~CallCommission(q) /\ ~CalculateRead(q)
               /\ ~CreateEarning(q) /\ ~CalculateFails(q) /\ ~Crash(q)) => UNCHANGED calc
<1>1. CASE Arrives(q)
  BY <1>1 DEF Arrives, CreateReservation, PublicCheck, UpdateRead, ConfirmRead,
     CancelRead, CustomerCancelRead, StartRead, CompleteRead, NoShowRead, ReadAndValidate,
     InitiateRead, FindKey, WebhookUnchanged, SessionStartRead, PauseSessionRead,
     ResumeSessionRead, StopSessionRead, SessionRead, SessionUnchanged, commissionVars
<1>2. CASE ~Arrives(q)
  <2>1. ~CreateKey(q) /\ ~MarkCompleted(q) /\ ~MarkFailed(q) => UNCHANGED key
    BY <1>2 DEF Step, Proceeds, PublicInsert, UpdateWrite, UpdateConflict,
       UpdateCommit, ConfirmWrite, NoShowWrite, CancelWrite, CancelCommit, StartWrite,
       StartSession, StartCommit, CompleteWrite, EndSession, CompleteCommit,
       LockReservation, RecordAudit, Emit, RefundSelect, RefundCredit,
       RefundState, RefundSweep, RefundStep, InitiateCreate, InitiateGateway,
       ReadPayment, PayThenApply, PayThenRefund, LockPayment, ApplyCommit,
       RefundedPaymentCommit, WebhookUnchanged, SessionStartWrite, SessionWrite,
       SessionUnchanged, Calculates, CalcUnchanged, Abort, DataUnchanged, commissionVars, CallCommission,
       ApplyToReservation, CalculateRead, CreateEarning, CalculateFails, Crash
  <2>2. ~CreateEarning(q) => UNCHANGED earning
    BY <1>2 DEF Step, Proceeds, PublicInsert, UpdateWrite, UpdateConflict,
       UpdateCommit, ConfirmWrite, NoShowWrite, CancelWrite, CancelCommit, StartWrite,
       StartSession, StartCommit, CompleteWrite, EndSession, CompleteCommit,
       LockReservation, RecordAudit, Emit, RefundSelect, RefundCredit,
       RefundState, RefundSweep, RefundStep, InitiateCreate, InitiateGateway,
       ReadPayment, PayThenApply, PayThenRefund, LockPayment, ApplyCommit,
       RefundedPaymentCommit, WebhookUnchanged, SessionStartWrite, SessionWrite,
       SessionUnchanged, Calculates, CalcUnchanged, Abort, DataUnchanged, commissionVars, CallCommission,
       ApplyToReservation, CalculateRead, CalculateFails, Crash, CreateKey, MarkCompleted,
       MarkFailed
  <2>3. (/\ ~ApplyToReservation(q) /\ ~CallCommission(q) /\ ~CalculateRead(q)
         /\ ~CreateEarning(q) /\ ~CalculateFails(q) /\ ~Crash(q)) => UNCHANGED calc
    BY <1>2 DEF Step, Proceeds, PublicInsert, UpdateWrite, UpdateConflict,
       UpdateCommit, ConfirmWrite, NoShowWrite, CancelWrite, CancelCommit, StartWrite,
       StartSession, StartCommit, CompleteWrite, EndSession, CompleteCommit,
       LockReservation, RecordAudit, Emit, RefundSelect, RefundCredit,
       RefundState, RefundSweep, RefundStep, InitiateCreate, InitiateGateway,
       ReadPayment, PayThenApply, PayThenRefund, LockPayment, ApplyCommit,
       RefundedPaymentCommit, WebhookUnchanged, SessionStartWrite, SessionWrite,
       SessionUnchanged, Calculates, CalcUnchanged, Abort, DataUnchanged, commissionVars, CreateKey,
       MarkCompleted, MarkFailed
  <2>4. QED
    BY <2>1, <2>2, <2>3
<1>3. QED
  BY <1>1, <1>2

\* One key of the table of keys is written, the others keep their values.
LEMMA KeyWritten ==
    ASSUME TypeOK, NEW q \in Requests, req[q].op = "webhook", req[q].pc # "idle",
           NEW st \in KeyStatus, SetKey(q, st)
    PROVE  /\ \A r \in Reservations, i \in PayIds, e \in PaymentEvents :
                 key'[r][i][e] = key[r][i][e] \/ key'[r][i][e] = st
           /\ key'[req[q].rsv][req[q].item][req[q].event] = st
<1>1. /\ req[q].rsv \in Reservations /\ req[q].item \in PayIds
      /\ req[q].event \in PaymentEvents
  BY InFlight DEF TypeOK, WellFormed
<1> DEFINE events == [key[req[q].rsv][req[q].item] EXCEPT ![req[q].event] = st]
           items == [key[req[q].rsv] EXCEPT ![req[q].item] = events]
<1>2. key' = [key EXCEPT ![req[q].rsv] = items]
  BY DEF SetKey
<1>3. /\ items[req[q].item] = events
      /\ \A i \in PayIds \ {req[q].item} : items[i] = key[req[q].rsv][i]
  BY <1>1 DEF TypeOK, KeyTypeOK
<1>4. /\ events[req[q].event] = st
      /\ \A e \in PaymentEvents : events[e] = key[req[q].rsv][req[q].item][e] \/ events[e] = st
  BY <1>1 DEF TypeOK, KeyTypeOK
<1> HIDE DEF events, items
<1>5. key'[req[q].rsv] = items /\ \A r \in Reservations \ {req[q].rsv} : key'[r] = key[r]
  BY <1>1, <1>2 DEF TypeOK, KeyTypeOK
<1>6. QED
  BY <1>1, <1>3, <1>4, <1>5

\* A request's step drops no key.
LEMMA KeysStay ==
    ASSUME TypeOK, NEW q \in Requests, Step(q),
           NEW r \in Reservations, NEW i \in PayIds, NEW e \in PaymentEvents,
           key[r][i][e] # None
    PROVE  key'[r][i][e] # None
<1>1. CASE UNCHANGED key
  BY <1>1
<1>2. CASE ~UNCHANGED key
  <2>1. /\ req[q].op = "webhook" /\ req[q].pc # "idle"
        /\ \E st \in KeyStatus : SetKey(q, st)
    BY <1>2, OnlyTheseKeyAndCharge DEF CreateKey, MarkCompleted, MarkFailed, At, KeyStatus
  <2>2. QED
    BY <2>1, KeyWritten, NullAssumption
<1>3. QED
  BY <1>1, <1>2

\* A row that is there stays, and its source with it.
LEMMA SourceEffect ==
    ASSUME TypeOK, RowInv, NEW q \in Requests, Step(q), NEW r \in Reservations
    PROVE  /\ Exists(r) => Exists(r)'
           /\ source'[r] = source[r] \/ (~Exists(r) /\ Exists(r)')
<1>1. Exists(r) => Exists(r)'
  <2>1. LeavesRows(q) \/ InsertsRow(q) \/ OverwritesRow(q)
    BY RowEffect DEF RowInv
  <2>2. QED
    BY <2>1 DEF LeavesRows, InsertsRow, OverwritesRow, Exists, ReservationStatus,
       TypeOK, ReservationTypeOK
<1>2. CASE \E x \in Reservations, k \in Slots : CreateReservation(q, x, k)
  <2>1. PICK x \in Reservations : \E k \in Slots : CreateReservation(q, x, k)
    BY <1>2
  <2>2. /\ status[x] = "ABSENT" /\ status' = [status EXCEPT ![x] = "CONFIRMED"]
        /\ source' = [source EXCEPT ![x] = "WALK_IN"]
    BY <2>1 DEF CreateReservation, InsertReservation, Unclaimed
  <2>3. QED
    BY <1>1, <2>2 DEF Exists, TypeOK, ReservationTypeOK
<1>3. CASE PublicInsert(q)
  <2>1. PICK st \in {"CONFIRMED", "PENDING"} :
           InsertReservation(req[q].rsv, req[q].slot, st, "ONLINE")
    BY <1>3 DEF PublicInsert
  <2>2. status[req[q].rsv] = "ABSENT" /\ req[q].rsv \in Reservations
    BY <1>3, InFlight DEF PublicInsert, At, RowInv, InsertsAbsent, Exists, TypeOK
  <2>3. QED
    BY <1>1, <2>1, <2>2 DEF InsertReservation, Exists, TypeOK, ReservationTypeOK
<1>4. CASE /\ ~PublicInsert(q)
           /\ ~\E x \in Reservations, k \in Slots : CreateReservation(q, x, k)
  <2>1. CASE Arrives(q)
    <3>1. UNCHANGED source
      BY <1>4, <2>1 DEF Arrives, PublicCheck, UpdateRead, ConfirmRead,
         CancelRead, CustomerCancelRead, StartRead, CompleteRead, NoShowRead, ReadAndValidate,
         InitiateRead, FindKey, WebhookUnchanged, SessionStartRead, PauseSessionRead,
         ResumeSessionRead, StopSessionRead, SessionRead, SessionUnchanged, reservationVars
    <3>2. QED
      BY <1>1, <3>1
  <2>2. CASE ~Arrives(q)
    <3>1. UNCHANGED source
      BY <1>4, <2>2 DEF Step, Proceeds, UpdateWrite, UpdateConflict,
         UpdateCommit, ConfirmWrite, NoShowWrite, CancelWrite, CancelCommit, StartWrite,
         StartSession, StartCommit, CompleteWrite, EndSession, CompleteCommit, SetStatus,
         LockReservation, RecordAudit, Emit, CallCommission, RefundSelect, RefundCredit,
         RefundState, RefundSweep, RefundStep, InitiateCreate, InitiateGateway, CreateKey,
         ReadPayment, PayThenApply, PayThenRefund, LockPayment, ApplyToReservation,
         ApplyCommit, RefundedPaymentCommit, MarkCompleted, MarkFailed, WebhookUnchanged,
         SessionStartWrite, SessionWrite, SessionUnchanged, Calculates, CalculateRead,
         CreateEarning, CalcUnchanged, Abort, Crash, CalculateFails, DataUnchanged,
         reservationVars
    <3>2. QED
      BY <1>1, <3>1
  <2>3. QED
    BY <2>1, <2>2
<1>5. QED
  BY <1>2, <1>3, <1>4

\* A provider event that moves on keeps what it is about, and has its key.
LEMMA DeliveryMoves ==
    ASSUME TypeOK, NEW q \in Requests, Step(q), EventOK(q),
           req'[q].op = "webhook", req'[q].pc # "createKey"
    PROVE  /\ req[q].op = "webhook" /\ req[q].pc # "idle"
           /\ req'[q].rsv = req[q].rsv /\ req'[q].item = req[q].item
           /\ req'[q].event = req[q].event
           /\ \/ req[q].pc # "createKey"
              \/ key[req[q].rsv][req[q].item][req[q].event] = None
           /\ key'[req[q].rsv][req[q].item][req[q].event] # None
           /\ req'[q].pc \in Selected \cup {"payThenRefund", "refund"}
                 => req[q].event = "SUCCEEDED"
<1>1. ~Arrives(q)
  BY ArrivalChecks
<1>2. req'[q].pc # "idle"
  BY NextTypeOK, NullAssumption DEF Next, Step, TypeOK, RequestTypeOK, WellFormed, Idle, Operations
<1>3. req[q].op = "webhook" /\ req[q].pc # "idle"
  BY <1>1, <1>2, LaterStepKeeps, InFlight, NullAssumption
     DEF Idle, TypeOK, RequestTypeOK, WellFormed, Operations
<1>4. /\ req[q].rsv \in Reservations /\ req[q].item \in PayIds
      /\ req[q].event \in PaymentEvents
  BY <1>3, InFlight DEF TypeOK, WellFormed
<1>5. CASE UNCHANGED req
  <2>1. req[q].pc # "createKey" /\ key[req[q].rsv][req[q].item][req[q].event] # None
    BY <1>3, <1>5 DEF EventOK
  <2>2. QED
    BY <1>3, <1>4, <1>5, <2>1, KeysStay DEF EventOK
<1>6. CASE CreateKey(q)
  <2>1. ~Finish(q)
    BY <1>2, FinishIdles
  <2>2. KeyOf(q) = None /\ SetKey(q, "IN_PROGRESS") /\ Goto(q, "read")
    BY <1>6, <2>1 DEF CreateKey
  <2>3. key'[req[q].rsv][req[q].item][req[q].event] # None
    BY <1>3, <2>2, KeyWritten, NullAssumption DEF KeyStatus
  <2>4. QED
    BY <1>3, <2>2, <2>3, GotoMoves DEF KeyOf, Selected
<1>7. ASSUME NEW step, Goto(q, step), req[q].pc # "createKey",
             step \in Selected \cup {"payThenRefund", "refund"} => req[q].event = "SUCCEEDED"
      PROVE  /\ req'[q].rsv = req[q].rsv /\ req'[q].item = req[q].item
             /\ req'[q].event = req[q].event
             /\ key'[req[q].rsv][req[q].item][req[q].event] # None
             /\ req'[q].pc \in Selected \cup {"payThenRefund", "refund"}
                   => req[q].event = "SUCCEEDED"
  <2>1. key[req[q].rsv][req[q].item][req[q].event] # None
    BY <1>3, <1>7 DEF EventOK
  <2>2. QED
    BY <1>4, <1>7, <2>1, GotoMoves, KeysStay
<1>8. CASE ReadPayment(q)
  <2>1. Outcome[req[q].event] = "PAID" => req[q].event = "SUCCEEDED"
    BY <1>4 DEF Outcome, PaymentEvents
  <2>2. /\ req[q].pc = "read"
        /\ \/ \E step \in {"ack", "payThenApply", "fail"} : Goto(q, step)
           \/ Outcome[req[q].event] = "PAID" /\ Goto(q, "payThenRefund")
    BY <1>8 DEF ReadPayment, At
  <2>3. QED
    BY <1>3, <1>7, <2>1, <2>2 DEF Selected
<1>9. CASE PayThenApply(q) \/ ApplyToReservation(q) \/ ApplyCommit(q)
  <2>1. req[q].pc # "createKey" /\ \E step \in {"apply", "applied", "ack"} : Goto(q, step)
    BY <1>9 DEF PayThenApply, LockPayment, ApplyToReservation, ApplyCommit, At
  <2>2. QED
    BY <1>3, <1>7, <2>1 DEF Selected
<1>10. CASE PayThenRefund(q) \/ RefundCredit(q) \/ RefundState(q) \/ RefundSweep(q)
  <2>1. /\ req[q].pc \in Selected \cup {"payThenRefund"}
        /\ \E step : Goto(q, step)
    BY <1>10 DEF PayThenRefund, LockPayment, RefundCredit, RefundState, RefundSweep,
       RefundStep, At, Selected
  <2>2. req[q].pc # "createKey" /\ req[q].event = "SUCCEEDED"
    BY <1>3, <2>1 DEF EventOK, Selected
  <2>3. QED
    BY <1>3, <1>7, <2>1, <2>2
<1>11. CASE RefundSelect(q)
  <2>1. req[q].pc = "refund"
    BY <1>11 DEF RefundSelect, At
  <2>2. /\ key[req[q].rsv][req[q].item][req[q].event] # None
        /\ req[q].event = "SUCCEEDED"
    BY <1>3, <2>1 DEF EventOK
  <2>3. /\ req'[q].rsv = req[q].rsv /\ req'[q].item = req[q].item
        /\ req'[q].event = req[q].event
    BY <1>11, GotoMoves DEF RefundSelect, TypeOK, RequestTypeOK, RequestRecord
  <2>4. QED
    BY <1>3, <1>4, <2>1, <2>2, <2>3, KeysStay
<1>12. CASE RefundedPaymentCommit(q) \/ MarkCompleted(q) \/ MarkFailed(q)
  <2>1. req[q].pc # "createKey" /\ (Finish(q) \/ \E step \in {"ack", "fail"} : Goto(q, step))
    BY <1>12 DEF RefundedPaymentCommit, MarkCompleted, MarkFailed, At
  <2>2. QED
    BY <1>2, <1>3, <1>7, <2>1, FinishIdles DEF Selected
<1>13. CASE Abort(q) \/ Crash(q)
  <2>1. Finish(q) \/ (Goto(q, "fail") /\ req[q].pc # "createKey")
    BY <1>13 DEF Abort, Crash, Reject
  <2>2. QED
    BY <1>2, <1>3, <1>7, <2>1, FinishIdles DEF Selected
<1>14. CASE Calculates(q) \/ CalculateFails(q)
  BY <1>5, <1>14, CalculationsKeep DEF requestVars
<1>15. QED
  BY <1>3, <1>6, <1>8, <1>9, <1>10, <1>11, <1>12, <1>13, <1>14, WebhookSteps

\* What is due for a refund is what the provider reported.
LEMMA DueStaysReported ==
    ASSUME TypeOK, RowInv, EventInv, NEW q \in Requests, Step(q)
    PROVE  DueReported(q)'
<1>1. EventOK(q) /\ DueReported(q)
  BY DEF EventInv
<1>2. CASE req'[q].op \in Refunding /\ req'[q].pc \in Selected
  <2>1. /\ req[q].pc # "idle" /\ req'[q].op = req[q].op /\ req'[q].rsv = req[q].rsv
        /\ \/ RefundSelect(q)
           \/ /\ RefundCredit(q) \/ RefundState(q) \/ RefundSweep(q)
              /\ req'[q].due = req[q].due
           \/ UNCHANGED requestVars
    BY <1>2, SelectedBy
  <2>2. req[q].rsv \in Reservations /\ \A i \in req[q].due : i \in PayIds
    BY <2>1, InFlight DEF TypeOK, RequestRecord
  <2>3. \A i \in req'[q].due : i \in PayIds /\ Reports(req[q].rsv, i)
    <3>1. CASE RefundSelect(q)
      <4>1. req[q].due = {} /\ req[q].pc = "refund"
        BY <3>1 DEF RefundSelect, At, RowInv, DueIsSelected
      <4>2. req'[q].due \subseteq PaidOf(req[q].rsv) \cup OwnPaid(q)
        BY <3>1, <4>1, GotoMoves DEF RefundSelect, TypeOK, RequestTypeOK, RequestRecord
      <4>3. \A i \in PaidOf(req[q].rsv) : i \in PayIds /\ Reports(req[q].rsv, i)
        BY <2>2 DEF PaidOf, EventInv, PaidReported
      <4>4. \A i \in OwnPaid(q) : i \in PayIds /\ Reports(req[q].rsv, i)
        BY <1>1, <2>1, <4>1, InFlight DEF OwnPaid, EventOK, Reports, TypeOK, WellFormed
      <4>5. QED
        BY <4>2, <4>3, <4>4
    <3>2. CASE (RefundCredit(q) \/ RefundState(q) \/ RefundSweep(q)) /\ req'[q].due = req[q].due
      <4>1. req[q].op \in Refunding /\ req[q].pc \in Selected
        BY <3>2 DEF RefundCredit, RefundState, RefundSweep, RefundStep, At, Selected
      <4>2. QED
        BY <1>1, <2>2, <3>2, <4>1 DEF DueReported
    <3>3. CASE UNCHANGED requestVars
      BY <1>1, <1>2, <2>2, <3>3 DEF DueReported, requestVars
    <3>4. QED
      BY <2>1, <3>1, <3>2, <3>3
  <2>4. \A i \in req'[q].due : key'[req[q].rsv][i]["SUCCEEDED"] # None
    BY <2>2, <2>3, KeysStay DEF Reports, PaymentEvents
  <2>5. QED
    BY <2>1, <2>4 DEF DueReported, Reports
<1>3. CASE ~(req'[q].op \in Refunding /\ req'[q].pc \in Selected)
  BY <1>3 DEF DueReported
<1>4. QED
  BY <1>2, <1>3

\* A payment becomes PAID, and is credited, only when it was reported.
LEMMA ReportedFirst ==
    ASSUME TypeOK, NEW q \in Requests, Step(q), EventOK(q), DueReported(q),
           NEW r \in Reservations, NEW i \in PayIds
    PROVE  /\ payment'[r][i] = "PAID" => payment[r][i] = "PAID" \/ Reports(r, i)
           /\ credits'[r][i] > 0 => credits[r][i] > 0 \/ Reports(r, i)
<1>1. CASE ~MovesMoney(q)
  BY <1>1, OnlyFourMoveMoney
<1>2. CASE InitiateCreate(q)
  <2>1. PICK x \in PayIds : payment' = [payment EXCEPT ![req[q].rsv][x] = "INITIATED"]
    BY <1>2 DEF InitiateCreate
  <2>2. req[q].rsv \in Reservations
    BY <1>2, InFlight DEF InitiateCreate, At, TypeOK
  <2>3. QED
    BY <1>2, <2>1, <2>2 DEF TypeOK, MoneyTypeOK, InitiateCreate
<1>3. CASE CancelCommit(q) \/ ApplyCommit(q) \/ RefundedPaymentCommit(q)
  <2>1. /\ req[q].pc # "idle" /\ req[q].rsv \in Reservations /\ req[q].op \in Refunding
        /\ req[q].op = "webhook" => req[q].item \in PayIds /\ req[q].event \in PaymentEvents
        /\ RefundCommitted(q) => req[q].pc = "commit"
    <3>1. req[q].pc # "idle" /\ req[q].op \in Refunding
      BY <1>3 DEF CancelCommit, ApplyCommit, RefundedPaymentCommit, At, Refunding
    <3>2. RefundCommitted(q) => req[q].pc = "commit"
      <4>1. ApplyCommit(q) => ~RefundCommitted(q)
        <5>1. ASSUME ApplyCommit(q), RefundCommitted(q) PROVE FALSE
          <6>1. /\ payState'[req[q].rsv] = Outcome[req[q].event]
                /\ payState'[req[q].rsv] = "REFUNDED" /\ req[q].event \in PaymentEvents
            BY <3>1, <5>1, InFlight DEF ApplyCommit, At, RefundCommitted, TypeOK,
               ReservationTypeOK, WellFormed
          <6>2. QED
            BY <6>1 DEF Outcome, PaymentEvents
        <5>2. QED
          BY <5>1
      <4>2. QED
        BY <1>3, <4>1 DEF CancelCommit, RefundedPaymentCommit, At
    <3>3. QED
      BY <3>1, <3>2, InFlight DEF TypeOK, WellFormed
  <2>2. CASE RefundCommitted(q)
    BY <2>1, <2>2, RefundWrites DEF DueReported, Selected
  <2>3. CASE ~RefundCommitted(q)
    <3>1. CASE CancelCommit(q)
      BY <2>3, <3>1 DEF CancelCommit
    <3>2. CASE ApplyCommit(q)
      <4>1. /\ payment' = [payment EXCEPT ![req[q].rsv][req[q].item] = Outcome[req[q].event]]
            /\ UNCHANGED credits /\ req[q].op = "webhook" /\ req[q].pc = "applied"
        BY <3>2 DEF ApplyCommit, At
      <4>2. Outcome[req[q].event] = "PAID" => Reports(req[q].rsv, req[q].item)
        BY <2>1, <4>1 DEF EventOK, Reports, Outcome, PaymentEvents
      <4>3. QED
        BY <2>1, <4>1, <4>2 DEF TypeOK, MoneyTypeOK
    <3>3. CASE RefundedPaymentCommit(q)
      <4>1. /\ payment' = [payment EXCEPT ![req[q].rsv][req[q].item] = "PAID"]
            /\ UNCHANGED credits /\ req[q].op = "webhook" /\ req[q].pc = "commit"
        BY <2>3, <3>3 DEF RefundedPaymentCommit, At
      <4>2. Reports(req[q].rsv, req[q].item)
        BY <4>1 DEF EventOK, Reports, Selected
      <4>3. QED
        BY <2>1, <4>1, <4>2 DEF TypeOK, MoneyTypeOK
    <3>4. QED
      BY <1>3, <3>1, <3>2, <3>3
  <2>4. QED
    BY <2>2, <2>3
<1>4. QED
  BY <1>1, <1>2, <1>3 DEF MovesMoney

\* A calculation that will charge stays right about what it has read.
LEMMA ChargeStays ==
    ASSUME TypeOK, RowInv, EventInv, NEW q \in Requests, Step(q), NEW p \in Requests
    PROVE  ChargeOK(p)'
<1>1. ChargeOK(p) /\ ChargeOK(q)
  BY DEF EventInv
<1>2. ASSUME NEW r \in Reservations, source[r] = "ONLINE",
             NEW i \in PayIds, Reports(r, i)
      PROVE  source'[r] = "ONLINE" /\ Reports(r, i)'
  <2>1. source'[r] = "ONLINE"
    BY <1>2, SourceEffect DEF EventInv, SourceStays
  <2>2. key'[r][i]["SUCCEEDED"] # None
    BY <1>2, KeysStay DEF Reports, PaymentEvents
  <2>3. QED
    BY <2>1, <2>2 DEF Reports
<1>3. CASE calc'[p] = calc[p]
  <2>1. CASE calc[p].phase = "charge"
    <3>1. PICK r \in Reservations : r = calc[p].rsv /\ source[r] = "ONLINE"
      BY <1>1, <2>1 DEF ChargeOK
    <3>2. PICK i \in PayIds : Reports(r, i)
      BY <1>1, <2>1, <3>1 DEF ChargeOK
    <3>3. source'[r] = "ONLINE" /\ Reports(r, i)'
      BY <1>2, <3>1, <3>2
    <3>4. QED
      BY <1>3, <3>1, <3>3 DEF ChargeOK, Reports
  <2>2. CASE calc[p].phase # "charge"
    BY <1>1, <1>3, <2>2 DEF ChargeOK
  <2>3. QED
    BY <2>1, <2>2
<1>4. CASE calc'[p] # calc[p]
  <2>1. /\ \/ ApplyToReservation(q) \/ CallCommission(q) \/ CalculateRead(q)
           \/ CreateEarning(q) \/ CalculateFails(q) \/ Crash(q)
    BY <1>4, OnlyTheseKeyAndCharge
  <2>2. CASE CreateEarning(q) \/ CalculateFails(q) \/ Crash(q)
    <3>1. calc'[p] = NoCalc
      BY <1>4, <2>2 DEF CreateEarning, CalculateFails, Crash, TypeOK, CommissionTypeOK
    <3>2. QED
      BY <3>1 DEF ChargeOK, NoCalc
  <2>3. CASE ApplyToReservation(q) \/ CallCommission(q)
    <3>1. req[q].rsv \in Reservations
      BY <2>3, InFlight DEF ApplyToReservation, CallCommission, At, TypeOK
    <3>2. calc'[p] = [phase |-> "called", rsv |-> req[q].rsv]
      BY <1>4, <2>3 DEF ApplyToReservation, CallCommission, TypeOK, CommissionTypeOK
    <3>3. QED
      BY <3>1, <3>2 DEF ChargeOK
  <2>4. CASE CalculateRead(q)
    <3>1. calc[q].phase = "called" /\ UNCHANGED <<source, key>>
      BY <2>4 DEF CalculateRead, CalcUnchanged, reservationVars
    <3>2. calc[q].rsv \in Reservations
      BY <1>1, <3>1 DEF ChargeOK
    <3>3. \/ calc'[p] = NoCalc
          \/ calc'[p].phase = "defer" /\ calc'[p].rsv = calc[q].rsv
          \/ /\ calc'[p].phase = "charge" /\ calc'[p].rsv = calc[q].rsv
             /\ Calculable(calc[q].rsv) /\ Settled(calc[q].rsv)
      BY <1>4, <2>4 DEF CalculateRead, TypeOK, CommissionTypeOK, CalcRecord
    <3>4. Calculable(calc[q].rsv) /\ Settled(calc[q].rsv) =>
             /\ source[calc[q].rsv] = "ONLINE"
             /\ \E i \in PayIds : Reports(calc[q].rsv, i)
      BY <3>2 DEF Calculable, Settled, PaidOf, EventInv, PaidReported
    <3>5. QED
      BY <3>1, <3>2, <3>3, <3>4 DEF ChargeOK, NoCalc, Reports
  <2>5. QED
    BY <2>1, <2>2, <2>3, <2>4
<1>5. QED
  BY <1>3, <1>4

\* What is charged was calculated on a reported payment.
LEMMA ChargedStays ==
    ASSUME TypeOK, RowInv, EventInv, NEW q \in Requests, Step(q)
    PROVE  ChargedOnlyWhenPaid'
<1>1. ASSUME NEW r \in Reservations, earning'[r] = "CHARGED"
      PROVE  source'[r] = "ONLINE" /\ \E i \in PayIds : key'[r][i]["SUCCEEDED"] # None
  <2>1. source[r] = "ONLINE" /\ \E i \in PayIds : key[r][i]["SUCCEEDED"] # None
    <3>1. CASE earning[r] = "CHARGED"
      BY <3>1 DEF EventInv, ChargedOnlyWhenPaid
    <3>2. CASE earning[r] # "CHARGED"
      <4>1. CreateEarning(q)
        BY <1>1, <3>2, OnlyTheseKeyAndCharge
      <4>2. calc[q].phase = "charge" /\ calc[q].rsv = r
        BY <1>1, <3>2, <4>1 DEF CreateEarning, TypeOK, CommissionTypeOK
      <4>3. QED
        BY <4>2 DEF EventInv, ChargeOK, Reports
    <3>3. QED
      BY <3>1, <3>2
  <2>2. source'[r] = "ONLINE"
    BY <2>1, SourceEffect DEF EventInv, SourceStays
  <2>3. QED
    BY <2>1, <2>2, KeysStay DEF PaymentEvents
<1>2. QED
  BY <1>1 DEF ChargedOnlyWhenPaid

\* Whoever creates the key is the only one to process its event.
LEMMA ProcessedOnce ==
    ASSUME TypeOK, EventInv, NEW q \in Requests, Step(q)
    PROVE  OneRequestPerEvent'
<1>1. ASSUME NEW r \in Reservations, NEW i \in PayIds, NEW e \in PaymentEvents,
             NEW p \in Requests \ {q}, Processing(p, r, i, e)', Processing(q, r, i, e)'
      PROVE  FALSE
  <2>1. Processing(p, r, i, e)
    BY <1>1, ActsAlone DEF Processing
  <2>2. key[r][i][e] # None
    <3>1. req[p].pc # "idle"
      BY <2>1, NullAssumption DEF Processing, TypeOK, RequestTypeOK, WellFormed, Idle, Operations
    <3>2. QED
      BY <2>1, <3>1 DEF Processing, EventInv, EventOK
  <2>3. /\ req[q].op = "webhook" /\ req[q].rsv = r /\ req[q].item = i /\ req[q].event = e
        /\ req[q].pc # "createKey" \/ key[req[q].rsv][req[q].item][req[q].event] = None
    BY <1>1, DeliveryMoves DEF Processing, EventInv
  <2>4. Processing(q, r, i, e)
    BY <2>2, <2>3 DEF Processing
  <2>5. QED
    BY <2>1, <2>4 DEF EventInv, OneRequestPerEvent
<1>2. ASSUME NEW r \in Reservations, NEW i \in PayIds, NEW e \in PaymentEvents,
             NEW p \in Requests, NEW x \in Requests,
             Processing(p, r, i, e)', Processing(x, r, i, e)'
      PROVE  p = x
  <2>1. CASE p # q /\ x # q
    <3>1. Processing(p, r, i, e) /\ Processing(x, r, i, e)
      BY <1>2, <2>1, ActsAlone DEF Processing
    <3>2. QED
      BY <3>1 DEF EventInv, OneRequestPerEvent
  <2>2. CASE p = q \/ x = q
    BY <1>1, <1>2, <2>2
  <2>3. QED
    BY <2>1, <2>2
<1>3. QED
  BY <1>2 DEF OneRequestPerEvent

\* Every step keeps the invariant about events, as long as no key expires.
LEMMA NextEventInv ==
    ASSUME NoExpiry, TypeOK, RowInv, EventInv, [Next]_vars
    PROVE  EventInv'
<1>1. ASSUME NEW q \in Requests, Step(q) PROVE EventInv'
  <2>1. ASSUME NEW p \in Requests PROVE EventOK(p)' /\ DueReported(p)'
    <3>1. CASE p = q
      <4>1. EventOK(q) /\ DueReported(q)'
        BY <1>1, DueStaysReported DEF EventInv
      <4>2. CASE req'[q].op = "webhook" /\ req'[q].pc # "createKey"
        BY <1>1, <3>1, <4>1, <4>2, DeliveryMoves DEF EventOK
      <4>3. CASE ~(req'[q].op = "webhook" /\ req'[q].pc # "createKey")
        BY <3>1, <4>1, <4>3 DEF EventOK, Selected
      <4>4. QED
        BY <4>2, <4>3
    <3>2. CASE p # q
      <4>1. req'[p] = req[p] /\ EventOK(p) /\ DueReported(p)
        BY <1>1, <3>2, ActsAlone DEF EventInv
      <4>2. CASE req[p].pc = "idle"
        BY <4>1, <4>2 DEF EventOK, DueReported, Selected
      <4>3. CASE req[p].pc # "idle"
        <5>1. /\ req[p].rsv \in Reservations /\ \A i \in req[p].due : i \in PayIds
              /\ req[p].op = "webhook" => req[p].item \in PayIds /\ req[p].event \in PaymentEvents
          BY <4>3, InFlight DEF TypeOK, WellFormed, RequestRecord
        <5>2. QED
          BY <1>1, <4>1, <5>1, KeysStay DEF EventOK, DueReported, Reports, PaymentEvents
      <4>4. QED
        BY <4>2, <4>3
    <3>3. QED
      BY <3>1, <3>2
  <2>2. ASSUME NEW r \in Reservations, NEW i \in PayIds
        PROVE  /\ payment'[r][i] = "PAID" => Reports(r, i)'
               /\ credits'[r][i] > 0 => Reports(r, i)'
    <3>1. Reports(r, i) => Reports(r, i)'
      BY <1>1, KeysStay DEF Reports, PaymentEvents
    <3>2. QED
      BY <1>1, <3>1, ReportedFirst DEF EventInv, PaidReported, OnlyReportedIsCredited, Reports
  <2>3. PaidReported' /\ OnlyReportedIsCredited'
    BY <2>2 DEF PaidReported, OnlyReportedIsCredited, Reports
  <2>4. SourceStays'
    BY <1>1, SourceEffect DEF EventInv, SourceStays, Exists
  <2>5. QED
    BY <1>1, <2>1, <2>3, <2>4, ChargeStays, ChargedStays, ProcessedOnce DEF EventInv
<1>2. CASE UNCHANGED vars
  BY <1>2 DEF EventInv, OneRequestPerEvent, Processing, OnlyReportedIsCredited,
     ChargedOnlyWhenPaid, PaidReported, SourceStays, Exists, EventOK, DueReported, ChargeOK,
     Reports, vars, reservationVars, moneyVars, commissionVars, requestVars
<1>3. QED
  BY <1>1, <1>2 DEF Next, Step, KeyExpires, NoExpiry

\* Nothing is reported, credited or charged in the empty database.
LEMMA InitEventInv == ASSUME Init PROVE EventInv
  BY NullAssumption DEF Init, Idle, NoCalc, EventInv, OneRequestPerEvent, Processing,
     OnlyReportedIsCredited, ChargedOnlyWhenPaid, PaidReported, SourceStays, EventOK,
     DueReported, ChargeOK, Selected, Operations, EarningStatus

\* Without expiry, what is known of events stays true.
LEMMA EventsHold == ASSUME NoExpiry PROVE Spec => []EventInv
<1>1. Init => EventInv
  BY InitEventInv
<1>2. TypeOK /\ RowInv /\ EventInv /\ [Next]_vars => EventInv'
  BY NextEventInv
<1>3. QED
  BY <1>1, <1>2, TypeCorrect, RowsProtected, PTL DEF Spec

\* The same event delivered any number of times at once is processed by one
\* request.
THEOREM DeliveredOnce == ASSUME NoExpiry PROVE Spec => []OneRequestPerEvent
<1>1. EventInv => OneRequestPerEvent
  BY DEF EventInv
<1>2. QED
  BY <1>1, EventsHold, PTL

\* Only payments whose success was reported are credited to a wallet.
THEOREM CreditsWereReported == ASSUME NoExpiry PROVE Spec => []OnlyReportedIsCredited
<1>1. EventInv => OnlyReportedIsCredited
  BY DEF EventInv
<1>2. QED
  BY <1>1, EventsHold, PTL

\* A commission charged at once is of an online reservation for which a
\* payment was reported.
THEOREM ChargesWerePaid == ASSUME NoExpiry PROVE Spec => []ChargedOnlyWhenPaid
<1>1. EventInv => ChargedOnlyWhenPaid
  BY DEF EventInv
<1>2. QED
  BY <1>1, EventsHold, PTL
----------------------------------------------------------------------------
(* While no instance crashes, only Redis leaves a provider event's key.    *)

NoCrash == "crash" \notin Enabled

\* A delivery that is over without having come to "fail" has marked its key.
LEMMA EndsMarked ==
    ASSUME NoCrash, TypeOK, NEW q \in Requests, Step(q),
           req[q].op = "webhook", req[q].pc \notin {"idle", "createKey", "fail"}
    PROVE  \/ /\ req'[q].op = req[q].op /\ req'[q].rsv = req[q].rsv
              /\ req'[q].item = req[q].item /\ req'[q].event = req[q].event
              /\ req'[q].pc # "createKey"
           \/ key'[req[q].rsv][req[q].item][req[q].event] = "COMPLETED"
<1>1. ~CreateKey(q) /\ ~MarkFailed(q) /\ ~Crash(q)
  BY DEF CreateKey, MarkFailed, At, Crash, NoCrash
<1>2. CASE Calculates(q) \/ CalculateFails(q)
  BY <1>2, CalculationsKeep DEF requestVars
<1>3. CASE MarkCompleted(q)
  <2>1. CASE SetKey(q, "COMPLETED")
    BY <2>1, KeyWritten DEF KeyStatus
  <2>2. CASE Goto(q, "fail")
    BY <2>2, GotoMoves
  <2>3. QED
    BY <1>3, <2>1, <2>2 DEF MarkCompleted
<1>4. CASE RefundSelect(q) /\ ~Goto(q, "commit")
  <2>1. \E due : req' = [req EXCEPT ![q].pc = "credit", ![q].due = due]
    BY <1>4 DEF RefundSelect
  <2>2. QED
    BY <2>1 DEF TypeOK, RequestTypeOK, RequestRecord
<1>5. CASE \/ ReadPayment(q) \/ PayThenApply(q) \/ PayThenRefund(q)
           \/ ApplyToReservation(q) \/ ApplyCommit(q)
           \/ RefundSelect(q) /\ Goto(q, "commit")
           \/ RefundCredit(q) \/ RefundState(q) \/ RefundSweep(q)
           \/ RefundedPaymentCommit(q) \/ Abort(q)
  <2>1. \E step \in Steps \ {"createKey"} : Goto(q, step)
    BY <1>5 DEF ReadPayment, PayThenApply, PayThenRefund, LockPayment, ApplyToReservation,
       ApplyCommit, RefundCredit, RefundState, RefundSweep, RefundStep,
       RefundedPaymentCommit, Abort, Steps
  <2>2. QED
    BY <2>1, GotoMoves
<1>6. QED
  BY <1>1, <1>2, <1>3, <1>4, <1>5, WebhookSteps

\* As long as no instance crashes, whatever statements, commits and marks
\* fail, a delivery leaves its key IN_PROGRESS only when it could not mark it
\* FAILED at its end.
THEOREM KeySettled == ASSUME NoCrash PROVE Spec => KeyLeftOnlyByRedis
<1>1. ASSUME TypeOK, NEW x \in Requests, Step(x), NEW q \in Requests,
             NEW r \in Reservations, NEW i \in PayIds, NEW e \in PaymentEvents,
             Processing(q, r, i, e), ~Processing(q, r, i, e)',
             key'[r][i][e] = "IN_PROGRESS"
      PROVE  req[q].pc = "fail"
  <2>1. x = q
    BY <1>1, ActsAlone DEF Processing
  <2>2. /\ req[q].op = "webhook" /\ req[q].pc # "createKey"
        /\ req[q].rsv = r /\ req[q].item = i /\ req[q].event = e
    BY <1>1 DEF Processing
  <2>3. req[q].pc # "idle"
    BY <1>1, <2>2, NullAssumption DEF TypeOK, RequestTypeOK, WellFormed, Idle, Operations
  <2>4. ASSUME req[q].pc # "fail" PROVE FALSE
    <3>1. \/ /\ req'[q].op = req[q].op /\ req'[q].rsv = req[q].rsv
             /\ req'[q].item = req[q].item /\ req'[q].event = req[q].event
             /\ req'[q].pc # "createKey"
          \/ key'[req[q].rsv][req[q].item][req[q].event] = "COMPLETED"
      BY <1>1, <2>1, <2>2, <2>3, <2>4, EndsMarked
    <3>2. QED
      BY <1>1, <2>2, <3>1 DEF Processing
  <2>5. QED
    BY <2>4
<1>2. TypeOK /\ [Next]_vars =>
         [\A q \in Requests, r \in Reservations, i \in PayIds, e \in PaymentEvents :
            (Processing(q, r, i, e) /\ ~Processing(q, r, i, e)'
               /\ key'[r][i][e] = "IN_PROGRESS") => req[q].pc = "fail"]_vars
  <2>1. ASSUME NEW x \in Reservations, NEW y \in PayIds, NEW z \in PaymentEvents,
               KeyExpires(x, y, z)
        PROVE  \A q \in Requests, r \in Reservations, i \in PayIds, e \in PaymentEvents :
                  (Processing(q, r, i, e) /\ ~Processing(q, r, i, e)'
                     /\ key'[r][i][e] = "IN_PROGRESS")
                     => req[q].pc = "fail"
    BY <2>1 DEF KeyExpires, Processing, requestVars
  <2>2. QED
    BY <1>1, <2>1 DEF Next, Step
<1>3. QED
  BY <1>2, TypeCorrect, PTL DEF Spec, KeyLeftOnlyByRedis
----------------------------------------------------------------------------
(* Any number of requests: locks end with their transaction.               *)

\* What a request that moves on, or ends, holds afterwards.
LEMMA StaysInScope ==
    ASSUME TypeOK, LocksEnd, NEW q \in Requests, Step(q)
    PROVE  locks'[q] # {} => InTransaction(q)'
<1> USE DEF InTransaction
<1>1. locks[q] # {} => InTransaction(q)
  BY DEF LocksEnd
<1>2. CASE locks'[q] = {}
  BY <1>2
<1>3. CASE Arrives(q)
  BY <1>1, <1>3, ArrivalBegins DEF Idle, InTransaction
<1>4. CASE Calculates(q) \/ CalculateFails(q)
  BY <1>1, <1>4, CalculationsKeep DEF requestVars
<1>5. CASE Abort(q) \/ Crash(q)
  BY <1>2, <1>5, FailureEnds
<1>6. CASE \/ UpdateCommit(q) \/ CancelCommit(q) \/ StartCommit(q) \/ CompleteCommit(q)
           \/ UpdateConflict(q) \/ ApplyCommit(q) \/ RefundedPaymentCommit(q)
  <2>1. Release(q)
    BY <1>6 DEF UpdateCommit, CancelCommit, StartCommit, CompleteCommit, UpdateConflict,
       Reject, Rollback, ApplyCommit, RefundedPaymentCommit
  <2>2. QED
    BY <1>2, <2>1 DEF Release, TypeOK, RequestTypeOK
<1>7. CASE \/ UpdateWrite(q) \/ CancelWrite(q) \/ StartWrite(q) \/ CompleteWrite(q)
           \/ RefundCredit(q) \/ RefundState(q) \/ RefundSweep(q)
           \/ PayThenApply(q) \/ PayThenRefund(q) \/ ApplyToReservation(q)
  <2>1. \/ \E step \in {"session", "refund", "refundState", "sweep", "commit", "apply",
                        "applied"} : Goto(q, step)
        \/ Goto(q, "audit") /\ req[q].op = "update"
    BY <1>7 DEF UpdateWrite, CancelWrite, StartWrite, CompleteWrite, LockReservation,
       RefundCredit, RefundState, RefundSweep, RefundStep, PayThenApply, PayThenRefund,
       LockPayment, ApplyToReservation, At
  <2>2. QED
    BY <2>1, GotoMoves
<1>8. CASE RefundSelect(q)
  BY <1>8, GotoMoves DEF RefundSelect, TypeOK, RequestTypeOK, RequestRecord
<1>9. CASE StartSession(q)
  <2>1. Reject(q) \/ (Goto(q, "audit") /\ req[q].op = "start")
    BY <1>9 DEF StartSession, At
  <2>2. QED
    BY <1>2, <2>1, GotoMoves DEF Reject, Rollback, Release, TypeOK, RequestTypeOK
<1>10. CASE EndSession(q)
  <2>1. Reject(q) \/ \E s : req' = [req EXCEPT ![q].pc = "commit", ![q].item = s]
    BY <1>10 DEF EndSession
  <2>2. QED
    BY <1>2, <2>1 DEF Reject, Rollback, Release, TypeOK, RequestTypeOK, RequestRecord
<1>11. CASE RecordAudit(q) /\ req[q].op \in {"update", "start"}
  <2>1. Goto(q, "commit")
    BY <1>11 DEF RecordAudit, AfterAudit, Cancels
  <2>2. QED
    BY <2>1, GotoMoves
<1>12. CASE RecordAudit(q) /\ req[q].op \notin {"update", "start"}
  BY <1>1, <1>2, <1>12 DEF RecordAudit
<1>13. CASE \/ PublicInsert(q) \/ ConfirmWrite(q) \/ NoShowWrite(q) \/ Emit(q)
            \/ CallCommission(q) \/ InitiateCreate(q) \/ InitiateGateway(q) \/ CreateKey(q)
            \/ ReadPayment(q) \/ MarkCompleted(q) \/ MarkFailed(q)
            \/ SessionStartWrite(q) \/ SessionWrite(q)
  BY <1>1, <1>2, <1>13 DEF PublicInsert, ConfirmWrite, NoShowWrite, Emit, CallCommission,
     InitiateCreate, InitiateGateway, CreateKey, ReadPayment, MarkCompleted, MarkFailed,
     SessionStartWrite, SessionWrite, SessionUnchanged, At
<1>14. QED
  BY <1>3, <1>4, <1>5, <1>6, <1>7, <1>8, <1>9, <1>10, <1>11, <1>12, <1>13
     DEF Step, Proceeds

\* Checkouts are only added, for the reservation a payment was started for.
LEMMA CheckoutEffect ==
    ASSUME TypeOK, NEW q \in Requests, Step(q), NEW r \in Reservations,
           checkout'[r] # checkout[r]
    PROVE  req[q].op = "initiate" /\ req[q].pc # "idle" /\ req[q].rsv = r
<1>1. InitiateGateway(q)
  <2>1. ~Arrives(q)
    BY DEF Arrives, CreateReservation, PublicCheck, UpdateRead, ConfirmRead,
       CancelRead, CustomerCancelRead, StartRead, CompleteRead, NoShowRead, ReadAndValidate,
       InitiateRead, FindKey, WebhookUnchanged, SessionStartRead, PauseSessionRead,
       ResumeSessionRead, StopSessionRead, SessionRead, SessionUnchanged, moneyVars
  <2>2. QED
    BY <2>1 DEF Step, Proceeds, PublicInsert, UpdateWrite, UpdateConflict,
       UpdateCommit, ConfirmWrite, NoShowWrite, CancelWrite, CancelCommit, StartWrite,
       StartSession, StartCommit, CompleteWrite, EndSession, CompleteCommit,
       LockReservation, RecordAudit, Emit, CallCommission, RefundSelect, RefundCredit,
       RefundState, RefundSweep, RefundStep, InitiateCreate, CreateKey,
       ReadPayment, PayThenApply, PayThenRefund, LockPayment, ApplyToReservation,
       ApplyCommit, RefundedPaymentCommit, MarkCompleted, MarkFailed, WebhookUnchanged,
       SessionStartWrite, SessionWrite, SessionUnchanged, Calculates, CalculateRead,
       CreateEarning, CalcUnchanged, Abort, Crash, CalculateFails, DataUnchanged, moneyVars
<1>2. QED
  BY <1>1 DEF InitiateGateway, At, TypeOK, MoneyTypeOK

\* Payments concern reservations that exist, as rows are never deleted.
LEMMA PaysStayExisting ==
    ASSUME TypeOK, RowInv, PaysExisting, NEW q \in Requests, Step(q)
    PROVE  PaysExisting'
<1>1. ASSUME NEW r \in Reservations, checkout'[r] # {} PROVE Exists(r)'
  <2>1. Exists(r)
    BY <1>1, CheckoutEffect DEF PaysExisting
  <2>2. QED
    BY <2>1, SourceEffect
<1>2. ASSUME NEW p \in Requests, req'[p].pc # "idle", req'[p].op \in {"initiate", "webhook"}
      PROVE  Exists(req[p].rsv)'
  <2>1. CASE UNCHANGED req \/ (p # q /\ req'[p] = req[p])
    <3>1. PICK r \in Reservations : r = req[p].rsv /\ Exists(r)
      BY <1>2, <2>1, InFlight DEF TypeOK, PaysExisting
    <3>2. Exists(r)'
      BY <3>1, SourceEffect
    <3>3. QED
      BY <2>1, <3>1, <3>2 DEF Exists
  <2>2. CASE p = q /\ ~UNCHANGED req
    <3>1. CASE Arrives(q)
      <4>1. PICK r \in Reservations : r = req'[q].rsv /\ Exists(r)
        <5>1. req'[q].rsv \in Reservations
          BY <3>1, ArrivalKnows
        <5>2. checkout[req'[q].rsv] # {} \/ Exists(req'[q].rsv)
          BY <1>2, <2>2, <3>1, ArrivalChecks
        <5>3. PICK r \in Reservations : r = req'[q].rsv
          BY <5>1
        <5>4. Exists(r)
          BY <1>2, <2>2, <3>1, <5>2, <5>3, ArrivalChecks DEF PaysExisting, Exists
        <5>5. QED
          BY <5>3, <5>4
      <4>2. Exists(r)'
        BY <4>1, SourceEffect
      <4>3. QED
        BY <2>2, <4>1, <4>2 DEF Exists
    <3>2. CASE ~Arrives(q)
      <4>1. /\ req[q].pc # "idle" /\ req'[q].op = req[q].op /\ req'[q].rsv = req[q].rsv
        BY <1>2, <2>2, <3>2, LaterStepKeeps DEF Idle
      <4>2. PICK r \in Reservations : r = req[q].rsv /\ Exists(r)
        BY <1>2, <2>2, <4>1, InFlight DEF TypeOK, PaysExisting
      <4>3. Exists(r)'
        BY <4>2, SourceEffect
      <4>4. QED
        BY <2>2, <4>1, <4>2, <4>3 DEF Exists
    <3>3. QED
      BY <3>1, <3>2
  <2>3. QED
    BY <2>1, <2>2, ActsAlone
<1>3. QED
  BY <1>1, <1>2 DEF PaysExisting

\* Every step keeps both.
LEMMA NextScopeInv ==
    ASSUME TypeOK, RowInv, ScopeInv, [Next]_vars
    PROVE  ScopeInv'
<1>1. ASSUME NEW q \in Requests, Step(q) PROVE ScopeInv'
  <2>1. ASSUME NEW p \in Requests PROVE locks'[p] # {} => InTransaction(p)'
    <3>1. CASE p = q
      BY <1>1, <3>1, StaysInScope DEF ScopeInv
    <3>2. CASE p # q
      BY <1>1, <3>2, ActsAlone DEF ScopeInv, LocksEnd, InTransaction
    <3>3. QED
      BY <3>1, <3>2
  <2>2. QED
    BY <1>1, <2>1, PaysStayExisting DEF ScopeInv, LocksEnd
<1>2. CASE UNCHANGED vars \/ \E r \in Reservations, i \in PayIds, e \in PaymentEvents :
                                KeyExpires(r, i, e)
  BY <1>2 DEF ScopeInv, LocksEnd, InTransaction, PaysExisting, Exists, KeyExpires,
     DataUnchanged, vars, reservationVars, moneyVars, requestVars
<1>3. QED
  BY <1>1, <1>2 DEF Next, Step

\* However it ends - commit, error, conflict, timeout or crash - no request
\* leaves a row locked behind its transaction, and no payment is started or
\* reported for a reservation that is not there.
THEOREM ScopesEnd == Spec => []ScopeInv
<1>1. Init => ScopeInv
  BY DEF Init, Idle, ScopeInv, LocksEnd, PaysExisting
<1>2. TypeOK /\ RowInv /\ ScopeInv /\ [Next]_vars => ScopeInv'
  BY NextScopeInv
<1>3. QED
  BY <1>1, <1>2, TypeCorrect, RowsProtected, PTL DEF Spec
----------------------------------------------------------------------------
(* One request at a time: ends are final.                                  *)

\* The stamp of an end, none for the other statuses.
StampsFor(st) == IF st \in TerminalStates THEN {StampOf[st]} ELSE {}

\* What a step does to the status and the stamps of one reservation.
LEMMA StatusEffect ==
    ASSUME TypeOK, RowInv, NEW q \in Requests, Step(q), NEW r \in Reservations
    PROVE  \/ status'[r] = status[r] /\ stamps'[r] = stamps[r]
           \/ /\ status[r] = "ABSENT" /\ status'[r] \in {"CONFIRMED", "PENDING"}
              /\ stamps'[r] = stamps[r] /\ ~StampsEnd(q)
           \/ /\ StampsEnd(q) /\ req[q].rsv = r /\ BeforeMove(q)
              /\ status'[r] = Target[req[q].op]
              /\ stamps'[r] = stamps[r] \cup StampsFor(Target[req[q].op])
<1>1. CASE StampsEnd(q)
  <2>1. /\ req[q].rsv \in Reservations
        /\ req[q].op \in Validated /\ BeforeMove(q)
    BY <1>1, InFlight DEF StampsEnd, ConfirmWrite, NoShowWrite, CancelCommit, StartCommit,
       CompleteCommit, At, Cancels, Validated, BeforeMove, TypeOK
  <2>2. \/ ConfirmWrite(q) /\ SetStatus(q, {}) /\ req[q].op = "confirm"
        \/ NoShowWrite(q) /\ SetStatus(q, {"noShowAt"}) /\ req[q].op = "noShow"
        \/ CancelCommit(q) /\ SetStatus(q, {"canceledAt"}) /\ req[q].op \in Cancels
        \/ StartCommit(q) /\ SetStatus(q, {}) /\ req[q].op = "start"
        \/ CompleteCommit(q) /\ SetStatus(q, {"completedAt"}) /\ req[q].op = "complete"
    BY <1>1 DEF StampsEnd, ConfirmWrite, NoShowWrite, CancelCommit, StartCommit,
       CompleteCommit, At
  <2>3. SetStatus(q, StampsFor(Target[req[q].op]))
    BY <2>2 DEF StampsFor, Target, TerminalStates, StampOf, Cancels
  <2>4. QED
    BY <1>1, <2>1, <2>3 DEF SetStatus, TypeOK, ReservationTypeOK
<1>2. CASE ~StampsEnd(q)
  <2>1. UNCHANGED stamps
    BY <1>2, OnlyStatusWritesStamp
  <2>2. CASE Arrives(q)
    <3>1. \/ UNCHANGED status
          \/ /\ req'[q].rsv \in Reservations /\ status[req'[q].rsv] = "ABSENT"
             /\ status' = [status EXCEPT ![req'[q].rsv] = "CONFIRMED"]
      BY <2>2, ArrivalKnows DEF Unclaimed
    <3>2. QED
      BY <1>2, <2>1, <3>1 DEF TypeOK, ReservationTypeOK
  <2>3. CASE PublicInsert(q)
    <3>1. req[q].rsv \in Reservations /\ status[req[q].rsv] = "ABSENT"
      BY <2>3, InFlight DEF PublicInsert, At, RowInv, InsertsAbsent, Exists, TypeOK
    <3>2. QED
      BY <1>2, <2>1, <2>3, <3>1 DEF PublicInsert, InsertReservation, TypeOK, ReservationTypeOK
  <2>4. CASE ~Arrives(q) /\ ~PublicInsert(q)
    BY <1>2, <2>1, <2>4, OnlyTheseMoveStatus
  <2>5. QED
    BY <2>2, <2>3, <2>4
<1>3. QED
  BY <1>1, <1>2

\* Sessions are written by starts and completions, and by the panel's routes.
SessionStep(q) ==
    StartCommit(q) \/ CompleteCommit(q) \/ SessionStartWrite(q) \/ SessionWrite(q)

\* No other step touches a session.
LEMMA OnlyTheseTouchSessions ==
    ASSUME NEW q \in Requests, Step(q), ~SessionStep(q)
    PROVE  UNCHANGED session
<1>1. CASE Arrives(q)
  BY <1>1 DEF Arrives, CreateReservation, PublicCheck, UpdateRead, ConfirmRead,
     CancelRead, CustomerCancelRead, StartRead, CompleteRead, NoShowRead, ReadAndValidate,
     InitiateRead, FindKey, WebhookUnchanged, SessionStartRead, PauseSessionRead,
     ResumeSessionRead, StopSessionRead, SessionRead
<1>2. CASE ~Arrives(q)
  BY <1>2 DEF Step, Proceeds, PublicInsert, UpdateWrite, UpdateConflict, UpdateCommit,
     ConfirmWrite, NoShowWrite, CancelWrite, CancelCommit, StartWrite, StartSession,
     CompleteWrite, EndSession, LockReservation, RecordAudit, Emit, CallCommission,
     RefundSelect, RefundCredit, RefundState, RefundSweep, RefundStep, InitiateCreate,
     InitiateGateway, CreateKey, ReadPayment, PayThenApply, PayThenRefund, LockPayment,
     ApplyToReservation, ApplyCommit, RefundedPaymentCommit, MarkCompleted, MarkFailed,
     WebhookUnchanged, Calculates, CalculateRead, CreateEarning, CalcUnchanged, Abort,
     Crash, CalculateFails, DataUnchanged, SessionStep
<1>3. QED
  BY <1>1, <1>2

\* A session that is over is not written again, as the route that would has
\* validated its move on the session as it still is.
LEMMA EndedStays ==
    ASSUME TypeOK, LifeInv, NEW q \in Requests, Step(q),
           NEW r \in Reservations, NEW s \in SessionIds, session[r][s] = "COMPLETED"
    PROVE  session'[r][s] = "COMPLETED"
<1>1. CASE ~SessionStep(q)
  BY <1>1, OnlyTheseTouchSessions
<1>2. CASE StartCommit(q) \/ SessionStartWrite(q)
  <2>1. PICK x \in SessionIds :
           /\ session[req[q].rsv][x] = "ABSENT"
           /\ session' = [session EXCEPT ![req[q].rsv][x] = "ACTIVE"]
    BY <1>2 DEF StartCommit, SessionStartWrite, SessionsIn
  <2>2. QED
    BY <2>1 DEF TypeOK, SessionTypeOK
<1>3. CASE CompleteCommit(q)
  BY <1>3 DEF CompleteCommit, TypeOK, SessionTypeOK
<1>4. CASE SessionWrite(q)
  <2>1. /\ session' = [session EXCEPT ![req[q].rsv][req[q].item] = SessionTarget[req[q].op]]
        /\ req[q].op \in SessionRoutes /\ req[q].pc = "sessionWrite"
    BY <1>4 DEF SessionWrite, At
  <2>2. SessionMayMove(session[req[q].rsv][req[q].item], SessionTarget[req[q].op])
    BY <2>1 DEF LifeInv, SessionMoveStaysAllowed
  <2>3. (req[q].rsv = r /\ req[q].item = s) => SessionTarget[req[q].op] = "COMPLETED"
    BY <2>2 DEF SessionMayMove, GamingSessionTransitions
  <2>4. QED
    BY <2>1, <2>3 DEF TypeOK, SessionTypeOK
<1>5. QED
  BY <1>1, <1>2, <1>3, <1>4 DEF SessionStep

\* A request's own steps keep its validated move allowed until it is made.
LEMMA MoveStays ==
    ASSUME TypeOK, RowInv, LifeInv, NEW q \in Requests, Step(q), BeforeMove(q)'
    PROVE  MayMove(status[req[q].rsv], Target[req[q].op])'
<1> USE DEF BeforeMove
<1>1. CASE Arrives(q)
  <2>1. /\ req'[q].op \in Validated /\ req'[q].rsv \in Reservations
        /\ MayMove(status[req'[q].rsv], Target[req'[q].op])
    BY <1>1, ArrivalChecks, ArrivalKnows
  <2>2. UNCHANGED status
    BY <1>1, <2>1, ArrivalKnows DEF Validated
  <2>3. QED
    BY <2>1, <2>2 DEF MayMove
<1>2. CASE ~Arrives(q)
  <2>1. \/ UNCHANGED <<req, status>>
        \/ /\ req[q].pc # "idle" /\ req'[q].op = req[q].op /\ req'[q].rsv = req[q].rsv
    BY <1>2, LaterStepKeeps DEF Idle
  <2>2. /\ req[q].pc # "idle" /\ req'[q].op = req[q].op /\ req'[q].rsv = req[q].rsv
        /\ req[q].op \in Validated /\ req[q].rsv \in Reservations
    BY <2>1, InFlight DEF TypeOK
  <2>3. ~StampsEnd(q)
    <3>1. ASSUME StampsEnd(q) PROVE FALSE
      <4>1. \/ Goto(q, "emit") \/ (Goto(q, "audit") /\ req[q].op # "start") \/ Finish(q)
        BY <3>1 DEF StampsEnd, ConfirmWrite, NoShowWrite, CancelCommit, StartCommit,
           CompleteCommit, At, Cancels
      <4>2. QED
        BY <2>2, <4>1, GotoMoves, FinishIdles
    <3>2. QED
      BY <3>1
  <2>4. BeforeMove(q)
    <3>1. CASE UNCHANGED req
      BY <3>1
    <3>2. CASE req[q].pc \in {"emit", "commission"}
      <4>1. Emit(q) \/ CallCommission(q) \/ Crash(q) \/ Calculates(q) \/ CalculateFails(q)
        BY <1>2, <2>2, <3>2 DEF Step, Proceeds, PublicInsert, UpdateWrite, UpdateConflict,
           UpdateCommit, ConfirmWrite, NoShowWrite, CancelWrite, CancelCommit, StartWrite,
           StartSession, StartCommit, CompleteWrite, EndSession, CompleteCommit,
           LockReservation, RecordAudit, RefundSelect, RefundCredit, RefundState,
           RefundSweep, RefundStep, InitiateCreate, InitiateGateway, CreateKey, ReadPayment,
           PayThenApply, PayThenRefund, LockPayment, ApplyToReservation, ApplyCommit,
           RefundedPaymentCommit, MarkCompleted, MarkFailed, SessionStartWrite,
           SessionWrite, At, Abort, MayFail
      <4>2. ~(Calculates(q) \/ CalculateFails(q) \/ Crash(q))
        BY <3>2, CalculationsKeep, FailureEnds DEF requestVars
      <4>3. Finish(q) \/ (Goto(q, "audit") /\ req[q].op # "start") \/ Goto(q, "commission")
        BY <4>1, <4>2 DEF Emit, CallCommission
      <4>4. QED
        BY <2>2, <4>3, GotoMoves, FinishIdles
    <3>3. CASE req[q].pc = "audit" /\ req[q].op # "start"
      <4>1. RecordAudit(q) \/ Crash(q) \/ Calculates(q) \/ CalculateFails(q)
        BY <1>2, <2>2, <3>3 DEF Step, Proceeds, PublicInsert, UpdateWrite, UpdateConflict,
           UpdateCommit, ConfirmWrite, NoShowWrite, CancelWrite, CancelCommit, StartWrite,
           StartSession, StartCommit, CompleteWrite, EndSession, CompleteCommit,
           LockReservation, Emit, CallCommission, RefundSelect, RefundCredit, RefundState,
           RefundSweep, RefundStep, InitiateCreate, InitiateGateway, CreateKey, ReadPayment,
           PayThenApply, PayThenRefund, LockPayment, ApplyToReservation, ApplyCommit,
           RefundedPaymentCommit, MarkCompleted, MarkFailed, SessionStartWrite,
           SessionWrite, At, Abort, MayFail, Validated
      <4>2. CASE RecordAudit(q)
        <5>1. Finish(q) \/ Goto(q, "emit")
          BY <2>2, <3>3, <4>2, InFlight DEF RecordAudit, AfterAudit, Validated, Cancels,
             TypeOK, WellFormed, Auditing
        <5>2. QED
          BY <2>2, <5>1, GotoMoves, FinishIdles
      <4>3. QED
        BY <3>1, <4>1, <4>2, CalculationsKeep, FailureEnds DEF requestVars
    <3>4. CASE req[q].pc \in Steps \ {"idle", "emit", "commission", "audit", "write", "session",
                                      "refund", "credit", "refundState", "sweep", "commit"}
      <4>1. Calculates(q) \/ CalculateFails(q) \/ Crash(q) \/ Abort(q)
        BY <1>2, <2>2, <3>4 DEF Step, Proceeds, PublicInsert, UpdateWrite, UpdateConflict,
           UpdateCommit, ConfirmWrite, NoShowWrite, CancelWrite, CancelCommit, StartWrite,
           StartSession, StartCommit, CompleteWrite, EndSession, CompleteCommit,
           LockReservation, RecordAudit, Emit, CallCommission, RefundSelect, RefundCredit,
           RefundState, RefundSweep, RefundStep, InitiateCreate, InitiateGateway, CreateKey,
           ReadPayment, PayThenApply, PayThenRefund, LockPayment, ApplyToReservation,
           ApplyCommit, RefundedPaymentCommit, MarkCompleted, MarkFailed, SessionStartWrite,
           SessionWrite, At, Validated, SessionRoutes
      <4>2. QED
        BY <3>1, <4>1, CalculationsKeep, FailureEnds DEF requestVars
    <3>5. req[q].pc \in Steps
      BY <2>2, InFlight DEF TypeOK, RequestRecord
    <3>6. QED
      BY <2>2, <3>2, <3>3, <3>4, <3>5 DEF Steps
  <2>5. status'[req[q].rsv] = status[req[q].rsv]
    <3>1. Exists(req[q].rsv)
      BY <2>2 DEF RowInv, MovesExisting
    <3>2. QED
      BY <2>2, <2>3, <3>1, StatusEffect DEF Exists
  <2>6. QED
    BY <2>2, <2>4, <2>5 DEF LifeInv, MoveStaysAllowed, MayMove
<1>3. QED
  BY <1>1, <1>2

\* The same for the move of a gaming session.
LEMMA SessionMoveStays ==
    ASSUME TypeOK, LifeInv, NEW q \in Requests, Step(q),
           req'[q].op \in SessionRoutes, req'[q].pc = "sessionWrite"
    PROVE  SessionMayMove(session[req[q].rsv][req[q].item], SessionTarget[req[q].op])'
<1>1. CASE Arrives(q)
  <2>1. SessionMayMove(session[req'[q].rsv][req'[q].item], SessionTarget[req'[q].op])
    BY <1>1, ArrivalChecks
  <2>2. ~SessionStep(q)
    BY <1>1, ArrivalBegins DEF Idle, SessionStep, StartCommit, CompleteCommit,
       SessionStartWrite, SessionWrite, At
  <2>3. UNCHANGED session
    BY <2>2, OnlyTheseTouchSessions
  <2>4. QED
    BY <2>1, <2>3 DEF SessionMayMove
<1>2. CASE Calculates(q) \/ CalculateFails(q)
  BY <1>2, CalculationsKeep DEF requestVars, LifeInv, SessionMoveStaysAllowed, SessionMayMove
<1>3. CASE ~Arrives(q) /\ ~(Calculates(q) \/ CalculateFails(q))
  <2>1. ~(Abort(q) \/ Crash(q))
    BY FailureEnds
  <2>2. Proceeds(q) /\ req[q].pc # "idle" /\ req[q].op \in SessionRoutes
    BY <1>3, <2>1, ProceedsKeeps DEF Step, Idle
  <2>3. SessionWrite(q) \/ Emit(q) \/ RecordAudit(q)
    BY <2>2 DEF Proceeds, PublicInsert, UpdateWrite, UpdateConflict,
       UpdateCommit, ConfirmWrite, NoShowWrite, CancelWrite, CancelCommit, StartWrite,
       StartSession, StartCommit, CompleteWrite, EndSession, CompleteCommit,
       LockReservation, CallCommission, RefundSelect, RefundCredit, RefundState,
       RefundSweep, RefundStep, InitiateCreate, InitiateGateway, CreateKey, ReadPayment,
       PayThenApply, PayThenRefund, LockPayment, ApplyToReservation, ApplyCommit,
       RefundedPaymentCommit, MarkCompleted, MarkFailed, SessionStartWrite, At,
       SessionRoutes, Cancels, Refunding
  <2>4. ~Emit(q) /\ ~RecordAudit(q)
    BY <2>2, InFlight DEF Emit, RecordAudit, TypeOK, WellFormed, Emitting, Auditing, Cancels,
       SessionRoutes
  <2>5. QED
    BY <2>3, <2>4, FinishIdles DEF SessionWrite
<1>4. QED
  BY <1>1, <1>2, <1>3

\* Every step of the only request keeps the invariant about lifecycles.
LEMMA NextLifeInv ==
    ASSUME OneRequest, TypeOK, RowInv, LifeInv, [Next]_vars
    PROVE  LifeInv'
<1>1. ASSUME NEW q \in Requests, Step(q) PROVE LifeInv'
  <2>1. ASSUME NEW r \in Reservations
        PROVE  stamps'[r] = IF status'[r] \in TerminalStates THEN {StampOf[status'[r]]} ELSE {}
    <3>1. stamps[r] = StampsFor(status[r])
      BY DEF LifeInv, StampsMatchStatus, StampsFor
    <3>2. CASE StampsEnd(q) /\ req[q].rsv = r /\ BeforeMove(q)
      <4>1. MayMove(status[r], Target[req[q].op])
        BY <3>2 DEF LifeInv, MoveStaysAllowed
      <4>2. status[r] \in TerminalStates => status[r] = Target[req[q].op]
        BY <4>1 DEF MayMove, ReservationTransitions, TerminalStates
      <4>3. QED
        BY <1>1, <3>1, <3>2, <4>2, StatusEffect DEF StampsFor
    <3>3. CASE ~(StampsEnd(q) /\ req[q].rsv = r /\ BeforeMove(q))
      BY <1>1, <3>1, <3>3, StatusEffect DEF StampsFor, TerminalStates
    <3>4. QED
      BY <3>2, <3>3
  <2>2. StampsMatchStatus'
    BY <2>1 DEF StampsMatchStatus
  <2>3. \A p \in Requests : p = q
    BY <1>1 DEF OneRequest
  <2>4. QED
    BY <1>1, <2>2, <2>3, MoveStays, SessionMoveStays
       DEF LifeInv, MoveStaysAllowed, SessionMoveStaysAllowed
<1>2. CASE UNCHANGED vars \/ \E r \in Reservations, i \in PayIds, e \in PaymentEvents :
                                KeyExpires(r, i, e)
  BY <1>2 DEF LifeInv, StampsMatchStatus, MoveStaysAllowed, BeforeMove,
     SessionMoveStaysAllowed, KeyExpires, DataUnchanged, vars, reservationVars, requestVars
<1>3. QED
  BY <1>1, <1>2 DEF Next, Step

\* What one request at a time keeps, from the first state on.
LEMMA LivesWell == ASSUME OneRequest PROVE Spec => []LifeInv
<1>1. Init => LifeInv
  BY DEF Init, Idle, LifeInv, StampsMatchStatus, MoveStaysAllowed, BeforeMove,
     SessionMoveStaysAllowed, TerminalStates
<1>2. TypeOK /\ RowInv /\ LifeInv /\ [Next]_vars => LifeInv'
  BY NextLifeInv
<1>3. QED
  BY <1>1, <1>2, TypeCorrect, RowsProtected, PTL DEF Spec

\* Taken one at a time, whatever fails in between, the handlers never move a
\* reservation that has ended: each consults the state machine.
THEOREM EndsAreFinal == ASSUME OneRequest PROVE Spec => TerminalIsFinal
<1>1. TypeOK /\ RowInv /\ LifeInv /\ [Next]_vars =>
         [\A r \in Reservations :
            status[r] \in TerminalStates => status'[r] = status[r]]_vars
  <2>1. ASSUME TypeOK, RowInv, LifeInv, NEW q \in Requests, Step(q),
               NEW r \in Reservations, status[r] \in TerminalStates
        PROVE  status'[r] = status[r]
    <3>1. CASE StampsEnd(q) /\ req[q].rsv = r /\ BeforeMove(q) /\ status'[r] = Target[req[q].op]
      <4>1. MayMove(status[r], Target[req[q].op])
        BY <2>1, <3>1 DEF LifeInv, MoveStaysAllowed
      <4>2. QED
        BY <2>1, <3>1, <4>1 DEF MayMove, ReservationTransitions, TerminalStates
    <3>2. QED
      BY <2>1, <3>1, StatusEffect DEF TerminalStates
  <2>2. QED
    BY <2>1, NextCases DEF reservationVars
<1>2. QED
  BY <1>1, LivesWell, TypeCorrect, RowsProtected, PTL DEF Spec, TerminalIsFinal

\* A reservation carries the timestamp of the way it ended and no other.
THEOREM StampsAreRight == ASSUME OneRequest PROVE Spec => []StampsMatchStatus
<1>1. LifeInv => StampsMatchStatus
  BY DEF LifeInv
<1>2. QED
  BY <1>1, LivesWell, PTL

\* A gaming session that is over stays over.
THEOREM SessionsStayEnded == ASSUME OneRequest PROVE Spec => EndedSessionIsFinal
<1>1. TypeOK /\ LifeInv /\ [Next]_vars =>
         [\A r \in Reservations, s \in SessionIds :
            session[r][s] = "COMPLETED" => session'[r][s] = "COMPLETED"]_vars
  BY NextCases, EndedStays
<1>2. QED
  BY <1>1, LivesWell, TypeCorrect, PTL DEF Spec, EndedSessionIsFinal
----------------------------------------------------------------------------
(* One request at a time: wallet, payments and payment state agree.        *)

\* The payment state changes where payments change, and nowhere else.
LEMMA OnlyFourMoveState ==
    ASSUME NEW q \in Requests, Step(q), ~MovesMoney(q)
    PROVE  UNCHANGED payState
<1>1. CASE Arrives(q)
  BY <1>1 DEF Arrives, CreateReservation, InsertReservation, PublicCheck, UpdateRead,
     ConfirmRead, CancelRead, CustomerCancelRead, StartRead, CompleteRead, NoShowRead,
     ReadAndValidate, InitiateRead, FindKey, WebhookUnchanged, SessionStartRead,
     PauseSessionRead, ResumeSessionRead, StopSessionRead, SessionRead, SessionUnchanged,
     reservationVars
<1>2. CASE ~Arrives(q)
  BY <1>2 DEF Step, Proceeds, PublicInsert, InsertReservation, UpdateWrite, UpdateConflict,
     UpdateCommit, ConfirmWrite, NoShowWrite, CancelWrite, StartWrite,
     StartSession, StartCommit, CompleteWrite, EndSession, CompleteCommit,
     LockReservation, RecordAudit, Emit, CallCommission, RefundSelect, RefundCredit,
     RefundState, RefundSweep, RefundStep, InitiateGateway, CreateKey,
     ReadPayment, PayThenApply, PayThenRefund, LockPayment, ApplyToReservation,
     MarkCompleted, MarkFailed, WebhookUnchanged,
     SessionStartWrite, SessionWrite, SessionUnchanged, Calculates, CalculateRead,
     CreateEarning, CalcUnchanged, Abort, Crash, CalculateFails, DataUnchanged,
     reservationVars, MovesMoney
<1>3. QED
  BY <1>1, <1>2

\* The wallet and the payment state of one reservation.
PurseOf(r) ==
    /\ \A i \in PayIds : credits[r][i] = IF payment[r][i] = "REFUNDED" THEN 1 ELSE 0
    /\ payState[r] = "PENDING" => \E i \in PayIds : payment[r][i] = "INITIATED"
    /\ payState[r] = "PAID" => \E i \in PayIds : payment[r][i] = "PAID"

\* A new payment: it is the open one.
LEMMA InitiateKeepsPurse ==
    ASSUME TypeOK, NEW q \in Requests, InitiateCreate(q), NEW r \in Reservations, PurseOf(r)
    PROVE  PurseOf(r)'
<1>1. PICK x \in Reservations : x = req[q].rsv
  BY InFlight DEF InitiateCreate, At, TypeOK
<1>2. PICK j \in PayIds : payment[x][j] = "ABSENT" /\ payment' = [payment EXCEPT ![x][j] = "INITIATED"]
  BY <1>1 DEF InitiateCreate
<1>3. payState' = [payState EXCEPT ![x] = "PENDING"] /\ UNCHANGED credits
  BY <1>1 DEF InitiateCreate
<1>4. \A i \in PayIds : payment'[r][i] = IF r = x /\ i = j THEN "INITIATED" ELSE payment[r][i]
  BY <1>2 DEF TypeOK, MoneyTypeOK
<1>5. payState'[r] = IF r = x THEN "PENDING" ELSE payState[r]
  BY <1>3 DEF TypeOK, ReservationTypeOK
<1>6. QED
  BY <1>2, <1>3, <1>4, <1>5 DEF PurseOf

\* An event moves a payment that is not refunded, and the state with it.
LEMMA ApplyKeepsPurse ==
    ASSUME TypeOK, NEW q \in Requests, ApplyCommit(q), OutcomeAllowed(q),
           NEW r \in Reservations, PurseOf(r)
    PROVE  PurseOf(r)'
<1>1. /\ req[q].rsv \in Reservations /\ req[q].item \in PayIds /\ req[q].event \in PaymentEvents
      /\ req[q].op = "webhook" /\ req[q].pc = "applied"
  BY InFlight DEF ApplyCommit, At, TypeOK, WellFormed, Idle
<1>2. PICK x \in Reservations : x = req[q].rsv
  BY <1>1
<1>3. PICK j \in PayIds : j = req[q].item
  BY <1>1
<1>4. PICK to \in {"PAID", "FAILED", "CANCELED"} : to = Outcome[req[q].event]
  BY <1>1 DEF Outcome, PaymentEvents
<1>5. <<payment[x][j], to>> \in PaymentTransitions
  BY <1>1, <1>2, <1>3, <1>4 DEF OutcomeAllowed, PaymentMayMove
<1>6. payment[x][j] # "REFUNDED"
  BY <1>5 DEF PaymentTransitions
<1>7. /\ payment' = [payment EXCEPT ![x][j] = to] /\ payState' = [payState EXCEPT ![x] = to]
      /\ UNCHANGED credits
  BY <1>2, <1>3, <1>4 DEF ApplyCommit
<1>8. \A i \in PayIds : payment'[r][i] = IF r = x /\ i = j THEN to ELSE payment[r][i]
  BY <1>7 DEF TypeOK, MoneyTypeOK
<1>9. payState'[r] = IF r = x THEN to ELSE payState[r]
  BY <1>7 DEF TypeOK, ReservationTypeOK
<1>10. QED
  BY <1>6, <1>7, <1>8, <1>9 DEF PurseOf

\* A refund credits once what it sweeps, and nothing was credited before.
LEMMA RefundKeepsPurse ==
    ASSUME TypeOK, NEW q \in Requests, req[q].rsv \in Reservations, RefundCommitted(q),
           ~RefundExists(req[q].rsv), Held(q) = req[q].due, req[q].due # {},
           NEW r \in Reservations, PurseOf(r)
    PROVE  PurseOf(r)'
<1>1. PICK x \in Reservations : x = req[q].rsv
  OBVIOUS
<1>2. \A i \in PayIds : i \in req[q].due <=> PaymentRow(x, i) \in locks[q]
  BY <1>1 DEF Held
<1>3. \A i \in PayIds :
         /\ credits'[r][i] = IF r = x /\ i \in req[q].due THEN credits[r][i] + 1 ELSE credits[r][i]
         /\ payment'[r][i] = IF r = x /\ i \in req[q].due THEN "REFUNDED" ELSE payment[r][i]
  BY <1>1, <1>2, RefundWrites
<1>4. payState'[r] = IF r = x THEN "REFUNDED" ELSE payState[r]
  BY <1>1 DEF RefundCommitted, TypeOK, ReservationTypeOK
<1>5. \A i \in PayIds : credits[x][i] = 0
  BY <1>1 DEF RefundExists, TypeOK, MoneyTypeOK
<1>6. CASE r = x
  BY <1>3, <1>4, <1>5, <1>6 DEF PurseOf
<1>7. CASE r # x
  BY <1>3, <1>4, <1>7 DEF PurseOf
<1>8. QED
  BY <1>6, <1>7

\* A payment that came too late is left PAID, and the state does not ask for
\* an open one.
LEMMA LateKeepsPurse ==
    ASSUME TypeOK, NEW q \in Requests, RefundedPaymentCommit(q), req[q].due = {},
           OutcomeAllowed(q), NEW r \in Reservations, PurseOf(r)
    PROVE  PurseOf(r)'
<1>1. /\ req[q].rsv \in Reservations /\ req[q].item \in PayIds
      /\ req[q].op = "webhook" /\ req[q].pc = "commit"
  BY InFlight DEF RefundedPaymentCommit, At, TypeOK, WellFormed, Idle
<1>2. PICK x \in Reservations : x = req[q].rsv
  BY <1>1
<1>3. PICK j \in PayIds : j = req[q].item
  BY <1>1
<1>4. /\ <<payment[x][j], "PAID">> \in PaymentTransitions
      /\ <<payState[x], "PAID">> \notin ReservationPaymentTransitions
  BY <1>1, <1>2, <1>3 DEF OutcomeAllowed, PaymentMayMove, PaymentStateMayMove, Selected
<1>5. payment[x][j] # "REFUNDED" /\ payState[x] # "PENDING"
  BY <1>4 DEF PaymentTransitions, ReservationPaymentTransitions
<1>6. /\ payment' = [payment EXCEPT ![x][j] = "PAID"] /\ UNCHANGED <<payState, credits>>
  BY <1>2, <1>3 DEF RefundedPaymentCommit
<1>7. \A i \in PayIds : payment'[r][i] = IF r = x /\ i = j THEN "PAID" ELSE payment[r][i]
  BY <1>6 DEF TypeOK, MoneyTypeOK
<1>8. QED
  BY <1>5, <1>6, <1>7 DEF PurseOf

\* Every step keeps the purse of every reservation.
LEMMA PurseStays ==
    ASSUME TypeOK, NEW q \in Requests, OutcomeAllowed(q), DueIsAll(q), Step(q),
           NEW r \in Reservations, PurseOf(r)
    PROVE  PurseOf(r)'
<1>1. CASE ~MovesMoney(q)
  BY <1>1, OnlyFourMoveMoney, OnlyFourMoveState DEF PurseOf
<1>2. CASE InitiateCreate(q)
  BY <1>2, InitiateKeepsPurse
<1>3. CASE ApplyCommit(q)
  BY <1>3, ApplyKeepsPurse
<1>4. CASE CancelCommit(q) \/ RefundedPaymentCommit(q)
  <2>1. req[q].op \in Refunding /\ req[q].pc = "commit" /\ req[q].rsv \in Reservations
    BY <1>4, InFlight DEF CancelCommit, RefundedPaymentCommit, At, Refunding, TypeOK
  <2>2. CASE req[q].due # {}
    <3>1. RefundCommitted(q)
      BY <1>4, <2>2 DEF CancelCommit, RefundedPaymentCommit
    <3>2. ~RefundExists(req[q].rsv) /\ Held(q) = req[q].due
      BY <2>1, <2>2 DEF DueIsAll, Selected
    <3>3. QED
      BY <2>1, <2>2, <3>1, <3>2, RefundKeepsPurse
  <2>3. CASE req[q].due = {} /\ CancelCommit(q)
    BY <2>3 DEF CancelCommit, PurseOf
  <2>4. CASE req[q].due = {} /\ RefundedPaymentCommit(q)
    BY <2>4, LateKeepsPurse
  <2>5. QED
    BY <1>4, <2>2, <2>3, <2>4
<1>5. QED
  BY <1>1, <1>2, <1>3, <1>4 DEF MovesMoney

\* Between the test and the write of a provider event nothing moves its
\* payment or the reservation's payment state.
LEMMA OutcomeStays ==
    ASSUME TypeOK, NEW q \in Requests, OutcomeAllowed(q), Step(q)
    PROVE  OutcomeAllowed(q)'
<1> DEFINE Applying == Selected \cup {"payThenApply", "apply", "applied", "payThenRefund", "refund"}
<1>1. CASE ~(req'[q].op = "webhook" /\ req'[q].pc \in Applying)
  BY <1>1 DEF OutcomeAllowed
<1>2. CASE UNCHANGED <<reservationVars, moneyVars, requestVars>>
  BY <1>2 DEF OutcomeAllowed, reservationVars, moneyVars, requestVars
<1>3. CASE /\ req'[q].op = "webhook" /\ req'[q].pc \in Applying
           /\ ~UNCHANGED <<reservationVars, moneyVars, requestVars>>
  <2>1. ~Arrives(q)
    BY <1>3, ArrivalKnows DEF Selected
  <2>2. ~(Calculates(q) \/ CalculateFails(q))
    BY <1>3, CalculationsKeep
  <2>3. ~(Abort(q) \/ Crash(q))
    BY <1>3, FailureEnds DEF Selected
  <2>4. req[q].pc # "idle" /\ req[q].op = "webhook"
    <3>1. Proceeds(q)
      BY <2>1, <2>2, <2>3 DEF Step
    <3>2. QED
      BY <1>3, <3>1, ProceedsKeeps DEF Idle, Selected
  <2>5. /\ req[q].rsv \in Reservations /\ req[q].item \in PayIds /\ req[q].event \in PaymentEvents
    BY <2>4, InFlight DEF TypeOK, WellFormed, Idle
  <2>6. PICK r \in Reservations : r = req[q].rsv
    BY <2>5
  <2>7. PICK i \in PayIds : i = req[q].item
    BY <2>5
  <2>8. PICK e \in PaymentEvents : e = req[q].event
    BY <2>5
  <2>9. ~Finish(q) /\ \A step \in Steps \ Applying : ~Goto(q, step)
    BY <1>3, FinishIdles, GotoMoves DEF Selected
  <2>10. CASE ReadPayment(q)
    <3>1. /\ UNCHANGED <<payState, payment>>
          /\ \/ /\ PaymentMayMove(payment[r][i], Outcome[e]) /\ Goto(q, "payThenApply")
             \/ /\ PaymentMayMove(payment[r][i], Outcome[e]) /\ Outcome[e] = "PAID"
                /\ ~PaymentStateMayMove(payState[r], Outcome[e]) /\ Goto(q, "payThenRefund")
      <4>1. /\ UNCHANGED <<payState, payment>>
            /\ \/ Goto(q, "ack") \/ Goto(q, "fail")
               \/ PaymentMayMove(payment[r][i], Outcome[e]) /\ Goto(q, "payThenApply")
               \/ /\ PaymentMayMove(payment[r][i], Outcome[e]) /\ Outcome[e] = "PAID"
                  /\ ~PaymentStateMayMove(payState[r], Outcome[e]) /\ Goto(q, "payThenRefund")
        BY <2>10, <2>6, <2>7, <2>8 DEF ReadPayment
      <4>2. ~Goto(q, "ack") /\ ~Goto(q, "fail")
        BY <2>9 DEF Steps, Selected
      <4>3. QED
        BY <4>1, <4>2
    <3>2. /\ req'[q].rsv = r /\ req'[q].item = i /\ req'[q].event = e
      BY <2>6, <2>7, <2>8, <3>1, GotoMoves
    <3>3. req'[q].pc = "payThenApply" \/ req'[q].pc = "payThenRefund"
      BY <3>1, GotoMoves
    <3>4. CASE req'[q].pc = "payThenApply"
      BY <3>1, <3>2, <3>4, GotoMoves DEF OutcomeAllowed, PaymentMayMove, Selected
    <3>5. CASE req'[q].pc = "payThenRefund"
      <4>1. /\ PaymentMayMove(payment[r][i], Outcome[e]) /\ Outcome[e] = "PAID"
            /\ ~PaymentStateMayMove(payState[r], Outcome[e])
        BY <3>1, <3>5, GotoMoves
      <4>2. QED
        BY <3>1, <3>2, <4>1 DEF OutcomeAllowed, PaymentMayMove, PaymentStateMayMove
    <3>6. QED
      BY <3>3, <3>4, <3>5
  <2>11. CASE \/ PayThenApply(q) \/ PayThenRefund(q) \/ ApplyToReservation(q)
              \/ RefundSelect(q) \/ RefundCredit(q) \/ RefundState(q) \/ RefundSweep(q)
    <3>1. UNCHANGED <<payState, payment>>
      BY <2>11 DEF PayThenApply, PayThenRefund, LockPayment, ApplyToReservation, RefundSelect,
         RefundCredit, RefundState, RefundSweep, RefundStep, reservationVars, moneyVars
    <3>2. /\ req'[q].rsv = r /\ req'[q].item = i /\ req'[q].event = e
      <4>1. \/ \E step \in Steps : Goto(q, step)
            \/ \E due : req' = [req EXCEPT ![q].pc = "credit", ![q].due = due]
        BY <2>11 DEF PayThenApply, PayThenRefund, LockPayment, ApplyToReservation, RefundSelect,
           RefundCredit, RefundState, RefundSweep, RefundStep, Steps
      <4>2. QED
        BY <2>6, <2>7, <2>8, <4>1, GotoMoves DEF TypeOK, RequestTypeOK, RequestRecord
    <3>3. req[q].pc \in Applying
      BY <2>11 DEF PayThenApply, PayThenRefund, LockPayment, ApplyToReservation, RefundSelect,
         RefundCredit, RefundState, RefundSweep, RefundStep, At, Selected
    <3>4. req'[q].pc \in Selected \cup {"payThenRefund", "refund"}
             => req[q].pc \in Selected \cup {"payThenRefund", "refund"}
      <4>1. CASE PayThenApply(q) \/ ApplyToReservation(q)
        <5>1. Goto(q, "apply") \/ Goto(q, "applied")
          BY <4>1 DEF PayThenApply, LockPayment, ApplyToReservation
        <5>2. QED
          BY <5>1, GotoMoves DEF Selected
      <4>2. CASE ~(PayThenApply(q) \/ ApplyToReservation(q))
        BY <2>11, <4>2 DEF PayThenRefund, LockPayment, RefundSelect, RefundCredit,
           RefundState, RefundSweep, RefundStep, At, Selected
      <4>3. QED
        BY <4>1, <4>2
    <3>5. PaymentMayMove(payment[r][i], Outcome[e])
      BY <2>4, <2>6, <2>7, <2>8, <3>3 DEF OutcomeAllowed
    <3>6. req'[q].pc \in Selected \cup {"payThenRefund", "refund"} =>
             Outcome[e] = "PAID" /\ ~PaymentStateMayMove(payState[r], "PAID")
      BY <2>4, <2>6, <2>8, <3>4 DEF OutcomeAllowed
    <3>7. QED
      BY <3>1, <3>2, <3>5, <3>6 DEF OutcomeAllowed, PaymentMayMove, PaymentStateMayMove
  <2>12. ~(\/ CreateKey(q) \/ ApplyCommit(q) \/ RefundedPaymentCommit(q)
           \/ MarkCompleted(q) \/ MarkFailed(q))
    <3>1. ASSUME \/ CreateKey(q) \/ ApplyCommit(q) \/ RefundedPaymentCommit(q)
                 \/ MarkCompleted(q) \/ MarkFailed(q)
          PROVE  Finish(q) \/ Goto(q, "read") \/ Goto(q, "ack") \/ Goto(q, "fail")
      BY <3>1 DEF CreateKey, ApplyCommit, RefundedPaymentCommit, MarkCompleted, MarkFailed
    <3>2. QED
      BY <2>9, <3>1 DEF Steps, Selected
  <2>13. QED
    BY <2>2, <2>3, <2>4, <2>10, <2>11, <2>12, WebhookSteps
<1>4. QED
  BY <1>1, <1>2, <1>3

\* The rows of the payments are not those of accounts or reservations.
LEMMA OtherRows ==
    /\ \A r \in Reservations, i \in PayIds, x \in Reservations :
          PaymentRow(r, i) # ReservationRow(x) /\ PaymentRow(r, i) # AccountRow(x)
    /\ \A r \in Reservations, i, j \in PayIds : PaymentRow(r, i) = PaymentRow(r, j) => i = j
  BY DEF PaymentRow, ReservationRow, AccountRow

\* On its way to a refund, a request holds the payment of its event only.
LEMMA HeldStays ==
    ASSUME TypeOK, LocksEnd, NEW q \in Requests, DueIsAll(q), Step(q),
           req'[q].op \in Refunding,
           req'[q].pc \in {"refund", "credit", "refundState", "sweep"}
    PROVE  Held(q)' = OwnPaid(q)'
<1> DEFINE Under == {"refund", "credit", "refundState", "sweep"}
<1>1. CASE UNCHANGED requestVars
  BY <1>1 DEF DueIsAll, requestVars, Held, OwnPaid
<1>2. CASE ~UNCHANGED requestVars
  <2>1. ~Arrives(q)
    BY ArrivalKnows DEF Selected
  <2>2. ~(Calculates(q) \/ CalculateFails(q))
    BY <1>2, CalculationsKeep
  <2>3. ~(Abort(q) \/ Crash(q))
    BY FailureEnds
  <2>4. req[q].pc # "idle" /\ req'[q].op = req[q].op /\ req'[q].rsv = req[q].rsv
    <3>1. Proceeds(q)
      BY <2>1, <2>2, <2>3 DEF Step
    <3>2. QED
      BY <3>1, ProceedsKeeps DEF Idle
  <2>5. PICK r \in Reservations : r = req[q].rsv
    BY <2>4, InFlight DEF TypeOK
  <2>6. ~Finish(q) /\ \A step \in Steps \ Under : ~Goto(q, step)
    BY FinishIdles, GotoMoves
  <2>7. CASE CancelWrite(q)
    <3>1. /\ req[q].op \in Cancels /\ req[q].pc = "write"
          /\ locks' = [locks EXCEPT ![q] = @ \cup {ReservationRow(r)}]
      BY <2>5, <2>7 DEF CancelWrite, LockReservation, Lock, At
    <3>2. locks[q] = {}
      BY <3>1 DEF LocksEnd, InTransaction, Cancels
    <3>3. locks'[q] = {ReservationRow(r)}
      BY <3>1, <3>2 DEF TypeOK, RequestTypeOK
    <3>4. Held(q)' = {}
      BY <2>4, <2>5, <3>3, OtherRows DEF Held
    <3>5. QED
      BY <2>4, <3>1, <3>4 DEF OwnPaid, Cancels
  <2>8. CASE PayThenRefund(q)
    <3>1. /\ req[q].op = "webhook" /\ req[q].pc = "payThenRefund"
          /\ locks' = [locks EXCEPT ![q] = @ \cup {PaymentRow(r, req[q].item)}]
          /\ Goto(q, "refund")
      BY <2>5, <2>8 DEF PayThenRefund, LockPayment, Lock, At
    <3>2. req[q].item \in PayIds /\ req'[q].item = req[q].item
      BY <2>4, <3>1, InFlight, GotoMoves DEF TypeOK, WellFormed, Idle
    <3>3. locks[q] = {}
      BY <3>1 DEF LocksEnd, InTransaction
    <3>4. locks'[q] = {PaymentRow(r, req[q].item)}
      BY <3>1, <3>3 DEF TypeOK, RequestTypeOK
    <3>5. Held(q)' = {req[q].item}
      BY <2>4, <2>5, <3>2, <3>4, OtherRows DEF Held
    <3>6. QED
      BY <2>4, <3>1, <3>2, <3>5 DEF OwnPaid
  <2>9. CASE RefundSelect(q) \/ RefundCredit(q) \/ RefundState(q)
    <3>1. req[q].op \in Refunding /\ req[q].pc \in Under
      BY <2>9 DEF RefundSelect, RefundCredit, RefundState, RefundStep, At
    <3>2. req'[q].item = req[q].item
      <4>1. \/ Goto(q, "commit") \/ Goto(q, "refundState") \/ Goto(q, "sweep")
            \/ \E due : req' = [req EXCEPT ![q].pc = "credit", ![q].due = due]
        BY <2>9 DEF RefundSelect, RefundCredit, RefundState, RefundStep
      <4>2. QED
        BY <4>1, GotoMoves DEF TypeOK, RequestTypeOK, RequestRecord
    <3>3. \/ locks'[q] = locks[q]
          \/ locks'[q] = locks[q] \cup {ReservationRow(r)}
          \/ locks'[q] = locks[q] \cup {AccountRow(r)}
      BY <2>5, <2>9 DEF RefundSelect, RefundCredit, RefundState, RefundStep, Lock, TypeOK,
         RequestTypeOK
    <3>4. Held(q)' = Held(q)
      BY <2>4, <2>5, <3>3, OtherRows DEF Held
    <3>5. QED
      BY <2>4, <3>1, <3>2, <3>4 DEF DueIsAll, OwnPaid
  <2>10. ~(\/ RefundSweep(q) \/ CancelCommit(q) \/ Emit(q) \/ RecordAudit(q) \/ CreateKey(q)
           \/ ReadPayment(q) \/ PayThenApply(q) \/ ApplyToReservation(q) \/ ApplyCommit(q)
           \/ RefundedPaymentCommit(q) \/ MarkCompleted(q) \/ MarkFailed(q))
    <3>1. ASSUME \/ RefundSweep(q) \/ CancelCommit(q) \/ CreateKey(q)
                 \/ ReadPayment(q) \/ PayThenApply(q) \/ ApplyToReservation(q) \/ ApplyCommit(q)
                 \/ RefundedPaymentCommit(q) \/ MarkCompleted(q) \/ MarkFailed(q)
          PROVE  Finish(q) \/ \E step \in Steps \ Under : Goto(q, step)
      <4>1. Finish(q) \/ \E step \in {"commit", "emit", "audit", "read", "ack", "payThenApply",
                                      "payThenRefund", "fail", "apply", "applied"} : Goto(q, step)
        BY <3>1 DEF RefundSweep, RefundStep, CancelCommit, CreateKey, ReadPayment, PayThenApply,
           LockPayment, ApplyToReservation, ApplyCommit, RefundedPaymentCommit, MarkCompleted,
           MarkFailed
      <4>2. QED
        BY <4>1 DEF Steps
    <3>2. ASSUME Emit(q) \/ RecordAudit(q)
          PROVE  Finish(q) \/ \E step \in Steps \ Under : Goto(q, step)
      <4>1. Finish(q) \/ Goto(q, "audit") \/ Goto(q, "commission")
              \/ (RecordAudit(q) /\ req[q].op \notin Cancels)
        BY <3>2 DEF Emit, RecordAudit
      <4>2. ~(RecordAudit(q) /\ req[q].op \notin Cancels)
        BY <2>4, InFlight DEF RecordAudit, TypeOK, WellFormed, Auditing, Refunding, Idle
      <4>3. QED
        BY <4>1, <4>2 DEF Steps
    <3>3. QED
      BY <2>6, <3>1, <3>2
  <2>11. CASE req[q].op \in Cancels
    BY <2>2, <2>3, <2>4, <2>7, <2>9, <2>10, <2>11, CancelSteps
  <2>12. CASE req[q].op = "webhook"
    BY <2>2, <2>3, <2>4, <2>8, <2>9, <2>10, <2>12, WebhookSteps
  <2>13. QED
    BY <2>4, <2>11, <2>12 DEF Refunding
<1>3. QED
  BY <1>1, <1>2

\* What is due is all that is paid until the commit, which holds it.
LEMMA DueStaysAll ==
    ASSUME TypeOK, LocksEnd, DueIsSelected, NEW q \in Requests, DueIsAll(q), Step(q)
    PROVE  DueIsAll(q)'
<1>1. (req'[q].op \in Refunding /\ req'[q].pc \in {"refund", "credit", "refundState", "sweep"})
         => Held(q)' = OwnPaid(q)'
  BY HeldStays
<1>2. ASSUME req'[q].op \in Refunding, req'[q].pc \in Selected, req'[q].due # {}
      PROVE  /\ req'[q].due = PaidOf(req[q].rsv)' \cup OwnPaid(q)'
             /\ ~RefundExists(req[q].rsv)'
             /\ req'[q].pc = "commit" => Held(q)' = req'[q].due
  <2>1. /\ req[q].pc # "idle" /\ req'[q].op = req[q].op /\ req'[q].rsv = req[q].rsv
        /\ req'[q].item = req[q].item
        /\ \/ RefundSelect(q)
           \/ /\ RefundCredit(q) \/ RefundState(q) \/ RefundSweep(q)
              /\ req'[q].due = req[q].due
           \/ UNCHANGED <<moneyVars, requestVars>>
    BY <1>2, SelectedBy
  <2>2. PICK r \in Reservations : r = req[q].rsv
    BY <2>1, InFlight DEF TypeOK
  <2>3. UNCHANGED <<payment, credits>> /\ OwnPaid(q)' = OwnPaid(q)
    BY <2>1 DEF RefundSelect, RefundCredit, RefundState, RefundSweep, RefundStep, moneyVars,
       OwnPaid
  <2>4. CASE RefundSelect(q)
    <3>1. req[q].pc = "refund" /\ req[q].due = {}
      BY <2>4 DEF RefundSelect, At, DueIsSelected
    <3>2. ~Goto(q, "commit")
      BY <1>2, <3>1, GotoMoves
    <3>3. /\ ~RefundExists(r)
          /\ req' = [req EXCEPT ![q].pc = "credit", ![q].due = PaidOf(r) \cup OwnPaid(q)]
      BY <2>2, <2>4, <3>2 DEF RefundSelect
    <3>4. req'[q].due = PaidOf(r) \cup OwnPaid(q) /\ req'[q].pc = "credit"
      BY <3>3 DEF TypeOK, RequestTypeOK, RequestRecord
    <3>5. QED
      BY <2>1, <2>2, <2>3, <3>3, <3>4 DEF PaidOf, RefundExists
  <2>5. CASE /\ RefundCredit(q) \/ RefundState(q) \/ RefundSweep(q)
             /\ req'[q].due = req[q].due
    <3>1. /\ req[q].op \in Refunding /\ req[q].pc \in {"credit", "refundState", "sweep"}
      BY <2>5 DEF RefundCredit, RefundState, RefundSweep, RefundStep, At
    <3>2. /\ req[q].due = PaidOf(r) \cup OwnPaid(q) /\ ~RefundExists(r)
          /\ Held(q) = OwnPaid(q)
      BY <1>2, <2>2, <2>5, <3>1 DEF DueIsAll, Selected
    <3>3. CASE req'[q].pc = "commit"
      <4>1. RefundSweep(q)
        <5>1. ASSUME RefundCredit(q) \/ RefundState(q) PROVE FALSE
          <6>1. Goto(q, "refundState") \/ Goto(q, "sweep")
            BY <5>1 DEF RefundCredit, RefundState, RefundStep
          <6>2. QED
            BY <3>3, <6>1, GotoMoves
        <5>2. QED
          BY <2>5, <5>1
      <4>2. locks'[q] = locks[q] \cup {PaymentRow(r, i) : i \in PaidOf(r)}
        BY <2>2, <4>1 DEF RefundSweep, RefundStep, Lock, TypeOK, RequestTypeOK
      <4>3. Held(q)' = Held(q) \cup PaidOf(r)
        <5>1. PaidOf(r) \subseteq PayIds
          BY DEF PaidOf
        <5>2. \A i \in PayIds : PaymentRow(r, i) \in {PaymentRow(r, j) : j \in PaidOf(r)}
                                   <=> i \in PaidOf(r)
          BY <5>1, OtherRows
        <5>3. QED
          BY <2>1, <2>2, <4>2, <5>1, <5>2 DEF Held
      <4>4. QED
        BY <2>1, <2>2, <2>3, <2>5, <3>2, <4>3 DEF PaidOf, RefundExists
    <3>4. CASE req'[q].pc # "commit"
      BY <2>1, <2>2, <2>3, <2>5, <3>2, <3>4 DEF PaidOf, RefundExists
    <3>5. QED
      BY <3>3, <3>4
  <2>6. CASE UNCHANGED <<moneyVars, requestVars>>
    BY <1>2, <2>6 DEF DueIsAll, requestVars, moneyVars, PaidOf, RefundExists, Held, OwnPaid
  <2>7. QED
    BY <2>1, <2>4, <2>5, <2>6
<1>3. QED
  BY <1>1, <1>2 DEF DueIsAll

\* Every step of the only request keeps the invariant about the purse.
LEMMA NextPurseInv ==
    ASSUME OneRequest, TypeOK, RowInv, ScopeInv, PurseInv, [Next]_vars
    PROVE  PurseInv'
<1>1. PurseInv <=> /\ \A r \in Reservations : PurseOf(r)
                   /\ \A q \in Requests : OutcomeAllowed(q) /\ DueIsAll(q)
  BY DEF PurseInv, PurseOf, WalletMatchesRefunds, PaymentStateIsBacked, PaidOf
<1>2. PurseInv' <=> /\ \A r \in Reservations : PurseOf(r)'
                    /\ \A q \in Requests : OutcomeAllowed(q)' /\ DueIsAll(q)'
  BY DEF PurseInv, PurseOf, WalletMatchesRefunds, PaymentStateIsBacked, PaidOf
<1>3. ASSUME NEW q \in Requests, Step(q) PROVE PurseInv'
  <2>1. \A p \in Requests : p = q
    BY <1>3 DEF OneRequest
  <2>2. \A r \in Reservations : PurseOf(r)'
    BY <1>1, <1>3, PurseStays
  <2>3. OutcomeAllowed(q)' /\ DueIsAll(q)'
    BY <1>1, <1>3, OutcomeStays, DueStaysAll DEF ScopeInv, RowInv
  <2>4. QED
    BY <1>2, <2>1, <2>2, <2>3
<1>4. CASE UNCHANGED vars \/ \E r \in Reservations, i \in PayIds, e \in PaymentEvents :
                                KeyExpires(r, i, e)
  <2>1. UNCHANGED <<reservationVars, moneyVars, requestVars>>
    BY <1>4 DEF KeyExpires, DataUnchanged, vars
  <2>2. ASSUME NEW q \in Requests PROVE OutcomeAllowed(q)' /\ DueIsAll(q)'
    BY <1>1, <2>1 DEF OutcomeAllowed, DueIsAll, reservationVars, moneyVars, requestVars,
       PaidOf, RefundExists, Held, OwnPaid
  <2>3. QED
    BY <1>1, <1>2, <2>1, <2>2 DEF PurseOf, reservationVars, moneyVars
<1>5. QED
  BY <1>3, <1>4 DEF Next, Step

\* What one request at a time keeps, from the first state on.
LEMMA PurseRight == ASSUME OneRequest PROVE Spec => []PurseInv
<1>1. Init => PurseInv
  BY DEF Init, Idle, PurseInv, WalletMatchesRefunds, PaymentStateIsBacked, OutcomeAllowed,
     DueIsAll, Selected
<1>2. TypeOK /\ RowInv /\ ScopeInv /\ PurseInv /\ [Next]_vars => PurseInv'
  BY NextPurseInv
<1>3. QED
  BY <1>1, <1>2, TypeCorrect, RowsProtected, ScopesEnd, PTL DEF Spec

\* A payment is credited to the wallet once if it is REFUNDED, and not at all
\* otherwise, through failures, crashes, late and repeated events.
THEOREM WalletIsRight == ASSUME OneRequest PROVE Spec => []WalletMatchesRefunds
<1>1. PurseInv => WalletMatchesRefunds
  BY DEF PurseInv
<1>2. QED
  BY <1>1, PurseRight, PTL

\* A reservation says PENDING or PAID only with a payment to show for it.
THEOREM StateIsBacked == ASSUME OneRequest PROVE Spec => []PaymentStateIsBacked
<1>1. PurseInv => PaymentStateIsBacked
  BY DEF PurseInv
<1>2. QED
  BY <1>1, PurseRight, PTL
----------------------------------------------------------------------------
(* One request at a time: every step is one of the promise, or none.       *)

\* The tables are functions, so their images are told apart by their values.
LEMMA Tables ==
    ASSUME TypeOK
    PROVE  /\ credits = [x \in Reservations |-> [i \in PayIds |-> credits[x][i]]]
           /\ \A x \in Reservations, i \in PayIds :
                 payment[x][i] \in PaymentStatus \cup {"ABSENT"} /\ credits[x][i] \in Nat
  BY DEF TypeOK, MoneyTypeOK

\* A step that moves one payment and nothing else the promise speaks of.
LEMMA MovesOne ==
    ASSUME TypeOK, NEW r \in Reservations, NEW i \in PayIds, NEW to,
           payment' = [payment EXCEPT ![r][i] = to], UNCHANGED <<status, credits>>,
           Exists(r), NEW from, MoneyOf[payment[r][i]] = from
    PROVE  Promise!Becomes(r, i, from, MoneyOf[to])
<1>1. \A x \in Reservations, j \in PayIds :
         payment'[x][j] = IF x = r /\ j = i THEN to ELSE payment[x][j]
  BY DEF TypeOK, MoneyTypeOK
<1>2. [x \in Reservations |-> [j \in PayIds |-> MoneyOf[payment[x][j]]]]'
         = [[x \in Reservations |-> [j \in PayIds |-> MoneyOf[payment[x][j]]]]
               EXCEPT ![r][i] = MoneyOf[to]]
  <2> DEFINE M == [x \in Reservations |-> [j \in PayIds |-> MoneyOf[payment[x][j]]]]
  <2>1. \A x \in Reservations : M'[x] = IF x = r THEN [M[r] EXCEPT ![i] = MoneyOf[to]] ELSE M[x]
    BY <1>1
  <2>2. M = [x \in Reservations |-> M[x]] /\ M' = [x \in Reservations |-> M'[x]]
    OBVIOUS
  <2> HIDE DEF M
  <2>3. M' = [M EXCEPT ![r][i] = MoneyOf[to]]
    BY <2>1, <2>2
  <2>4. QED
    BY <2>3 DEF M
<1>3. BookingOf(r) # "none" /\ \A x \in Reservations : BookingOf(x)' = BookingOf(x)
  BY DEF BookingOf, Exists
<1>4. [x \in Reservations |-> BookingOf(x)]' = [x \in Reservations |-> BookingOf(x)]
  BY <1>3
<1>5. QED
  BY <1>2, <1>3, <1>4 DEF Promise!Becomes

\* A reservation that was not there is held.
LEMMA Books ==
    ASSUME TypeOK, NEW r \in Reservations, NEW st \in {"CONFIRMED", "PENDING"},
           status[r] = "ABSENT", status' = [status EXCEPT ![r] = st],
           UNCHANGED <<payment, credits>>
    PROVE  Promise!Book(r)
<1>1. \A x \in Reservations : status'[x] = IF x = r THEN st ELSE status[x]
  BY DEF TypeOK, ReservationTypeOK
<1>2. \A x \in Reservations : BookingOf(x)' = IF x = r THEN "held" ELSE BookingOf(x)
  BY <1>1 DEF BookingOf
<1>3. [x \in Reservations |-> BookingOf(x)]'
         = [[x \in Reservations |-> BookingOf(x)] EXCEPT ![r] = "held"]
  BY <1>2
<1>4. BookingOf(r) = "none"
  BY DEF BookingOf
<1>5. QED
  BY <1>3, <1>4 DEF Promise!Book

\* Nothing the promise speaks of changes.
LEMMA Stutters ==
    ASSUME \A x \in Reservations : BookingOf(x)' = BookingOf(x), UNCHANGED <<payment, credits>>
    PROVE  UNCHANGED Promise!vars
<1>1. [x \in Reservations |-> BookingOf(x)]' = [x \in Reservations |-> BookingOf(x)]
  OBVIOUS
<1>2. QED
  BY <1>1 DEF Promise!vars

\* What a refund writes, as the promise sees it.
LEMMA Refunds ==
    ASSUME TypeOK, NEW q \in Requests, NEW r \in Reservations, r = req[q].rsv,
           RefundCommitted(q), ~RefundExists(r), Held(q) = req[q].due
    PROVE  /\ Promise!NotYetRefunded(r)
           /\ \A x \in Reservations, i \in PayIds :
                 /\ MoneyOf[payment'[x][i]] = IF x = r /\ i \in req[q].due THEN "refunded"
                                             ELSE MoneyOf[payment[x][i]]
                 /\ credits'[x][i] = IF x = r /\ i \in req[q].due THEN 1 ELSE credits[x][i]
           /\ credits' = [credits EXCEPT ![r] = credits'[r]]
           /\ credits'[r] = [i \in PayIds |-> credits'[r][i]]
<1>1. \A i \in PayIds : i \in req[q].due <=> PaymentRow(r, i) \in locks[q]
  BY DEF Held
<1>2. \A x \in Reservations, i \in PayIds :
         /\ credits'[x][i] = IF x = r /\ i \in req[q].due THEN credits[x][i] + 1 ELSE credits[x][i]
         /\ payment'[x][i] = IF x = r /\ i \in req[q].due THEN "REFUNDED" ELSE payment[x][i]
  BY <1>1, RefundWrites
<1>3. \A i \in PayIds : credits[r][i] = 0
  BY DEF RefundExists, TypeOK, MoneyTypeOK
<1>4. /\ credits' = [credits EXCEPT ![r] = credits'[r]]
      /\ credits'[r] = [i \in PayIds |-> credits'[r][i]]
  <2>1. credits' = [x \in Reservations |-> credits'[x]]
    BY DEF RefundCommitted, TypeOK, MoneyTypeOK
  <2>2. \A x \in Reservations \ {r} : credits'[x] = credits[x]
    BY DEF RefundCommitted, TypeOK, MoneyTypeOK
  <2>3. credits'[r] = [i \in PayIds |-> credits'[r][i]]
    BY DEF RefundCommitted, TypeOK, MoneyTypeOK
  <2>4. QED
    BY <2>1, <2>2, <2>3 DEF TypeOK, MoneyTypeOK
<1>5. MoneyOf["REFUNDED"] = "refunded"
  BY DEF MoneyOf
<1>6. QED
  BY <1>2, <1>3, <1>4, <1>5 DEF Promise!NotYetRefunded

\* A refund of all that is paid.
LEMMA RefundsAll ==
    ASSUME TypeOK, NEW r \in Reservations,
           \A x \in Reservations, i \in PayIds :
              /\ MoneyOf[payment'[x][i]] = IF x = r /\ i \in Promise!PaidIn(r) THEN "refunded"
                                          ELSE MoneyOf[payment[x][i]]
              /\ credits'[x][i] = IF x = r /\ i \in Promise!PaidIn(r) THEN 1 ELSE credits[x][i],
           credits' = [credits EXCEPT ![r] = credits'[r]],
           credits'[r] = [i \in PayIds |-> credits'[r][i]]
    PROVE  Promise!Refund(r, Promise!PaidIn(r))
<1>1. [x \in Reservations |-> [i \in PayIds |-> MoneyOf[payment[x][i]]]]'
         = [[x \in Reservations |-> [i \in PayIds |-> MoneyOf[payment[x][i]]]] EXCEPT ![r] =
              [i \in PayIds |-> IF i \in Promise!PaidIn(r) THEN "refunded"
                 ELSE [x \in Reservations |-> [j \in PayIds |-> MoneyOf[payment[x][j]]]][r][i]]]
  <2> DEFINE M == [x \in Reservations |-> [i \in PayIds |-> MoneyOf[payment[x][i]]]]
             N == [i \in PayIds |-> IF i \in Promise!PaidIn(r) THEN "refunded" ELSE M[r][i]]
  <2>1. \A x \in Reservations : M'[x] = IF x = r THEN N ELSE M[x]
    OBVIOUS
  <2>2. M = [x \in Reservations |-> M[x]] /\ M' = [x \in Reservations |-> M'[x]]
    OBVIOUS
  <2>3. M' = [M EXCEPT ![r] = N]
    <3> HIDE DEF M, N
    <3>1. QED
      BY <2>1, <2>2
  <2>4. QED
    BY <2>3
<1>2. credits' = [credits EXCEPT ![r] =
         [i \in PayIds |-> IF i \in Promise!PaidIn(r) THEN 1 ELSE credits[r][i]]]
  <2>1. credits'[r] = [i \in PayIds |-> IF i \in Promise!PaidIn(r) THEN 1 ELSE credits[r][i]]
    OBVIOUS
  <2>2. QED
    BY <2>1
<1>3. QED
  BY <1>1, <1>2 DEF Promise!Refund

\* A refund of all that is paid, and of a payment that came too late.
LEMMA RefundsLate ==
    ASSUME TypeOK, NEW r \in Reservations, NEW late \in PayIds,
           Promise!NotYetRefunded(r), MoneyOf[payment[r][late]] = "open", UNCHANGED status,
           \A x \in Reservations, i \in PayIds :
              /\ MoneyOf[payment'[x][i]] = IF x = r /\ i \in (Promise!PaidIn(r) \cup {late}) THEN "refunded"
                                          ELSE MoneyOf[payment[x][i]]
              /\ credits'[x][i] = IF x = r /\ i \in (Promise!PaidIn(r) \cup {late}) THEN 1 ELSE credits[x][i],
           credits' = [credits EXCEPT ![r] = credits'[r]],
           credits'[r] = [i \in PayIds |-> credits'[r][i]]
    PROVE  Promise!RefundLate(r, late)
<1>1. [x \in Reservations |-> [i \in PayIds |-> MoneyOf[payment[x][i]]]]'
         = [[x \in Reservations |-> [i \in PayIds |-> MoneyOf[payment[x][i]]]] EXCEPT ![r] =
              [i \in PayIds |-> IF i \in (Promise!PaidIn(r) \cup {late}) THEN "refunded"
                 ELSE [x \in Reservations |-> [j \in PayIds |-> MoneyOf[payment[x][j]]]][r][i]]]
  <2> DEFINE M == [x \in Reservations |-> [i \in PayIds |-> MoneyOf[payment[x][i]]]]
             N == [i \in PayIds |-> IF i \in (Promise!PaidIn(r) \cup {late}) THEN "refunded" ELSE M[r][i]]
  <2>1. \A x \in Reservations : M'[x] = IF x = r THEN N ELSE M[x]
    OBVIOUS
  <2>2. M = [x \in Reservations |-> M[x]] /\ M' = [x \in Reservations |-> M'[x]]
    OBVIOUS
  <2>3. M' = [M EXCEPT ![r] = N]
    <3> HIDE DEF M, N
    <3>1. QED
      BY <2>1, <2>2
  <2>4. QED
    BY <2>3
<1>2. credits' = [credits EXCEPT ![r] =
         [i \in PayIds |-> IF i \in (Promise!PaidIn(r) \cup {late}) THEN 1 ELSE credits[r][i]]]
  <2>1. credits'[r] = [i \in PayIds |-> IF i \in (Promise!PaidIn(r) \cup {late}) THEN 1 ELSE credits[r][i]]
    OBVIOUS
  <2>2. QED
    BY <2>1
<1>3. [x \in Reservations |-> BookingOf(x)]' = [x \in Reservations |-> BookingOf(x)]
  BY DEF BookingOf
<1>4. QED
  BY <1>1, <1>2, <1>3 DEF Promise!RefundLate, Promise!Refund

\* What the promise calls paid is what is PAID.
LEMMA PaidIsPaid ==
    ASSUME TypeOK, NEW r \in Reservations
    PROVE  Promise!PaidIn(r) = PaidOf(r)
<1>1. \A i \in PayIds : MoneyOf[payment[r][i]] = "paid" <=> payment[r][i] = "PAID"
  BY Tables DEF MoneyOf, PaymentStatus
<1>2. QED
  BY <1>1 DEF Promise!PaidIn, PaidOf

\* A cancellation commits with the refund of all that is paid.
LEMMA CancelsWhole ==
    ASSUME TypeOK, RowInv, RefundInv, PurseInv, NEW q \in Requests, CancelCommit(q)
    PROVE  \E r \in Reservations : Promise!Cancel(r)
<1>1. req[q].op \in Cancels /\ req[q].pc = "commit"
  BY DEF CancelCommit, At
<1>2. PICK r \in Reservations : r = req[q].rsv
  BY <1>1, InFlight DEF TypeOK
<1>3. status[r] # "ABSENT"
  BY <1>1, <1>2 DEF RowInv, MovesExisting, Exists, Cancels, Validated
<1>4. \A x \in Reservations : BookingOf(x)' = IF x = r THEN "canceled" ELSE BookingOf(x)
  <2>1. status' = [status EXCEPT ![r] = "CANCELED"]
    <3>1. Target[req[q].op] = "CANCELED"
      BY <1>1 DEF Target, Cancels
    <3>2. QED
      BY <1>2, <3>1 DEF CancelCommit, SetStatus
  <2>2. \A x \in Reservations : status'[x] = IF x = r THEN "CANCELED" ELSE status[x]
    BY <2>1 DEF TypeOK, ReservationTypeOK
  <2>3. QED
    BY <2>2 DEF BookingOf
<1>5. [x \in Reservations |-> BookingOf(x)]'
         = [[x \in Reservations |-> BookingOf(x)] EXCEPT ![r] = "canceled"]
  BY <1>4
<1>6. BookingOf(r) # "none"
  BY <1>3 DEF BookingOf
<1>7. \/ Promise!NotYetRefunded(r) /\ Promise!Refund(r, Promise!PaidIn(r))
      \/ /\ ~Promise!NotYetRefunded(r)
         /\ UNCHANGED <<payment, credits>>
  <2>1. CASE req[q].due # {}
    <3>1. /\ RefundCommitted(q) /\ ~RefundExists(r) /\ Held(q) = req[q].due
          /\ req[q].due = PaidOf(r)
      BY <1>1, <1>2, <2>1 DEF CancelCommit, PurseInv, DueIsAll, Selected, Refunding, OwnPaid,
         Cancels
    <3>2. Promise!PaidIn(r) = req[q].due
      BY <3>1, PaidIsPaid
    <3>3. QED
      <4>1. /\ Promise!NotYetRefunded(r)
            /\ \A x \in Reservations, i \in PayIds :
                 /\ MoneyOf[payment'[x][i]] = IF x = r /\ i \in Promise!PaidIn(r) THEN "refunded"
                                             ELSE MoneyOf[payment[x][i]]
                 /\ credits'[x][i] = IF x = r /\ i \in Promise!PaidIn(r) THEN 1 ELSE credits[x][i]
            /\ credits' = [credits EXCEPT ![r] = credits'[r]]
            /\ credits'[r] = [i \in PayIds |-> credits'[r][i]]
        BY <1>2, <3>1, <3>2, Refunds
      <4>2. QED
        BY <4>1, RefundsAll
  <2>2. CASE req[q].due = {}
    <3>1. UNCHANGED <<payment, credits>>
      BY <2>2 DEF CancelCommit
    <3>2. RefundExists(r) \/ PaidOf(r) = {}
      BY <1>1, <1>2, <2>2 DEF RefundInv, RefundOK
    <3>3. CASE RefundExists(r)
      <4>1. ~Promise!NotYetRefunded(r)
        BY <3>3 DEF RefundExists, Promise!NotYetRefunded
      <4>2. QED
        BY <3>1, <4>1
    <3>4. CASE ~RefundExists(r) /\ PaidOf(r) = {}
      <4>1. Promise!NotYetRefunded(r)
        BY <3>4, Tables DEF RefundExists, Promise!NotYetRefunded
      <4>2. Promise!PaidIn(r) = {}
        BY <3>4, PaidIsPaid
      <4>3. QED
        <5>1. credits[r] = [i \in PayIds |-> credits[r][i]]
          BY DEF TypeOK, MoneyTypeOK
        <5>2. QED
          BY <3>1, <4>1, <4>2, <5>1, RefundsAll DEF TypeOK, MoneyTypeOK
    <3>5. QED
      BY <3>2, <3>3, <3>4
  <2>3. QED
    BY <2>1, <2>2
<1>8. QED
  BY <1>5, <1>6, <1>7 DEF Promise!Cancel

\* A payment is started for a reservation that is there.
LEMMA OpensOne ==
    ASSUME TypeOK, PaysExisting, NEW q \in Requests, InitiateCreate(q)
    PROVE  \E r \in Reservations, i \in PayIds : Promise!Open(r, i)
<1>1. req[q].op = "initiate" /\ req[q].pc = "create"
  BY DEF InitiateCreate, At
<1>2. PICK r \in Reservations : r = req[q].rsv
  BY <1>1, InFlight DEF TypeOK
<1>3. PICK i \in PayIds :
         payment[r][i] = "ABSENT" /\ payment' = [payment EXCEPT ![r][i] = "INITIATED"]
  BY <1>2 DEF InitiateCreate
<1>4. Exists(r) /\ UNCHANGED <<status, credits>>
  BY <1>1, <1>2 DEF InitiateCreate, PaysExisting
<1>5. MoneyOf[payment[r][i]] = "none" /\ MoneyOf["INITIATED"] = "open"
  BY <1>3 DEF MoneyOf
<1>6. Promise!Becomes(r, i, "none", MoneyOf["INITIATED"])
  BY <1>3, <1>4, <1>5, MovesOne
<1>7. QED
  BY <1>5, <1>6 DEF Promise!Open

\* What a provider event moves is open, on a reservation that is there.
LEMMA EventsMoveOpen ==
    ASSUME TypeOK, PaysExisting, NEW q \in Requests, OutcomeAllowed(q),
           req[q].op = "webhook", req[q].pc \in {"applied", "commit"}
    PROVE  /\ req[q].rsv \in Reservations /\ req[q].item \in PayIds
           /\ Exists(req[q].rsv)
           /\ MoneyOf[payment[req[q].rsv][req[q].item]] = "open"
           /\ Outcome[req[q].event] \in {"PAID", "FAILED", "CANCELED"}
<1>1. /\ req[q].rsv \in Reservations /\ req[q].item \in PayIds /\ req[q].event \in PaymentEvents
  BY InFlight DEF TypeOK, WellFormed, Idle
<1>2. Exists(req[q].rsv)
  BY DEF PaysExisting
<1>3. <<payment[req[q].rsv][req[q].item], Outcome[req[q].event]>> \in PaymentTransitions
  BY DEF OutcomeAllowed, PaymentMayMove, Selected
<1>4. Outcome[req[q].event] \in {"PAID", "FAILED", "CANCELED"}
  BY <1>1 DEF Outcome, PaymentEvents
<1>5. payment[req[q].rsv][req[q].item] \in {"INITIATED", "PENDING"}
  BY <1>3, <1>4 DEF PaymentTransitions
<1>6. MoneyOf[payment[req[q].rsv][req[q].item]] = "open"
  BY <1>5 DEF MoneyOf
<1>7. QED
  BY <1>1, <1>2, <1>4, <1>6

\* A payment that becomes paid settles while the reservation is held, and
\* stays paid when it has been canceled.
LEMMA BecomesPaid ==
    ASSUME TypeOK, NEW r \in Reservations, NEW i \in PayIds,
           Promise!Becomes(r, i, "open", "paid")
    PROVE  Promise!Settle(r, i) \/ Promise!StaysPaid(r, i)
<1>1. BookingOf(r) \in {"held", "canceled"}
  BY DEF Promise!Becomes, BookingOf
<1>2. QED
  BY <1>1 DEF Promise!Settle, Promise!StaysPaid

\* An event that is applied settles its payment or keeps it, or drops it.
LEMMA AppliesOutcome ==
    ASSUME TypeOK, PaysExisting, NEW q \in Requests, OutcomeAllowed(q), ApplyCommit(q)
    PROVE  \E r \in Reservations, i \in PayIds :
              Promise!Settle(r, i) \/ Promise!StaysPaid(r, i) \/ Promise!Drop(r, i)
<1>1. req[q].op = "webhook" /\ req[q].pc = "applied"
  BY DEF ApplyCommit, At
<1>2. PICK r \in Reservations : r = req[q].rsv
  BY <1>1, EventsMoveOpen
<1>3. PICK i \in PayIds : i = req[q].item
  BY <1>1, EventsMoveOpen
<1>4. PICK to \in {"PAID", "FAILED", "CANCELED"} : to = Outcome[req[q].event]
  BY <1>1, EventsMoveOpen
<1>5. Exists(r) /\ MoneyOf[payment[r][i]] = "open"
  BY <1>1, <1>2, <1>3, EventsMoveOpen
<1>6. payment' = [payment EXCEPT ![r][i] = to] /\ UNCHANGED <<status, credits>>
  BY <1>2, <1>3, <1>4 DEF ApplyCommit, WebhookUnchanged
<1>7. Promise!Becomes(r, i, "open", MoneyOf[to])
  BY <1>5, <1>6, MovesOne
<1>8. CASE to = "PAID"
  <2>1. MoneyOf[to] = "paid"
    BY <1>8 DEF MoneyOf
  <2>2. QED
    BY <1>7, <2>1, BecomesPaid
<1>9. CASE to \in {"FAILED", "CANCELED"}
  <2>1. MoneyOf[to] = "dead"
    BY <1>9 DEF MoneyOf
  <2>2. QED
    BY <1>7, <2>1 DEF Promise!Drop
<1>10. QED
  BY <1>8, <1>9

\* A payment that came too late is taken and refunded in one step, or it is
\* taken and stays paid.
LEMMA TakesLate ==
    ASSUME TypeOK, PaysExisting, NEW q \in Requests, OutcomeAllowed(q), DueIsAll(q),
           RefundedPaymentCommit(q)
    PROVE  \E r \in Reservations, i \in PayIds :
              Promise!Settle(r, i) \/ Promise!StaysPaid(r, i) \/ Promise!RefundLate(r, i)
<1>1. req[q].op = "webhook" /\ req[q].pc = "commit"
  BY DEF RefundedPaymentCommit, At
<1>2. PICK r \in Reservations : r = req[q].rsv
  BY <1>1, EventsMoveOpen
<1>3. PICK i \in PayIds : i = req[q].item
  BY <1>1, EventsMoveOpen
<1>4. Exists(r) /\ MoneyOf[payment[r][i]] = "open"
  BY <1>1, <1>2, <1>3, EventsMoveOpen
<1>5. UNCHANGED status
  BY DEF RefundedPaymentCommit, WebhookUnchanged
<1>6. CASE req[q].due = {}
  <2>1. payment' = [payment EXCEPT ![r][i] = "PAID"] /\ UNCHANGED credits
    BY <1>2, <1>3, <1>6 DEF RefundedPaymentCommit
  <2>2. Promise!Becomes(r, i, "open", MoneyOf["PAID"])
    BY <1>4, <1>5, <2>1, MovesOne
  <2>3. MoneyOf["PAID"] = "paid"
    BY DEF MoneyOf
  <2>4. QED
    BY <2>2, <2>3, BecomesPaid
<1>7. CASE req[q].due # {}
  <2>1. /\ RefundCommitted(q) /\ ~RefundExists(r) /\ Held(q) = req[q].due
        /\ req[q].due = PaidOf(r) \cup {i}
    BY <1>1, <1>2, <1>3, <1>7 DEF RefundedPaymentCommit, DueIsAll, Selected, Refunding, OwnPaid
  <2>2. \A j \in PayIds : j \in req[q].due <=> j \in (Promise!PaidIn(r) \cup {i})
    BY <2>1, PaidIsPaid
  <2>3. /\ Promise!NotYetRefunded(r)
        /\ \A x \in Reservations, j \in PayIds :
              /\ MoneyOf[payment'[x][j]] = IF x = r /\ j \in req[q].due
                                          THEN "refunded" ELSE MoneyOf[payment[x][j]]
              /\ credits'[x][j] = IF x = r /\ j \in req[q].due THEN 1 ELSE credits[x][j]
        /\ credits' = [credits EXCEPT ![r] = credits'[r]]
        /\ credits'[r] = [j \in PayIds |-> credits'[r][j]]
    BY <1>2, <2>1, Refunds
  <2>4. \A x \in Reservations, j \in PayIds :
           /\ MoneyOf[payment'[x][j]] = IF x = r /\ j \in (Promise!PaidIn(r) \cup {i})
                                       THEN "refunded" ELSE MoneyOf[payment[x][j]]
           /\ credits'[x][j] = IF x = r /\ j \in (Promise!PaidIn(r) \cup {i}) THEN 1
                               ELSE credits[x][j]
    BY <2>2, <2>3
  <2>5. Promise!RefundLate(r, i)
    BY <1>4, <1>5, <2>3, <2>4, RefundsLate
  <2>6. QED
    BY <2>5
<1>8. QED
  BY <1>6, <1>7

\* The other moves of a status are of one that is held and stays held.
LEMMA StaysHeld ==
    ASSUME TypeOK, RowInv, LifeInv, NEW q \in Requests, StampsEnd(q), ~CancelCommit(q),
           NEW r \in Reservations
    PROVE  BookingOf(r)' = BookingOf(r)
<1>1. req[q].op \in {"confirm", "noShow", "start", "complete"} /\ BeforeMove(q)
      /\ Target[req[q].op] \notin {"ABSENT", "CANCELED"}
      /\ status' = [status EXCEPT ![req[q].rsv] = Target[req[q].op]]
  BY DEF StampsEnd, ConfirmWrite, NoShowWrite, StartCommit, CompleteCommit, At, SetStatus,
     BeforeMove, Validated, Target
<1>2. req[q].rsv \in Reservations /\ req[q].op \in Validated /\ req[q].pc # "idle"
  BY <1>1, InFlight DEF TypeOK, Validated, BeforeMove
<1>3. MayMove(status[req[q].rsv], Target[req[q].op]) /\ Exists(req[q].rsv)
  BY <1>1, <1>2 DEF LifeInv, MoveStaysAllowed, RowInv, MovesExisting
<1>4. status[req[q].rsv] \notin {"ABSENT", "CANCELED"}
  BY <1>1, <1>3 DEF MayMove, ReservationTransitions, Exists
<1>5. status'[r] = status[r] \/ (/\ status[r] \notin {"ABSENT", "CANCELED"}
                                 /\ status'[r] \notin {"ABSENT", "CANCELED"})
  BY <1>1, <1>2, <1>4 DEF TypeOK, ReservationTypeOK
<1>6. QED
  BY <1>5 DEF BookingOf

\* Every step is one of the promise, or changes nothing it speaks of.
LEMMA StepKeepsPromise ==
    ASSUME TypeOK, RowInv, PaysExisting, RefundInv, LifeInv, PurseInv,
           NEW q \in Requests, Step(q)
    PROVE  Promise!Practised \/ UNCHANGED Promise!vars
<1>1. CASE MovesMoney(q)
  <2>1. OutcomeAllowed(q) /\ DueIsAll(q)
    BY DEF PurseInv
  <2>2. \/ \E r \in Reservations : Promise!Cancel(r)
        \/ \E r \in Reservations, i \in PayIds :
              \/ Promise!Open(r, i) \/ Promise!Settle(r, i) \/ Promise!StaysPaid(r, i)
              \/ Promise!Drop(r, i) \/ Promise!RefundLate(r, i)
    BY <1>1, <2>1, CancelsWhole, OpensOne, AppliesOutcome, TakesLate DEF MovesMoney
  <2>3. QED
    BY <2>2 DEF Promise!Practised, Promise!Next
<1>2. CASE ~MovesMoney(q)
  <2>1. UNCHANGED <<payment, credits>>
    BY <1>2, OnlyFourMoveMoney
  <2>2. CASE StampsEnd(q)
    BY <1>2, <2>1, <2>2, StaysHeld, Stutters DEF MovesMoney
  <2>3. CASE Arrives(q) \/ PublicInsert(q)
    <3>1. \/ UNCHANGED status
          \/ \E r \in Reservations, st \in {"CONFIRMED", "PENDING"} :
                status[r] = "ABSENT" /\ status' = [status EXCEPT ![r] = st]
      <4>1. CASE Arrives(q)
        BY <4>1, ArrivalKnows DEF Unclaimed
      <4>2. CASE PublicInsert(q)
        <5>1. req[q].rsv \in Reservations /\ status[req[q].rsv] = "ABSENT"
          BY <4>2, InFlight DEF PublicInsert, At, RowInv, InsertsAbsent, Exists, TypeOK
        <5>2. QED
          BY <4>2, <5>1 DEF PublicInsert, InsertReservation
      <4>3. QED
        BY <2>3, <4>1, <4>2
    <3>2. CASE UNCHANGED status
      BY <2>1, <3>2, Stutters DEF BookingOf
    <3>3. ASSUME NEW r \in Reservations, NEW st \in {"CONFIRMED", "PENDING"},
                 status[r] = "ABSENT", status' = [status EXCEPT ![r] = st]
          PROVE  Promise!Practised
      BY <2>1, <3>3, Books DEF Promise!Practised, Promise!Next
    <3>4. QED
      BY <3>1, <3>2, <3>3
  <2>4. CASE ~StampsEnd(q) /\ ~Arrives(q) /\ ~PublicInsert(q)
    BY <2>1, <2>4, OnlyTheseMoveStatus, Stutters DEF BookingOf
  <2>5. QED
    BY <2>2, <2>3, <2>4
<1>3. QED
  BY <1>1, <1>2

\* Taken one at a time, the handlers implement the promise: whatever fails,
\* crashes, expires or arrives again, no state shows a cancellation without
\* its refund, a refund without its cause, or half of one.
THEOREM PromiseIsKept == ASSUME OneRequest PROVE Spec => KeepsItsPromise
<1>1. Init => Promise!Init
  BY DEF Init, Promise!Init, BookingOf, MoneyOf
<1>2. TypeOK /\ RowInv /\ ScopeInv /\ RefundInv /\ LifeInv /\ PurseInv /\ [Next]_vars
         => [Promise!Practised]_(Promise!vars)
  <2>1. ASSUME TypeOK, RowInv, ScopeInv, RefundInv, LifeInv, PurseInv, NEW q \in Requests, Step(q)
        PROVE  Promise!Practised \/ UNCHANGED Promise!vars
    BY <2>1, StepKeepsPromise DEF ScopeInv
  <2>2. ASSUME UNCHANGED vars \/ \E r \in Reservations, i \in PayIds, e \in PaymentEvents :
                                    KeyExpires(r, i, e)
        PROVE  UNCHANGED Promise!vars
    <3>1. UNCHANGED <<status, payment, credits>>
      BY <2>2 DEF KeyExpires, DataUnchanged, vars, reservationVars, moneyVars
    <3>2. QED
      BY <3>1, Stutters DEF BookingOf
  <2>3. QED
    BY <2>1, <2>2 DEF Next, Step
<1>3. QED
  BY <1>1, <1>2, TypeCorrect, RowsProtected, ScopesEnd, RefundsHold, LivesWell, PurseRight, PTL
     DEF Spec, KeepsItsPromise, Promise!Spec
====
