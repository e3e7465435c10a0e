---- MODULE Booking ----
(***************************************************************************)
(* The booking core of PxTime: reservations, wallet refunds, payments and  *)
(* provider events, gaming sessions and commissions over one database,     *)
(* with any number of requests in flight, transactions that fail or time   *)
(* out, and instances that crash.                                          *)
(***************************************************************************)
EXTENDS ReservationOps, PaymentOps, SessionOps, CommissionOps

Init ==
    /\ status = [r \in Reservations |-> "ABSENT"]
    /\ source = [r \in Reservations |-> "WALK_IN"]
    /\ slot = [r \in Reservations |-> None]
    /\ stamps = [r \in Reservations |-> {}]
    /\ payState = [r \in Reservations |-> "UNPAID"]
    /\ payment = [r \in Reservations |-> [i \in PayIds |-> "ABSENT"]]
    /\ checkout = [r \in Reservations |-> {}]
    /\ credits = [r \in Reservations |-> [i \in PayIds |-> 0]]
    /\ session = [r \in Reservations |-> [s \in SessionIds |-> "ABSENT"]]
    /\ earning = [r \in Reservations |-> None]
    /\ calc = [q \in Requests |-> NoCalc]
    /\ key = [r \in Reservations |-> [i \in PayIds |-> [e \in PaymentEvents |-> None]]]
    /\ audit = [r \in Reservations |-> None]
    /\ outbox = [r \in Reservations |-> None]
    /\ req = [q \in Requests |-> Idle]
    /\ locks = [q \in Requests |-> {}]
    /\ snapshot = {}
----------------------------------------------------------------------------
(* Failures.                                                               *)

DataUnchanged ==
    UNCHANGED <<reservationVars, moneyVars, session, earning, effectVars>>

\* Statements that may still fail: an error, a deadlock victim, or the five
\* seconds after which Prisma closes an interactive transaction.  Of a provider
\* event, Redis may refuse the commands about its key as well, before the
\* transaction and after it.
MayFail(q) ==
    \/ req[q].pc \in {"insert", "write", "session", "refund", "credit",
                      "refundState", "sweep", "commit", "create", "createKey",
                      "read", "payThenApply", "payThenRefund", "apply",
                      "applied", "sessionWrite"}
    \/ At(q, {"start", "update"}, "audit")
    \/ At(q, {"webhook"}, "ack") \/ At(q, {"webhook"}, "fail")

\* Mutant: a failed event is tried again, without end.
Abort_Retries(q) ==
    /\ "abort" \in Enabled /\ MayFail(q)
    /\ \/ req[q].op = "webhook" /\ req[q].pc \notin {"createKey", "fail"} /\ Goto(q, "read")
       \/ req[q].op # "webhook" /\ Finish(q)
       \/ req[q].pc \in {"createKey", "fail"} /\ Finish(q)
    /\ Rollback(q)
    /\ DataUnchanged /\ UNCHANGED <<calc, key>>

\* Mutant: a failed event leaves its key as it is.
Abort_KeepsKey(q) ==
    /\ "abort" \in Enabled /\ MayFail(q)
    /\ Finish(q) /\ Rollback(q)
    /\ DataUnchanged /\ UNCHANGED <<calc, key>>

\* A provider event whose transaction or COMPLETED mark fails goes on to mark
\* its key FAILED; when that fails too, the key stays as it is.
Abort(q) ==
    /\ "abort" \in Enabled /\ MayFail(q)
    /\ \/ req[q].op = "webhook" /\ req[q].pc \notin {"createKey", "fail"} /\ Goto(q, "fail")
       \/ req[q].op # "webhook" /\ Finish(q)
       \/ req[q].pc \in {"createKey", "fail"} /\ Finish(q)
    /\ Rollback(q)
    /\ DataUnchanged /\ UNCHANGED <<calc, key>>

\* The instance serving q dies: PostgreSQL rolls its transaction back, and
\* what it had still to do after a commit is never done.
Crash(q) ==
    /\ "crash" \in Enabled /\ (req[q] # Idle \/ calc[q] # NoCalc)
    /\ Reject(q)
    /\ calc' = [calc EXCEPT ![q] = NoCalc]
    /\ DataUnchanged /\ UNCHANGED key

\* calculateCommission throws; its callers only log that.
CalculateFails(q) ==
    /\ "abort" \in Enabled /\ calc[q] # NoCalc
    /\ calc' = [calc EXCEPT ![q] = NoCalc]
    /\ DataUnchanged /\ UNCHANGED <<key, requestVars>>

\* Mutant: a key has a time to live only once it is COMPLETED or FAILED.
KeyExpires_OnlySettled(r, i, e) ==
    /\ "expire" \in Enabled /\ key[r][i][e] \notin {None, "IN_PROGRESS"}
    /\ key' = [key EXCEPT ![r][i][e] = None]
    /\ DataUnchanged /\ UNCHANGED <<calc, requestVars>>

\* Redis drops the key 24 hours after it was created, whatever its status.
KeyExpires(r, i, e) ==
    /\ "expire" \in Enabled /\ key[r][i][e] # None
    /\ key' = [key EXCEPT ![r][i][e] = None]
    /\ DataUnchanged /\ UNCHANGED <<calc, requestVars>>
----------------------------------------------------------------------------
Arrives(q) ==
    \E r \in Reservations :
        \/ \E k \in Slots :
              CreateReservation(q, r, k) \/ PublicCheck(q, r, k) \/ UpdateRead(q, r, k)
        \/ ConfirmRead(q, r) \/ CancelRead(q, r) \/ CustomerCancelRead(q, r)
        \/ StartRead(q, r) \/ CompleteRead(q, r) \/ NoShowRead(q, r)
        \/ InitiateRead(q, r)
        \/ \E i \in PayIds, e \in Reported : FindKey(q, r, i, e)
        \/ SessionStartRead(q, r) \/ PauseSessionRead(q, r)
        \/ ResumeSessionRead(q, r) \/ StopSessionRead(q, r)

Proceeds(q) ==
    \/ PublicInsert(q)
    \/ UpdateWrite(q) \/ UpdateConflict(q) \/ UpdateCommit(q)
    \/ ConfirmWrite(q) \/ NoShowWrite(q)
    \/ CancelWrite(q) \/ CancelCommit(q)
    \/ StartWrite(q) \/ StartSession(q) \/ StartCommit(q)
    \/ CompleteWrite(q) \/ EndSession(q) \/ CompleteCommit(q)
    \/ RecordAudit(q) \/ Emit(q) \/ CallCommission(q)
    \/ RefundSelect(q) \/ RefundCredit(q) \/ RefundState(q) \/ RefundSweep(q)
    \/ InitiateCreate(q) \/ InitiateGateway(q)
    \/ CreateKey(q) \/ ReadPayment(q) \/ PayThenApply(q) \/ PayThenRefund(q)
    \/ ApplyToReservation(q) \/ ApplyCommit(q) \/ RefundedPaymentCommit(q)
    \/ MarkCompleted(q) \/ MarkFailed(q)
    \/ SessionStartWrite(q) \/ SessionWrite(q)

Calculates(q) == CalculateRead(q) \/ CreateEarning(q)

Next ==
    \/ \E q \in Requests :
          Arrives(q) \/ Proceeds(q) \/ Calculates(q)
              \/ Abort(q) \/ Crash(q) \/ CalculateFails(q)
    \/ \E r \in Reservations, i \in PayIds, e \in PaymentEvents : KeyExpires(r, i, e)

Spec == Init /\ [][Next]_vars

\* PostgreSQL serves a row's lock queue in order, so a statement that can
\* run again and again does run; a transaction that cannot get on is ended
\* by the deadlock detector or the transaction timeout.  Redis drops a key
\* when its time is over.
Progress ==
    /\ \A q \in Requests :
          SF_vars(Proceeds(q)) /\ WF_vars(Calculates(q)) /\ WF_vars(Abort(q))
    /\ \A r \in Reservations, i \in PayIds, e \in PaymentEvents :
          WF_vars(KeyExpires(r, i, e))

FairSpec == Spec /\ Progress
----------------------------------------------------------------------------
(* Types.                                                                  *)

ReservationTypeOK ==
    /\ status \in [Reservations -> ReservationStatus \cup {"ABSENT"}]
    /\ source \in [Reservations -> Sources]
    /\ slot \in [Reservations -> Slots \cup {None}]
    /\ stamps \in [Reservations -> SUBSET Stamps]
    /\ payState \in [Reservations -> ReservationPaymentState]

MoneyTypeOK ==
    /\ payment \in [Reservations -> [PayIds -> PaymentStatus \cup {"ABSENT"}]]
    /\ checkout \in [Reservations -> SUBSET PayIds]
    /\ credits \in [Reservations -> [PayIds -> Nat]]

SessionTypeOK ==
    session \in [Reservations -> [SessionIds -> GamingSessionStatus \cup {"ABSENT"}]]

CommissionTypeOK ==
    /\ earning \in [Reservations -> EarningStatus \cup {None}]
    /\ calc \in [Requests -> CalcRecord]

KeyTypeOK ==
    key \in [Reservations -> [PayIds -> [PaymentEvents -> KeyStatus \cup {None}]]]

EffectTypeOK ==
    /\ audit \in [Reservations -> AuditActions \cup {None}]
    /\ outbox \in [Reservations -> Announcements \cup {None}]

\* A request at a step runs an operation that has this step, on a reservation
\* it has found or is about to insert, holding the values that step uses.
RequestTypeOK ==
    /\ req \in [Requests -> RequestRecord]
    /\ \A q \in Requests : WellFormed(req[q])
    /\ locks \in [Requests -> SUBSET Rows]
    /\ snapshot \subseteq Requests

\* Type correctness of every table, key and request.
TypeOK ==
    /\ ReservationTypeOK
    /\ MoneyTypeOK
    /\ SessionTypeOK
    /\ CommissionTypeOK
    /\ KeyTypeOK
    /\ EffectTypeOK
    /\ RequestTypeOK
====
