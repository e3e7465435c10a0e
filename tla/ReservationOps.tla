---- MODULE ReservationOps ----
(***************************************************************************)
(* The handlers of the reservation module and the customer panel's cancel. *)
(* Each stops where the code awaits: the read its decision rests on, the   *)
(* UPDATE that takes the row lock, the statements inside the transaction,  *)
(* the commit, and what follows it outside (audit row, event, commission). *)
(***************************************************************************)
EXTENDS WalletRefund

\* The status each handler moves a reservation to.
Target ==
    [confirm |-> "CONFIRMED", cancel |-> "CANCELED", customerCancel |-> "CANCELED",
     start |-> "IN_PROGRESS", complete |-> "COMPLETED", noShow |-> "NO_SHOW"]

EventOf ==
    [createPanel |-> "CREATED", createPublic |-> "CREATED", update |-> "UPDATED",
     confirm |-> "CONFIRMED", cancel |-> "CANCELED", complete |-> "COMPLETED",
     noShow |-> "NO_SHOW"]

AuditOf ==
    [update |-> "UPDATE", cancel |-> "CANCEL", start |-> "START",
     complete |-> "COMPLETE", noShow |-> "NOSHOW"]

\* Mutant: the status is read but not validated.
ReadAndValidate_Unchecked(q, o, r) ==
    /\ Exists(r)
    /\ Begins(q, [Call(o, "write", r) EXCEPT !.seen = status[r]])
    /\ UNCHANGED <<reservationVars, moneyVars, session, commissionVars, key,
                   effectVars, locks, snapshot>>

\* The read that the decision rests on: nothing keeps it true afterwards.
ReadAndValidate(q, o, r) ==
    /\ Exists(r) /\ MayMove(status[r], Target[o])
    /\ Begins(q, [Call(o, "write", r) EXCEPT !.seen = status[r]])
    /\ UNCHANGED <<reservationVars, moneyVars, session, commissionVars, key,
                   effectVars, locks, snapshot>>

\* The first UPDATE of a transaction takes the reservation's row lock.
LockReservation(q, ops, next) ==
    /\ At(q, ops, "write")
    /\ Lock(q, {ReservationRow(req[q].rsv)})
    /\ Goto(q, next)
    /\ UNCHANGED <<reservationVars, moneyVars, session, commissionVars, key,
                   effectVars, snapshot>>

InsertReservation(r, k, st, src) ==
    /\ status' = [status EXCEPT ![r] = st]
    /\ source' = [source EXCEPT ![r] = src]
    /\ slot' = [slot EXCEPT ![r] = k]
    /\ UNCHANGED <<stamps, payState>>
----------------------------------------------------------------------------
(* Creation.                                                               *)

\* The panel checks neither the staff member's other reservations nor shift.
CreateReservation(q, r, k) ==
    /\ Unclaimed(r)
    /\ Begins(q, Call("createPanel", "emit", r))
    /\ InsertReservation(r, k, "CONFIRMED", "WALK_IN")
    /\ UNCHANGED <<moneyVars, session, commissionVars, key, effectVars,
                   locks, snapshot>>

\* The overlap check of the public route, on its transaction's snapshot.
PublicCheck(q, r, k) ==
    /\ Unclaimed(r)
    /\ Overlapping(k, Reservations) = {}
    /\ Begins(q, [Call("createPublic", "insert", r) EXCEPT !.slot = k])
    /\ UNCHANGED <<reservationVars, moneyVars, session, commissionVars, key,
                   effectVars, locks, snapshot>>

\* Two snapshots that miss each other's row both insert: no constraint of
\* the Reservation table objects.  The status is the auto-confirm setting's.
PublicInsert(q) ==
    /\ At(q, {"createPublic"}, "insert")
    /\ \E st \in {"CONFIRMED", "PENDING"} :
          InsertReservation(req[q].rsv, req[q].slot, st, "ONLINE")
    /\ Goto(q, "emit")
    /\ UNCHANGED <<moneyVars, session, commissionVars, key, effectVars,
                   locks, snapshot>>
----------------------------------------------------------------------------
(* Update, in a REPEATABLE READ transaction.  k = slot[r] is an edit that  *)
(* changes no time, for which the overlap check is skipped.                *)

UpdateRead(q, r, k) ==
    /\ Exists(r) /\ status[r] \notin TerminalStates
    /\ (k # slot[r] /\ PreventOverlaps) => Overlapping(k, Reservations \ {r}) = {}
    /\ Begins(q, [Call("update", "write", r) EXCEPT !.slot = k])
    /\ snapshot' = snapshot \cup {q}
    /\ UNCHANGED <<reservationVars, moneyVars, session, commissionVars, key,
                   effectVars, locks>>

\* Mutant: the transaction runs READ COMMITTED.
UpdateWrite_ReadCommitted(q) == LockReservation(q, {"update"}, "audit")

UpdateWrite(q) == q \in snapshot /\ LockReservation(q, {"update"}, "audit")

\* "could not serialize access due to concurrent update"
UpdateConflict(q) ==
    /\ At(q, {"update"}, "write")
    /\ q \notin snapshot /\ CanLock(q, {ReservationRow(req[q].rsv)})
    /\ Reject(q)
    /\ UNCHANGED <<reservationVars, moneyVars, session, commissionVars, key,
                   effectVars>>

UpdateCommit(q) ==
    /\ At(q, {"update"}, "commit")
    /\ slot' = [slot EXCEPT ![req[q].rsv] = req[q].slot]
    /\ Overwritten(req[q].rsv) /\ Release(q)
    /\ Goto(q, "emit")
    /\ UNCHANGED <<status, source, stamps, payState, moneyVars, session,
                   commissionVars, key, effectVars>>
----------------------------------------------------------------------------
(* Confirm and no-show: a read, then one UPDATE that commits by itself.    *)

SetStatus(q, stamped) ==
    LET r == req[q].rsv IN
    /\ status' = [status EXCEPT ![r] = Target[req[q].op]]
    /\ stamps' = [stamps EXCEPT ![r] = @ \cup stamped]
    /\ UNCHANGED <<source, slot>>
    /\ Overwritten(r)

ConfirmRead(q, r) == ReadAndValidate(q, "confirm", r)

ConfirmWrite(q) ==
    /\ At(q, {"confirm"}, "write")
    /\ CanLock(q, {ReservationRow(req[q].rsv)})
    /\ SetStatus(q, {}) /\ Goto(q, "emit")
    /\ UNCHANGED <<payState, moneyVars, session, commissionVars, key,
                   effectVars, locks>>

NoShowRead(q, r) == ReadAndValidate(q, "noShow", r)

NoShowWrite(q) ==
    /\ At(q, {"noShow"}, "write")
    /\ CanLock(q, {ReservationRow(req[q].rsv)})
    /\ SetStatus(q, {"noShowAt"}) /\ Goto(q, "audit")
    /\ UNCHANGED <<payState, moneyVars, session, commissionVars, key,
                   effectVars, locks>>
----------------------------------------------------------------------------
(* Cancel, from the panel or by the customer.                              *)

CancelRead(q, r) == ReadAndValidate(q, "cancel", r)
CustomerCancelRead(q, r) == ReadAndValidate(q, "customerCancel", r)

\* Mutant: the reservation is updated only after the refund.
CancelWrite_AfterRefund(q) ==
    /\ At(q, Cancels, "write") /\ Goto(q, "refund")
    /\ UNCHANGED <<reservationVars, moneyVars, session, commissionVars, key,
                   effectVars, locks, snapshot>>

\* Mutant: the event is emitted before the transaction.
CancelWrite_EmitsFirst(q) == LockReservation(q, Cancels, "emit")

CancelWrite(q) == LockReservation(q, Cancels, "refund")

\* Mutant: the customer's cancellation is announced like the panel's.
CancelCommit_AnnouncesBoth(q) ==
    /\ At(q, Cancels, "commit")
    /\ SetStatus(q, {"canceledAt"}) /\ Release(q)
    /\ \/ req[q].due = {} /\ UNCHANGED <<payState, payment, credits>>
       \/ req[q].due # {} /\ RefundCommitted(q)
    /\ Goto(q, "emit")
    /\ UNCHANGED <<checkout, session, commissionVars, key, effectVars>>

CancelCommit(q) ==
    /\ At(q, Cancels, "commit")
    /\ SetStatus(q, {"canceledAt"}) /\ Release(q)
    /\ \/ req[q].due = {} /\ UNCHANGED <<payState, payment, credits>>
       \/ req[q].due # {} /\ RefundCommitted(q)
    /\ Goto(q, IF req[q].op = "cancel" THEN "emit" ELSE "audit")
    /\ UNCHANGED <<checkout, session, commissionVars, key, effectVars>>
----------------------------------------------------------------------------
(* Start: status and gaming session change in one transaction, but the     *)
(* status was validated before the row was locked.                         *)

StartRead(q, r) == RoomForSession(r) /\ ReadAndValidate(q, "start", r)
StartWrite(q) == LockReservation(q, {"start"}, "session")

\* Mutant: does not look for another active session.
StartSession_Unchecked(q) ==
    /\ At(q, {"start"}, "session")
    /\ Goto(q, "audit")
    /\ UNCHANGED <<reservationVars, moneyVars, session, commissionVars, key,
                   effectVars, locks, snapshot>>

StartSession(q) ==
    /\ At(q, {"start"}, "session")
    /\ \/ SessionsIn(req[q].rsv, {"ACTIVE"}) # {} /\ Reject(q)
       \/ /\ SessionsIn(req[q].rsv, {"ACTIVE"}) = {}
          /\ Goto(q, "audit") /\ UNCHANGED <<locks, snapshot>>
    /\ UNCHANGED <<reservationVars, moneyVars, session, commissionVars, key,
                   effectVars>>

StartCommit(q) ==
    /\ At(q, {"start"}, "commit")
    /\ SetStatus(q, {}) /\ Release(q)
    /\ \E s \in SessionsIn(req[q].rsv, {"ABSENT"}) :
          session' = [session EXCEPT ![req[q].rsv][s] = "ACTIVE"]
    /\ Finish(q)
    /\ UNCHANGED <<payState, moneyVars, commissionVars, key, effectVars>>
----------------------------------------------------------------------------
(* Complete: the gaming session is ended only when the status read before  *)
(* the transaction was IN_PROGRESS.                                        *)

CompleteRead(q, r) == ReadAndValidate(q, "complete", r)

CompleteWrite(q) ==
    \/ /\ req[q].seen = "IN_PROGRESS"
       /\ LockReservation(q, {"complete"}, "session")
    \/ /\ req[q].seen # "IN_PROGRESS"
       /\ LockReservation(q, {"complete"}, "commit")

EndSession(q) ==
    LET found == SessionsIn(req[q].rsv, {"ACTIVE", "PAUSED"}) IN
    /\ At(q, {"complete"}, "session")
    /\ \/ found = {} /\ Reject(q)
       \/ /\ \E s \in found :
                req' = [req EXCEPT ![q].pc = "commit", ![q].item = s]
          /\ UNCHANGED <<locks, snapshot>>
    /\ UNCHANGED <<reservationVars, moneyVars, session, commissionVars, key,
                   effectVars>>

CompleteCommit(q) ==
    LET r == req[q].rsv IN
    /\ At(q, {"complete"}, "commit")
    /\ SetStatus(q, {"completedAt"}) /\ Release(q)
    /\ session' = IF req[q].item = None THEN session
                  ELSE [session EXCEPT ![r][req[q].item] = "COMPLETED"]
    /\ Goto(q, "audit")
    /\ UNCHANGED <<payState, moneyVars, commissionVars, key, effectVars>>
----------------------------------------------------------------------------
(* What follows a write: the audit row (on a connection of its own, so     *)
(* inside start and update it does not roll back with the transaction),    *)
(* the event, the commission.                                              *)

AfterAudit ==
    [update |-> "commit", start |-> "commit", complete |-> "emit", noShow |-> "emit"]

\* A failed audit insert is swallowed.  A customer's always fails: the
\* account id it passes as userId is not the id of a User.
RecordAudit(q) ==
    LET o == req[q].op
        r == req[q].rsv
    IN  /\ req[q].pc = "audit"
        /\ \/ UNCHANGED audit
           \/ /\ o # "customerCancel"
              /\ audit' = [audit EXCEPT ![r] = AuditOf[o]]
        /\ \/ o \in Cancels /\ Finish(q)
           \/ o \notin Cancels /\ Goto(q, AfterAudit[o])
        /\ UNCHANGED <<reservationVars, moneyVars, session, commissionVars,
                       key, outbox, locks, snapshot>>

\* Mutant: every event is followed by an audit row.
Emit_ThenAudit(q) ==
    LET o == req[q].op IN
    /\ req[q].pc = "emit"
    /\ outbox' = [outbox EXCEPT ![req[q].rsv] = EventOf[o]]
    /\ Goto(q, IF o = "complete" THEN "commission" ELSE "audit")
    /\ UNCHANGED <<reservationVars, moneyVars, session, commissionVars, key,
                   audit, locks, snapshot>>

Emit(q) ==
    LET o == req[q].op IN
    /\ req[q].pc = "emit"
    /\ outbox' = [outbox EXCEPT ![req[q].rsv] = EventOf[o]]
    /\ \/ o = "cancel" /\ Goto(q, "audit")
       \/ o = "complete" /\ Goto(q, "commission")
       \/ o \notin {"cancel", "complete"} /\ Finish(q)
    /\ UNCHANGED <<reservationVars, moneyVars, session, commissionVars, key,
                   audit, locks, snapshot>>

\* complete awaits the calculation but does not look at its outcome.
CallCommission(q) ==
    /\ At(q, {"complete"}, "commission")
    /\ calc' = [calc EXCEPT ![q] = [phase |-> "called", rsv |-> req[q].rsv]]
    /\ Finish(q)
    /\ UNCHANGED <<reservationVars, moneyVars, session, earning, key,
                   effectVars, locks, snapshot>>
====
