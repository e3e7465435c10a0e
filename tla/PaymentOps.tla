---- MODULE PaymentOps ----
(***************************************************************************)
(* Payments: starting one at the provider, and the provider's events about *)
(* it.  An event is known by its Redis key (here: the payment and the kind *)
(* of event); it may be delivered any number of times, in any order, once  *)
(* the provider accepted the payment.                                      *)
(***************************************************************************)
EXTENDS WalletRefund

\* The payment status and reservation payment state each event asks for.
Outcome == [SUCCEEDED |-> "PAID", FAILED |-> "FAILED", EXPIRED |-> "CANCELED"]
----------------------------------------------------------------------------
(* Initiation: despite its name findReservationForUpdate takes no lock.    *)

InitiateRead(q, r) ==
    /\ Exists(r) /\ RoomForPayment(r)
    /\ payState[r] # "PAID"
    /\ Begins(q, Call("initiate", "create", r))
    /\ UNCHANGED <<reservationVars, moneyVars, session, commissionVars, key,
                   effectVars, locks, snapshot>>

\* One transaction of two statements: insert the payment, then overwrite
\* the reservation's payment state whatever it has become.
InitiateCreate(q) ==
    LET r == req[q].rsv IN
    /\ At(q, {"initiate"}, "create")
    /\ CanLock(q, {ReservationRow(r)})
    /\ \E i \in PayIds :
          /\ payment[r][i] = "ABSENT"
          /\ payment' = [payment EXCEPT ![r][i] = "INITIATED"]
          /\ req' = [req EXCEPT ![q].pc = "gateway", ![q].item = i]
    /\ payState' = [payState EXCEPT ![r] = "PENDING"]
    /\ Overwritten(r)
    /\ UNCHANGED <<status, source, slot, stamps, checkout, credits, session,
                   commissionVars, key, effectVars, locks>>

\* The provider accepts and the checkout link is returned, or it refuses
\* and the payment stays INITIATED.
InitiateGateway(q) ==
    /\ At(q, {"initiate"}, "gateway")
    /\ \/ checkout' = [checkout EXCEPT ![req[q].rsv] = @ \cup {req[q].item}]
       \/ UNCHANGED checkout
    /\ Finish(q)
    /\ UNCHANGED <<reservationVars, payment, credits, session, commissionVars,
                   key, effectVars, locks, snapshot>>
----------------------------------------------------------------------------
(* Provider events.                                                        *)

KeyOf(q) == key[req[q].rsv][req[q].item][req[q].event]
SetKey(q, st) == key' = [key EXCEPT ![req[q].rsv][req[q].item][req[q].event] = st]

WebhookUnchanged ==
    UNCHANGED <<status, source, slot, stamps, checkout, session, earning, effectVars>>

\* A known key ends the delivery with nothing changed: answered 409 while
\* it is IN_PROGRESS, and acknowledged when it is COMPLETED, or FAILED.
FindKey(q, r, i, e) ==
    /\ i \in checkout[r]
    /\ key[r][i][e] = None
    /\ Begins(q, [Call("webhook", "createKey", r) EXCEPT !.item = i, !.event = e])
    /\ WebhookUnchanged
    /\ UNCHANGED <<payState, payment, credits, calc, key, locks, snapshot>>

\* Mutant: SET without NX.
CreateKey_Overwrites(q) ==
    /\ At(q, {"webhook"}, "createKey")
    /\ SetKey(q, "IN_PROGRESS") /\ Goto(q, "read")
    /\ WebhookUnchanged
    /\ UNCHANGED <<payState, payment, credits, calc, locks, snapshot>>

\* SET ... NX: whoever loses answers by the winner's key.
CreateKey(q) ==
    /\ At(q, {"webhook"}, "createKey")
    /\ \/ KeyOf(q) = None /\ SetKey(q, "IN_PROGRESS") /\ Goto(q, "read")
       \/ KeyOf(q) # None /\ Finish(q) /\ UNCHANGED key
    /\ WebhookUnchanged
    /\ UNCHANGED <<payState, payment, credits, calc, locks, snapshot>>

\* handleSuccessfulPayment and handleFailedPayment up to their first write.
\* paid: what the event says already happened, as each of them tests it.
ReadPayment(q) ==
    LET r == req[q].rsv
        was == payment[r][req[q].item]
        to == Outcome[req[q].event]
        done == was = to /\ (to = "PAID" => payState[r] = "PAID")
        allowed == PaymentMayMove(was, to)
        stateAllowed == PaymentStateMayMove(payState[r], to)
    IN  /\ At(q, {"webhook"}, "read")
        /\ \/ done /\ Goto(q, "ack")
           \/ ~done /\ allowed /\ stateAllowed /\ Goto(q, "payThenApply")
           \/ ~done /\ allowed /\ ~stateAllowed /\ to = "PAID"
                /\ Goto(q, "payThenRefund")
           \/ ~done /\ (~allowed \/ (~stateAllowed /\ to # "PAID"))
                /\ Goto(q, "fail")
        /\ WebhookUnchanged
        /\ UNCHANGED <<payState, payment, credits, calc, key, locks, snapshot>>

LockPayment(q, step, next) ==
    /\ At(q, {"webhook"}, step)
    /\ Lock(q, {PaymentRow(req[q].rsv, req[q].item)})
    /\ Goto(q, next)
    /\ WebhookUnchanged
    /\ UNCHANGED <<payState, payment, credits, calc, key, snapshot>>

PayThenApply(q) == LockPayment(q, "payThenApply", "apply")
PayThenRefund(q) == LockPayment(q, "payThenRefund", "refund")

\* Mutant: the reservation is updated outside the transaction, without its row.
ApplyToReservation_Unlocked(q) ==
    LET r == req[q].rsv IN
    /\ At(q, {"webhook"}, "apply")
    /\ calc' = IF req[q].event = "SUCCEEDED"
               THEN [calc EXCEPT ![q] = [phase |-> "called", rsv |-> r]]
               ELSE calc
    /\ Goto(q, "applied")
    /\ WebhookUnchanged
    /\ UNCHANGED <<payState, payment, credits, key, locks, snapshot>>

\* The reservation's update; the commission calculation is started before
\* the transaction that made the reservation PAID has committed.
ApplyToReservation(q) ==
    LET r == req[q].rsv IN
    /\ At(q, {"webhook"}, "apply")
    /\ Lock(q, {ReservationRow(r)})
    /\ calc' = IF req[q].event = "SUCCEEDED"
               THEN [calc EXCEPT ![q] = [phase |-> "called", rsv |-> r]]
               ELSE calc
    /\ Goto(q, "applied")
    /\ WebhookUnchanged
    /\ UNCHANGED <<payState, payment, credits, key, snapshot>>

ApplyCommit(q) ==
    LET r == req[q].rsv
        to == Outcome[req[q].event]
    IN  /\ At(q, {"webhook"}, "applied")
        /\ payment' = [payment EXCEPT ![r][req[q].item] = to]
        /\ payState' = [payState EXCEPT ![r] = to]
        /\ Overwritten(r) /\ Release(q)
        /\ Goto(q, "ack")
        /\ WebhookUnchanged /\ UNCHANGED <<credits, calc, key>>

\* The payment of a reservation that can no longer become PAID: refunded at
\* once, or left PAID when an earlier refund exists.
RefundedPaymentCommit(q) ==
    LET r == req[q].rsv IN
    /\ At(q, {"webhook"}, "commit")
    /\ \/ /\ req[q].due # {}
          /\ RefundCommitted(q) /\ Overwritten(r)
       \/ /\ req[q].due = {}
          /\ payment' = [payment EXCEPT ![r][req[q].item] = "PAID"]
          /\ UNCHANGED <<credits, payState, snapshot>>
    /\ Release(q)
    /\ Goto(q, "ack")
    /\ WebhookUnchanged /\ UNCHANGED <<calc, key>>

\* The key is updated after the commit.  updateKey throws on an expired key,
\* and when Redis refuses its GET or SET, here and in MarkFailed: see Abort.
MarkCompleted(q) ==
    /\ At(q, {"webhook"}, "ack")
    /\ \/ /\ KeyOf(q) # None
          /\ SetKey(q, "COMPLETED") /\ Finish(q)
       \/ KeyOf(q) = None /\ Goto(q, "fail") /\ UNCHANGED key
    /\ WebhookUnchanged
    /\ UNCHANGED <<payState, payment, credits, calc, locks, snapshot>>

MarkFailed(q) ==
    /\ At(q, {"webhook"}, "fail")
    /\ \/ KeyOf(q) # None /\ SetKey(q, "FAILED")
       \/ KeyOf(q) = None /\ UNCHANGED key
    /\ Finish(q)
    /\ WebhookUnchanged
    /\ UNCHANGED <<payState, payment, credits, calc, locks, snapshot>>
====
