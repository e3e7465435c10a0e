---- MODULE OneRequestInvariants ----
(***************************************************************************)
(* The inductive invariants behind the theorems about one request at a     *)
(* time: what a handler has read still holds when it writes.  The first    *)
(* two groups hold for any number of requests.                             *)
(***************************************************************************)
EXTENDS MoneyInvariants

\* A request comes one at a time: no other is in flight.
OneRequest == \A p, q \in Requests : p = q
----------------------------------------------------------------------------
(* Any number of requests.                                                 *)

\* Requests between the first and the last statement of a transaction.
InTransaction(q) ==
    \/ req[q].pc \in {"session", "refund", "credit", "refundState", "sweep", "commit",
                      "apply", "applied"}
    \/ req[q].op \in {"update", "start"} /\ req[q].pc = "audit"

\* No transaction leaves a row locked when it has ended, by whatever way.
LocksEnd == \A q \in Requests : locks[q] # {} => InTransaction(q)

\* Payments are started, and reported on, for a reservation that exists.
PaysExisting ==
    /\ \A r \in Reservations : checkout[r] # {} => Exists(r)
    /\ \A q \in Requests :
          (req[q].pc # "idle" /\ req[q].op \in {"initiate", "webhook"}) => Exists(req[q].rsv)

ScopeInv == LocksEnd /\ PaysExisting
----------------------------------------------------------------------------
(* Lifecycles.                                                             *)

\* A handler that has validated its move and not yet made it.
BeforeMove(q) ==
    /\ req[q].op \in Validated
    /\ \/ req[q].pc \in {"write", "session", "refund", "credit", "refundState", "sweep",
                         "commit"}
       \/ req[q].op = "start" /\ req[q].pc = "audit"

\* The move it has validated is still allowed, of the reservation ...
MoveStaysAllowed ==
    \A q \in Requests : BeforeMove(q) => MayMove(status[req[q].rsv], Target[req[q].op])

\* ... and of the gaming session.
SessionMoveStaysAllowed ==
    \A q \in Requests :
        (req[q].op \in SessionRoutes /\ req[q].pc = "sessionWrite") =>
            SessionMayMove(session[req[q].rsv][req[q].item], SessionTarget[req[q].op])

LifeInv == StampsMatchStatus /\ MoveStaysAllowed /\ SessionMoveStaysAllowed
----------------------------------------------------------------------------
(* Refunds.                                                                *)

\* The payments whose rows a request holds.
Held(q) == {i \in PayIds : PaymentRow(req[q].rsv, i) \in locks[q]}

\* A provider event may still move its payment, and one that has come to
\* the refund cannot make the reservation PAID.
OutcomeAllowed(q) ==
    /\ (req[q].op = "webhook"
           /\ req[q].pc \in Selected \cup {"payThenApply", "apply", "applied",
                                           "payThenRefund", "refund"})
          => PaymentMayMove(payment[req[q].rsv][req[q].item], Outcome[req[q].event])
    /\ (req[q].op = "webhook" /\ req[q].pc \in Selected \cup {"payThenRefund", "refund"})
          => /\ Outcome[req[q].event] = "PAID"
             /\ ~PaymentStateMayMove(payState[req[q].rsv], "PAID")

\* What is due is all that is paid, and no refund was made before; what is
\* locked is the event's own payment and, from the sweep on, what is due.
DueIsAll(q) ==
    /\ (req[q].op \in Refunding /\ req[q].pc \in Selected /\ req[q].due # {}) =>
          /\ req[q].due = PaidOf(req[q].rsv) \cup OwnPaid(q)
          /\ ~RefundExists(req[q].rsv)
          /\ req[q].pc = "commit" => Held(q) = req[q].due
    /\ (req[q].op \in Refunding /\ req[q].pc \in {"refund", "credit", "refundState", "sweep"})
          => Held(q) = OwnPaid(q)

PurseInv ==
    /\ WalletMatchesRefunds /\ PaymentStateIsBacked
    /\ \A q \in Requests : OutcomeAllowed(q) /\ DueIsAll(q)
====
