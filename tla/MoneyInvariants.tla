---- MODULE MoneyInvariants ----
(***************************************************************************)
(* The inductive invariants behind the theorems about money: what has been *)
(* stamped before it is announced, what a refund has read, locked and      *)
(* swept, and which provider event stands behind a payment or a charge.    *)
(* Each is stated of one request, or of one row.                           *)
(***************************************************************************)
EXTENDS BookingInvariants

EndStamp ==
    [cancel |-> "canceledAt", customerCancel |-> "canceledAt",
     complete |-> "completedAt", noShow |-> "noShowAt"]

\* What follows an end finds the reservation stamped with it.
StampedOK(q) ==
    (req[q].op \in DOMAIN EndStamp /\ req[q].pc \in {"audit", "emit"})
        => EndStamp[req[q].op] \in stamps[req[q].rsv]

AnnounceInv == AnnouncedIsCommitted /\ \A q \in Requests : StampedOK(q)
----------------------------------------------------------------------------
(* Refunds, whoever else is at work.                                       *)

\* Steps at which a request has selected what it will refund.
Selected == {"credit", "refundState", "sweep", "commit"}

\* A refund under way has something due.  At its commit, a cancellation
\* without one found nothing paid or an earlier refund, one with it holds
\* every payment that is paid; a provider event without one found an earlier.
RefundOK(q) ==
    /\ (req[q].op \in Refunding /\ req[q].pc \in Selected \ {"commit"}) => req[q].due # {}
    /\ (req[q].op = "webhook" /\ req[q].pc = "commit" /\ req[q].due = {})
          => RefundExists(req[q].rsv)
    /\ (req[q].op \in Cancels /\ req[q].pc = "commit") =>
          \/ RefundExists(req[q].rsv)
          \/ PaidOf(req[q].rsv) = {}
          \/ /\ req[q].due # {}
             /\ \A i \in PaidOf(req[q].rsv) : PaymentRow(req[q].rsv, i) \in locks[q]

RefundInv == \A q \in Requests : RefundOK(q)

\* What a cancellation is about to refund has not been: whoever would refund
\* it needs the reservation's row, which the cancellation holds.
DueIsFresh(q) ==
    (req[q].op \in Cancels /\ req[q].pc \in Selected /\ req[q].due # {})
        => ~RefundExists(req[q].rsv)

FreshInv == \A q \in Requests : DueIsFresh(q)
----------------------------------------------------------------------------
(* Events, while no key expires.                                           *)

Reports(r, i) == key[r][i]["SUCCEEDED"] # None

\* A provider event that is being processed has its key, and only one that
\* reports a success comes to the refund.
EventOK(q) ==
    /\ (req[q].op = "webhook" /\ req[q].pc \notin {"idle", "createKey"})
          => key[req[q].rsv][req[q].item][req[q].event] # None
    /\ (req[q].op = "webhook" /\ req[q].pc \in Selected \cup {"payThenRefund", "refund"})
          => req[q].event = "SUCCEEDED"

\* What is due was reported.
DueReported(q) ==
    (req[q].op \in Refunding /\ req[q].pc \in Selected)
        => \A i \in req[q].due : Reports(req[q].rsv, i)

PaidReported == \A r \in Reservations, i \in PayIds : payment[r][i] = "PAID" => Reports(r, i)

\* A calculation that will charge has seen an online reservation and a
\* reported payment.
ChargeOK(q) ==
    calc[q].phase # "idle" =>
        /\ calc[q].rsv \in Reservations
        /\ calc[q].phase = "charge" =>
              /\ source[calc[q].rsv] = "ONLINE"
              /\ \E i \in PayIds : Reports(calc[q].rsv, i)

\* The source of a reservation is chosen when it is inserted.
SourceStays == \A r \in Reservations : source[r] = "ONLINE" => Exists(r)

EventInv ==
    /\ OneRequestPerEvent /\ OnlyReportedIsCredited /\ ChargedOnlyWhenPaid
    /\ PaidReported /\ SourceStays
    /\ \A q \in Requests : EventOK(q) /\ DueReported(q) /\ ChargeOK(q)
====
