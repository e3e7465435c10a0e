---- MODULE BookingRefinement ----
(***************************************************************************)
(* The handlers of the booking core, with one request at a time and every  *)
(* failure, implement BookingPromise.                                      *)
(***************************************************************************)
EXTENDS Booking

BookingOf(r) ==
    IF status[r] = "ABSENT" THEN "none"
    ELSE IF status[r] = "CANCELED" THEN "canceled" ELSE "held"

MoneyOf ==
    [ABSENT |-> "none", INITIATED |-> "open", PENDING |-> "open", PAID |-> "paid",
     REFUNDED |-> "refunded", FAILED |-> "dead", CANCELED |-> "dead", VOID |-> "dead"]

Promise == INSTANCE BookingPromise WITH
    booking <- [r \in Reservations |-> BookingOf(r)],
    money <- [r \in Reservations |-> [i \in PayIds |-> MoneyOf[payment[r][i]]]],
    wallet <- credits

\* Cancellations, payments and provider events, with transactions that fail,
\* instances that die between two statements and keys that expire, never show
\* a state or a step that the promise does not have: the refund is in the same
\* commit as its cause, whole, and never repeated (wallet.station.ts,
\* reservation.station.ts and webhooks.station.ts together).  A payment that is
\* kept after the cancellation is the promise's one exception, StaysPaid.
KeepsItsPromise == Promise!Spec

\* docs/payments-commission-webhooks.md:44 knows no exception: "When a booking
\* is canceled or a payment is processed for an already-canceled booking, funds
\* are automatically credited to the customer's wallet."
KeepsDocumentedPromise == Promise!Documented
====
