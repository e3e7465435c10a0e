---- MODULE BookingPromise ----
(***************************************************************************)
(* What a reservation and its payments promise, without requests, locks or *)
(* keys: the cancellation and the refund of all that is paid are one step, *)
(* and so are taking in a payment that came too late and refunding it; a   *)
(* reservation is refunded once.  Documented is what the documentation     *)
(* promises; Spec adds the one step the code takes beside it, StaysPaid.   *)
(***************************************************************************)
EXTENDS Integers

CONSTANTS Reservations, PayIds

VARIABLES
    booking,  \* "none", "held" or "canceled"
    money,    \* payment -> "none", "open", "paid", "refunded" or "dead"
    wallet    \* payment -> how often it was credited

vars == <<booking, money, wallet>>

Init ==
    /\ booking = [r \in Reservations |-> "none"]
    /\ money = [r \in Reservations |-> [i \in PayIds |-> "none"]]
    /\ wallet = [r \in Reservations |-> [i \in PayIds |-> 0]]

Book(r) ==
    /\ booking[r] = "none" /\ booking' = [booking EXCEPT ![r] = "held"]
    /\ UNCHANGED <<money, wallet>>

\* A payment may be started, and fail, after the reservation was canceled.
Becomes(r, i, from, to) ==
    /\ booking[r] # "none" /\ money[r][i] = from
    /\ money' = [money EXCEPT ![r][i] = to]
    /\ UNCHANGED <<booking, wallet>>

Open(r, i) == Becomes(r, i, "none", "open")
Settle(r, i) == booking[r] = "held" /\ Becomes(r, i, "open", "paid")
Drop(r, i) == Becomes(r, i, "open", "dead")

PaidIn(r) == {i \in PayIds : money[r][i] = "paid"}
NotYetRefunded(r) == \A i \in PayIds : wallet[r][i] = 0

Refund(r, is) ==
    /\ money' = [money EXCEPT ![r] =
           [i \in PayIds |-> IF i \in is THEN "refunded" ELSE money[r][i]]]
    /\ wallet' = [wallet EXCEPT ![r] =
           [i \in PayIds |-> IF i \in is THEN 1 ELSE wallet[r][i]]]

\* All that is paid, unless the reservation was refunded before.  Canceling
\* once more returns what was paid after the first time.
Cancel(r) ==
    /\ booking[r] # "none" /\ booking' = [booking EXCEPT ![r] = "canceled"]
    /\ \/ NotYetRefunded(r) /\ Refund(r, PaidIn(r))
       \/ ~NotYetRefunded(r) /\ UNCHANGED <<money, wallet>>

\* A payment the reservation has no more use for.
RefundLate(r, i) ==
    /\ money[r][i] = "open" /\ NotYetRefunded(r)
    /\ Refund(r, PaidIn(r) \cup {i}) /\ UNCHANGED booking

\* The exception: a payment that succeeds after the cancellation is kept.
StaysPaid(r, i) == booking[r] = "canceled" /\ Becomes(r, i, "open", "paid")

Next ==
    \E r \in Reservations :
        \/ Book(r) \/ Cancel(r)
        \/ \E i \in PayIds : Open(r, i) \/ Settle(r, i) \/ Drop(r, i) \/ RefundLate(r, i)

\* docs/payments-commission-webhooks.md:44, "When a booking is canceled or a
\* payment is processed for an already-canceled booking, funds are automatically
\* credited to the customer's wallet."
Documented == Init /\ [][Next]_vars

Practised == Next \/ \E r \in Reservations, i \in PayIds : StaysPaid(r, i)
Spec == Init /\ [][Practised]_vars
====
