---- MODULE BookingProperties ----
(***************************************************************************)
(* What the booking core promises.  The first group holds whatever the     *)
(* requests in flight do to each other; the second holds when requests     *)
(* come one at a time, and shows what the handlers get right on their own; *)
(* the third is what the documentation says and the code does not do.      *)
(***************************************************************************)
EXTENDS Booking

\* A running reservation has a gaming session that is being played, and no
\* reservation ever has two: startReservation and completeReservation change
\* status and session under one row lock, so no mix of stale starts,
\* completions and cancellations tears the two apart.  (With the panel's session
\* routes, which lock nothing, it does not hold; see RunningHasSession.)
RunningHasItsSession ==
    \A r \in Reservations :
        /\ \A s, t \in SessionsIn(r, {"ACTIVE"}) : s = t
        /\ status[r] = "IN_PROGRESS" => SessionsIn(r, {"ACTIVE"}) # {}

\* No edit moves a reservation that has ended: updateReservation tests the
\* status on a snapshot, and REPEATABLE READ makes its UPDATE fail when a
\* cancellation, completion or no-show has committed since.
EditsOnlyLive ==
    [][\A r \in Reservations :
          (slot'[r] # slot[r] /\ Exists(r)) => status[r] \notin TerminalStates]_vars

\* Customers, statistics and the audit log never hear of an end that did not
\* happen: an event or audit row about a cancellation, completion or no-show
\* comes only after the transaction that stamped it.
AnnouncedIsCommitted ==
    \A r \in Reservations :
        /\ (outbox[r] = "CANCELED" \/ audit[r] = "CANCEL") => "canceledAt" \in stamps[r]
        /\ (outbox[r] = "COMPLETED" \/ audit[r] = "COMPLETE") => "completedAt" \in stamps[r]
        /\ (outbox[r] = "NO_SHOW" \/ audit[r] = "NOSHOW") => "noShowAt" \in stamps[r]

\* A commit that cancels a reservation leaves no payment PAID behind unless
\* an earlier refund stands: between the refund's SELECT and the commit no
\* provider event can slip a payment in, because it needs the same row.
CancelLeavesNothingPaid ==
    [][\A r \in Reservations :
          (status[r] # "CANCELED" /\ status'[r] = "CANCELED" /\ PaidOf(r)' # {})
              => RefundExists(r)]_vars

\* However many payments, cancellations and provider events there are, and in
\* any interleaving, a cancellation never refunds a reservation that has been
\* refunded: what it has read is guarded by the row it holds.  Only a provider
\* event refunds once more, as it reads before it locks (see NoDoubleRefund).
RefundsNow(q, r) ==
    /\ At(q, {"webhook"}, "commit") /\ req[q].rsv = r /\ req[q].due # {}
    /\ req'[q].pc = "ack"
OnlyEventsRefundAgain ==
    [][\A r \in Reservations :
          (RefundExists(r) /\ credits'[r] # credits[r])
              => \E q \in Requests : RefundsNow(q, r)]_vars

\* The wallet is only ever credited with a payment the provider reported as
\* successful (its event has a key, as no key expires in that run).
OnlyReportedIsCredited ==
    \A r \in Reservations, i \in PayIds :
        credits[r][i] > 0 => key[r][i]["SUCCEEDED"] # None

\* A commission is charged at once only on an online reservation for which
\* the provider reported a successful payment.
ChargedOnlyWhenPaid ==
    \A r \in Reservations :
        earning[r] = "CHARGED" =>
            /\ source[r] = "ONLINE"
            /\ \E i \in PayIds : key[r][i]["SUCCEEDED"] # None

\* The same provider event, delivered several times at once, is processed by
\* one request only: SET NX decides between them.
Processing(q, r, i, e) ==
    /\ req[q].op = "webhook" /\ req[q].pc # "createKey"
    /\ req[q].rsv = r /\ req[q].item = i /\ req[q].event = e
OneRequestPerEvent ==
    \A r \in Reservations, i \in PayIds, e \in PaymentEvents, p, q \in Requests :
        (Processing(p, r, i, e) /\ Processing(q, r, i, e)) => p = q

\* Every request is answered: lock queues, deadlocks between a cancellation
\* and a provider event, and the transaction timeout leave none waiting.
EveryRequestEnds == \A q \in Requests : (req[q] # Idle) ~> (req[q] = Idle)

\* While no instance crashes, a delivery whose transaction or first mark
\* failed leaves its key IN_PROGRESS only if Redis refuses the last update
\* too (webhooks.station.ts:97-110).
KeyLeftOnlyByRedis ==
    [][\A q \in Requests, r \in Reservations, i \in PayIds, e \in PaymentEvents :
          (Processing(q, r, i, e) /\ ~Processing(q, r, i, e)'
               /\ key'[r][i][e] = "IN_PROGRESS") => req[q].pc = "fail"]_vars

\* A provider event's key does not stay IN_PROGRESS, where every redelivery
\* is answered 409: its delivery marks it, or, when its instance dies or Redis
\* refuses the mark, the key's time to live ends, which no update may suspend.
EveryKeySettles ==
    \A r \in Reservations, i \in PayIds, e \in PaymentEvents :
        (key[r][i][e] = "IN_PROGRESS") ~> (key[r][i][e] # "IN_PROGRESS")
----------------------------------------------------------------------------
(* One request at a time.                                                  *)

\* Nothing leaves a terminal state, whatever sequence of calls, failures and
\* crashes comes: the state machine is consulted by every handler.
TerminalIsFinal ==
    [][\A r \in Reservations :
          status[r] \in TerminalStates => status'[r] = status[r]]_vars

\* A reservation carries exactly the timestamp of the way it ended.
StampOf == [CANCELED |-> "canceledAt", COMPLETED |-> "completedAt", NO_SHOW |-> "noShowAt"]
StampsMatchStatus ==
    \A r \in Reservations :
        stamps[r] = IF status[r] \in TerminalStates THEN {StampOf[status[r]]} ELSE {}

\* The wallet agrees with the payments: a payment is credited once if it is
\* REFUNDED and never otherwise.
WalletMatchesRefunds ==
    \A r \in Reservations, i \in PayIds :
        credits[r][i] = IF payment[r][i] = "REFUNDED" THEN 1 ELSE 0

\* The payment state summarised on the reservation has a payment to show for
\* it: an open one while PENDING, a paid one while PAID.
PaymentStateIsBacked ==
    \A r \in Reservations :
        /\ payState[r] = "PENDING" => \E i \in PayIds : payment[r][i] = "INITIATED"
        /\ payState[r] = "PAID" => PaidOf(r) # {}

\* A gaming session that is over stays over.
EndedSessionIsFinal ==
    [][\A r \in Reservations, s \in SessionIds :
          session[r][s] = "COMPLETED" => session'[r][s] = "COMPLETED"]_vars
----------------------------------------------------------------------------
(* What the documentation says and the code does not do.                   *)

\* docs/api/booking-contract.md:194, "A booking in a terminal state cannot be
\* changed further", with several requests in flight.
ContractTerminal == TerminalIsFinal

\* wallet.station.ts:46, "Check if already refunded to avoid double refund":
\* no payment is credited to the wallet twice, with several payments.
NoDoubleRefund == \A r \in Reservations, i \in PayIds : credits[r][i] <= 1
====
