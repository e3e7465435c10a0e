---- MODULE WalletRefund ----
(***************************************************************************)
(* refundReservationToWallet, run inside the transaction of its caller:    *)
(* a cancellation, or a provider event for a reservation whose payment     *)
(* state no longer admits PAID.  It reads what is paid and whether a       *)
(* refund exists, then credits the account, then updates the reservation   *)
(* and its payments; only the updates take locks.  Its two SELECTs are one *)
(* step: a refund that commits between them makes it return, as it would   *)
(* had it read later, and a payment that does is not seen, as earlier.     *)
(***************************************************************************)
EXTENDS BookingData

Refunding == Cancels \cup {"webhook"}

\* A provider event has already set its own payment PAID in its transaction.
OwnPaid(q) == IF req[q].op = "webhook" THEN {req[q].item} ELSE {}

RefundSelect(q) ==
    LET r == req[q].rsv
        paid == PaidOf(r) \cup OwnPaid(q)
    IN  /\ At(q, Refunding, "refund")
        /\ \/ /\ paid = {} \/ RefundExists(r)
              /\ Goto(q, "commit")
           \/ /\ paid # {} /\ ~RefundExists(r)
              /\ req' = [req EXCEPT ![q].pc = "credit", ![q].due = paid]
        /\ UNCHANGED <<reservationVars, moneyVars, session, commissionVars,
                       key, effectVars, locks, snapshot>>

RefundStep(q, step, rows, next) ==
    /\ At(q, Refunding, step)
    /\ Lock(q, rows)
    /\ Goto(q, next)
    /\ UNCHANGED <<reservationVars, moneyVars, session, commissionVars, key,
                   effectVars, snapshot>>

\* The balance increment locks the account until the transaction ends.
RefundCredit(q) == RefundStep(q, "credit", {AccountRow(req[q].rsv)}, "refundState")

\* A cancellation holds the reservation's row already, a provider event not.
RefundState(q) == RefundStep(q, "refundState", {ReservationRow(req[q].rsv)}, "sweep")

\* updateMany locks the payments it finds PAID.
RefundSweep(q) ==
    LET r == req[q].rsv IN
    RefundStep(q, "sweep", {PaymentRow(r, i) : i \in PaidOf(r)}, "commit")

\* Mutant: credits the account but leaves the payments PAID.
RefundCommitted_Unswept(q) ==
    LET r == req[q].rsv IN
    /\ credits' = [credits EXCEPT ![r] =
          [i \in PayIds |-> IF i \in req[q].due THEN credits[r][i] + 1
                            ELSE credits[r][i]]]
    /\ payState' = [payState EXCEPT ![r] = "REFUNDED"]
    /\ UNCHANGED payment

\* Mutant: leaves the reservation's payment state as it was.
RefundCommitted_KeepsState(q) ==
    LET r == req[q].rsv IN
    /\ credits' = [credits EXCEPT ![r] =
          [i \in PayIds |-> IF i \in req[q].due THEN credits[r][i] + 1
                            ELSE credits[r][i]]]
    /\ payment' = [payment EXCEPT ![r] =
          [i \in PayIds |-> IF PaymentRow(r, i) \in locks[q] THEN "REFUNDED"
                            ELSE payment[r][i]]]
    /\ UNCHANGED payState

\* What the refund makes visible when its transaction commits: the payments
\* whose rows it holds are those it swept, and the one its event made PAID.
RefundCommitted(q) ==
    LET r == req[q].rsv
        swept == {i \in PayIds : PaymentRow(r, i) \in locks[q]}
    IN  /\ credits' = [credits EXCEPT ![r] =
              [i \in PayIds |-> IF i \in req[q].due THEN credits[r][i] + 1
                                ELSE credits[r][i]]]
        /\ payment' = [payment EXCEPT ![r] =
              [i \in PayIds |-> IF i \in swept THEN "REFUNDED" ELSE payment[r][i]]]
        /\ payState' = [payState EXCEPT ![r] = "REFUNDED"]
====
