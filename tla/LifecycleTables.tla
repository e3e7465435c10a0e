---- MODULE LifecycleTables ----
(***************************************************************************)
(* The state machines of PxTime, as the tables the code checks at run      *)
(* time: the reservation lifecycle, the payment lifecycle, the payment     *)
(* state summarised on the reservation, and the gaming session lifecycle.  *)
(* Nothing here changes state; every handler's guard is one of these.      *)
(***************************************************************************)

\* "ABSENT" stands for a row that does not exist (yet).
ReservationStatus ==
    {"PENDING", "CONFIRMED", "IN_PROGRESS", "COMPLETED", "CANCELED", "NO_SHOW"}

ReservationTransitions ==
    {<<"PENDING", "CONFIRMED">>, <<"PENDING", "CANCELED">>,
     <<"CONFIRMED", "IN_PROGRESS">>, <<"CONFIRMED", "COMPLETED">>,
     <<"CONFIRMED", "CANCELED">>, <<"CONFIRMED", "NO_SHOW">>,
     <<"IN_PROGRESS", "COMPLETED">>}

\* Mutant: any status some transition leads to may be reached from any other.
MayMove_FromAnywhere(current, next) ==
    current = next \/ \E s \in ReservationStatus : <<s, next>> \in ReservationTransitions

\* A reservation may always "move" to the status it already has.
MayMove(current, next) ==
    current = next \/ <<current, next>> \in ReservationTransitions

TerminalStates == {"COMPLETED", "CANCELED", "NO_SHOW"}

\* PENDING and VOID exist in the enumeration but no handler ever writes them.
PaymentStatus ==
    {"INITIATED", "PENDING", "PAID", "FAILED", "CANCELED", "REFUNDED", "VOID"}

PaymentTransitions ==
    ({"INITIATED"} \X {"PENDING", "PAID", "FAILED", "CANCELED"})
        \cup ({"PENDING"} \X {"PAID", "FAILED", "CANCELED"})
        \cup {<<"PAID", "REFUNDED">>}

ReservationPaymentState ==
    {"UNPAID", "PENDING", "PARTIALLY_PAID", "PAID", "REFUNDED", "OVERPAID",
     "FAILED", "CANCELED"}

ReservationPaymentTransitions ==
    ({"UNPAID"} \X {"PENDING", "PAID"})
        \cup ({"PENDING"} \X {"PAID", "FAILED", "CANCELED"})
        \cup ({"PARTIALLY_PAID"} \X {"PAID", "REFUNDED", "OVERPAID"})
        \cup ({"PAID", "OVERPAID"} \X {"REFUNDED"})

\* Unlike reservations, payments have no exemption for an unchanged status.
PaymentMayMove(from, to) == <<from, to>> \in PaymentTransitions
PaymentStateMayMove(from, to) == <<from, to>> \in ReservationPaymentTransitions

GamingSessionStatus ==
    {"ACTIVE", "PAUSED", "COMPLETED", "INTERRUPTED", "NO_SHOW"}

GamingSessionTransitions ==
    ({"ACTIVE"} \X {"PAUSED", "COMPLETED", "INTERRUPTED"})
        \cup ({"PAUSED", "INTERRUPTED"} \X {"ACTIVE", "COMPLETED"})

SessionMayMove(current, next) ==
    current = next \/ <<current, next>> \in GamingSessionTransitions
====
