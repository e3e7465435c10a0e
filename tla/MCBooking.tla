---- MODULE MCBooking ----
(***************************************************************************)
(* Small instances of the booking core.  Each .cfg picks the reservations, *)
(* the requests in flight, and the operations and failures to exercise.    *)
(***************************************************************************)
EXTENDS OneRequestInvariants, BookingRefinement, TLC

CONSTANTS customer

\* Two adjacent slots of one staff member.
Early == [staff |-> "ali", from |-> 1, to |-> 3]
Late == [staff |-> "ali", from |-> 3, to |-> 5]
OneSlot == {Early}
TwoSlots == {Early, Late}

OneCustomer == [r \in Reservations |-> customer]

RequestSymmetry == Permutations(Requests)
PaymentSymmetry == Permutations(PayIds)
MoneySymmetry == RequestSymmetry \cup PaymentSymmetry

\* The latest audit row and event are read by no action and by none of the
\* properties of till, which tells states apart by the rest.
TillView == <<reservationVars, moneyVars, session, commissionVars, key, requestVars>>
====
