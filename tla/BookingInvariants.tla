---- MODULE BookingInvariants ----
(***************************************************************************)
(* The inductive invariants behind the safety theorems: who holds the row  *)
(* lock of a reservation, what a REPEATABLE READ snapshot still tells, and *)
(* what startReservation has established before it commits.                *)
(***************************************************************************)
EXTENDS BookingProperties

\* The handlers whose read validates a move of the reservation's status.
Validated == {"confirm", "cancel", "customerCancel", "start", "complete", "noShow"}

\* No two transactions hold the same row.
LocksExclusive ==
    \A p, q \in Requests : p # q => locks[p] \cap locks[q] = {}

\* Requests inside a transaction that has already updated its reservation.
WritesRow(q) ==
    LET o == req[q].op
        step == req[q].pc
    IN  \/ o = "update" /\ step \in {"audit", "commit"}
        \/ o \in Cancels /\ step \in {"refund", "credit", "refundState", "sweep", "commit"}
        \/ o = "start" /\ step \in {"session", "audit", "commit"}
        \/ o = "complete" /\ step \in {"session", "commit"}
        \/ o = "webhook" /\ step \in {"sweep", "applied"}
        \/ o = "webhook" /\ step = "commit" /\ req[q].due # {}

WritersHoldRow ==
    \A q \in Requests : WritesRow(q) => ReservationRow(req[q].rsv) \in locks[q]

\* Nothing is due for a refund before it has been selected.
DueIsSelected ==
    \A q \in Requests :
        req[q].pc \in {"write", "createKey", "read", "payThenRefund", "refund"}
            => req[q].due = {}

\* A snapshot is an edit's, taken while its reservation was live; an edit
\* that has updated the row still has its snapshot.
SnapshotsLive ==
    \A q \in Requests :
        /\ q \in snapshot =>
              /\ req[q].op = "update" /\ req[q].pc \in {"write", "audit", "commit"}
              /\ status[req[q].rsv] \notin TerminalStates
        /\ (req[q].op = "update" /\ req[q].pc \in {"audit", "commit"}) => q \in snapshot

\* A public booking inserts a row that is not there, as no other one does.
InsertsAbsent ==
    \A q \in Requests :
        (req[q].op = "createPublic" /\ req[q].pc = "insert") =>
            /\ ~Exists(req[q].rsv)
            /\ \A p \in Requests :
                  (req[p].op = "createPublic" /\ req[p].pc = "insert"
                      /\ req[p].rsv = req[q].rsv) => p = q

\* The handlers that change a status work on a reservation that exists.
MovesExisting ==
    \A q \in Requests :
        (req[q].pc # "idle" /\ req[q].op \in Validated) => Exists(req[q].rsv)

\* What holds of rows, snapshots and inserts in every reachable state.
RowInv ==
    /\ LocksExclusive
    /\ WritersHoldRow
    /\ DueIsSelected
    /\ SnapshotsLive
    /\ InsertsAbsent
    /\ MovesExisting

\* A start that has passed its session check is about to create the only
\* active session, and the routes that could create another are not in use.
StartsAlone ==
    \A q \in Requests :
        /\ (req[q].op = "start" /\ req[q].pc \in {"audit", "commit"})
              => SessionsIn(req[q].rsv, {"ACTIVE"}) = {}
        /\ req[q].pc # "idle" => req[q].op \notin SessionRoutes \cup {"sessionStart"}

SessionInv == RunningHasItsSession /\ StartsAlone
====
