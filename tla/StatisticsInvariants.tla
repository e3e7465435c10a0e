---- MODULE StatisticsInvariants ----
(***************************************************************************)
(* The inductive invariant behind the theorem that no figure is stale      *)
(* without a reason: what a job is about to recompute, and what becomes of *)
(* a recomputation whose aggregates are no longer right.                   *)
(***************************************************************************)
EXTENDS Statistics

\* The reservation of a review, and of a job, has a row.
ReviewsOK ==
    \A v \in Reviews : review[v] # None => status[review[v].of] # None

\* A payment belongs to a reservation that has a row.
PaymentsHaveRows == \A r \in Reservations : paidOn[r] # None => status[r] # None

JobOK(j) ==
    job[j].kind # "unused" =>
        /\ OfReview(j) => job[j].of \in Reviews /\ review[job[j].of] # None
        /\ ~OfReview(j) => job[j].of \in Reservations /\ status[job[j].of] # None
        /\ job[j].phase \notin {"done", "dropped"} => job[j].attempts < MaxAttempts
        /\ job[j].phase \in {"paidDay", "findRow"} => job[j].kind = "PAYMENT"

\* The tasks of a job's present attempt exist only while it waits for them.
TaskOK(t) == t.attempt = Attempt(t.job) => job[t.job].phase \in {"paidDay", "syncing"}

StatisticsShape ==
    TypeOK /\ ReviewsOK /\ (\A j \in Jobs : JobOK(j)) /\ (\A t \in tasks : TaskOK(t))

\* What a job has not come to yet.  The day a payment came in is done first.
Ahead(j) ==
    IF job[j].phase \in {"committed", "waiting", "find"} THEN Covers(j)
    ELSE IF job[j].phase \in {"paidDay", "findRow"} THEN KeysOf(slot[RowOf(j)])
    ELSE {}

\* k will be recomputed from rows that nobody has read yet, or have not changed.
Awaited(k) ==
    \/ k \in excused
    \/ \E t \in tasks : WillRefresh(t, k)
    \/ \E j \in Jobs : k \in Ahead(j)

\* A task that has read what is no longer so.
Stale(t) ==
    \/ t.read.bookings \notin {None, BookingsPart(t.key)}
    \/ t.read.extra \notin {None, ExtraPart(t.key)}

\* The upsert of a task that has read too early does no harm: it is known to
\* be overtaken, or the figure will be recomputed.
StaleTasksAwaited == \A t \in tasks : Stale(t) => t.overtaken \/ Awaited(t.key)

\* If an attempt fails, its job covers the figures of its tasks again, unless
\* the reservation has left them.
TasksCovered == \A t \in tasks : Current(t) => t.key \in Covers(t.job) \cup excused

FreshInv ==
    /\ \A k \in Keys : figures[k] # Actual(k) => Awaited(k)
    /\ StaleTasksAwaited
    /\ TasksCovered
====
