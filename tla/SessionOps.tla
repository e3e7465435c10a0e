---- MODULE SessionOps ----
(***************************************************************************)
(* The gaming session routes of the panel: each is a SELECT and then a     *)
(* write by session id, with no transaction around them and no look at     *)
(* the reservation's status.                                               *)
(***************************************************************************)
EXTENDS BookingData

SessionTarget ==
    [sessionPause |-> "PAUSED", sessionResume |-> "ACTIVE", sessionStop |-> "COMPLETED"]

SessionUnchanged ==
    UNCHANGED <<reservationVars, moneyVars, commissionVars, key, effectVars,
                locks, snapshot>>

SessionStartRead(q, r) ==
    /\ Exists(r) /\ RoomForSession(r)
    /\ SessionsIn(r, {"ACTIVE"}) = {}
    /\ Begins(q, Call("sessionStart", "sessionWrite", r))
    /\ UNCHANGED session /\ SessionUnchanged

SessionStartWrite(q) ==
    /\ At(q, {"sessionStart"}, "sessionWrite")
    /\ \E s \in SessionsIn(req[q].rsv, {"ABSENT"}) :
          session' = [session EXCEPT ![req[q].rsv][s] = "ACTIVE"]
    /\ Finish(q) /\ SessionUnchanged

\* Mutant: finds sessions whatever their status, and validates nothing.
SessionRead_Any(q, o, r) ==
    /\ \E s \in SessionIds :
          /\ session[r][s] # "ABSENT"
          /\ Begins(q, [Call(o, "sessionWrite", r) EXCEPT !.item = s])
    /\ UNCHANGED session /\ SessionUnchanged

\* findFirst without an order: any of the reservation's open sessions.
SessionRead(q, o, r) ==
    /\ \E s \in SessionsIn(r, {"ACTIVE", "PAUSED"}) :
          /\ SessionMayMove(session[r][s], SessionTarget[o])
          /\ Begins(q, [Call(o, "sessionWrite", r) EXCEPT !.item = s])
    /\ UNCHANGED session /\ SessionUnchanged

PauseSessionRead(q, r) == SessionRead(q, "sessionPause", r)
ResumeSessionRead(q, r) == SessionRead(q, "sessionResume", r)
StopSessionRead(q, r) == SessionRead(q, "sessionStop", r)

SessionWrite(q) ==
    /\ At(q, SessionRoutes, "sessionWrite")
    /\ session' = [session EXCEPT ![req[q].rsv][req[q].item] =
                                      SessionTarget[req[q].op]]
    /\ Finish(q) /\ SessionUnchanged
====
