---- MODULE CommissionOps ----
(***************************************************************************)
(* calculateCommission, as a transaction of its own: called when a         *)
(* reservation completes and, without being awaited, from inside the       *)
(* transaction that records a successful payment.                          *)
(***************************************************************************)
EXTENDS BookingData

CalcUnchanged ==
    UNCHANGED <<reservationVars, moneyVars, session, key, effectVars,
                requestVars>>

Calculable(r) ==
    earning[r] = None /\ PolicyActive /\ source[r] = "ONLINE"

\* Charged at once only if the payment is already visible as PAID here.
Settled(r) == payState[r] = "PAID" /\ PaidOf(r) # {}

CalculateRead(q) ==
    LET r == calc[q].rsv IN
    /\ calc[q].phase = "called"
    /\ \/ Calculable(r) /\ Settled(r) /\ calc' = [calc EXCEPT ![q].phase = "charge"]
       \/ Calculable(r) /\ ~Settled(r) /\ calc' = [calc EXCEPT ![q].phase = "defer"]
       \/ ~Calculable(r) /\ calc' = [calc EXCEPT ![q] = NoCalc]
    /\ UNCHANGED earning /\ CalcUnchanged

\* Earning.reservationId is unique: the second of two inserts fails, and
\* its caller only logs the error.
CreateEarning(q) ==
    LET r == calc[q].rsv IN
    /\ calc[q].phase \in {"charge", "defer"}
    /\ \/ /\ earning[r] = None
          /\ earning' = [earning EXCEPT ![r] =
                IF calc[q].phase = "charge" THEN "CHARGED" ELSE "PENDING"]
       \/ earning[r] # None /\ UNCHANGED earning
    /\ calc' = [calc EXCEPT ![q] = NoCalc]
    /\ CalcUnchanged
====
