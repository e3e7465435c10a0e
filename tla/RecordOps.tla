---- MODULE RecordOps ----
(***************************************************************************)
(* The audited rows of a center, and the part payments of a commission.    *)
(* An edit finds the row, writes the fields of its body, reads the row     *)
(* again where the statement did not return it, and adds an audit row on   *)
(* whose failure nothing depends.                                          *)
(***************************************************************************)
EXTENDS BackOfficeData

\* Mutant: a deactivated center is found like any other row.
Findable_Always(r) == TRUE

\* A deactivated center is not found; the other rows are found always (an
\* upsert need not find its row: version 0 may stand for one not there yet).
Findable(r) == r = "GamingCenter" => row[r].active

FindRow(m, op, r, body) ==
    /\ r \in Rows /\ Findable(r)
    /\ Begins(m, op, r, r, row[r], body)
    /\ UNCHANGED <<siteVars, media, recordVars, moneyVars>>

NoFields == [price |-> None, active |-> None]
Deactivation == [NoFields EXCEPT !.active = FALSE]
Activity == {[NoFields EXCEPT !.active = a] : a \in {None} \cup BOOLEAN}

UpdateGamingCenter(m) ==
    \E body \in Activity : FindRow(m, "updateCenter", "GamingCenter", body)
DeleteGamingCenter(m) == FindRow(m, "deleteCenter", "GamingCenter", Deactivation)
CenterStep(m) == UpdateGamingCenter(m) \/ DeleteGamingCenter(m)

StationBodies == Activity \cup {[NoFields EXCEPT !.price = x] : x \in Prices}
UpdateStation(m) ==
    \E body \in StationBodies : FindRow(m, "updateStation", "GameStation", body)
DeactivateStation(m) == FindRow(m, "deactivateStation", "GameStation", Deactivation)
StationStep(m) == UpdateStation(m) \/ DeactivateStation(m)

UpdateStaffMember(m) ==
    \E body \in Activity : FindRow(m, "updateStaffMember", "User", body)
DeleteStaffMember(m) == FindRow(m, "deleteStaffMember", "User", Deactivation)
StaffStep(m) == UpdateStaffMember(m) \/ DeleteStaffMember(m)

UpdateSettings(m) == FindRow(m, "updateSettings", "Settings", NoFields)

\* The body of an upsert is the whole policy, active unless it says otherwise.
UpsertPolicy(m) ==
    \E a \in BOOLEAN :
        FindRow(m, "upsertPolicy", "CommissionPolicy", [NoFields EXCEPT !.active = a])

RowOps == {"updateCenter", "deleteCenter", "updateStation", "deactivateStation",
           "updateStaffMember", "deleteStaffMember", "updateSettings", "upsertPolicy"}

\* The UPDATE of a center and the upserts of settings and policy return the
\* row; an updateMany returns a count.
ReturnsRow == {"updateCenter", "deleteCenter", "updateSettings", "upsertPolicy"}

\* Only the fields of the body are written.
Written(c) ==
    [version |-> row[c.id].version + 1,
     price |-> Given(c.body.price, row[c.id].price),
     active |-> Given(c.body.active, row[c.id].active)]

WriteRow(m) ==
    /\ \E op \in RowOps : At(m, op, "write")
    /\ LET c == call[m]
           written == Written(c)
       IN /\ row' = [row EXCEPT ![c.id] = written]
          /\ IF c.op \in ReturnsRow
             THEN Goes(m, "audit", written.version, written.version)
             ELSE Goes(m, "reread", written.version, None)
    /\ UNCHANGED <<siteVars, media, trail, moneyVars>>

\* Mutant: the row read before the write is taken for the new one.
Reread_Stale(c) == c.seen.version

\* The staff member's deletion does not read again: it records isActive only.
Reread(c) == IF c.op = "deleteStaffMember" THEN None ELSE row[c.id].version

RereadRow(m) ==
    /\ \E op \in RowOps : At(m, op, "reread")
    /\ Goes(m, "audit", call[m].own, Reread(call[m]))
    /\ UNCHANGED <<siteVars, media, recordVars, moneyVars>>

\* Only a station's update that names another price than it read is a change
\* of price.
AuditAction(c) ==
    IF c.op = "updateStation" /\ Given(c.body.price, c.seen.price) # c.seen.price
    THEN "STATION_PRICE_UPDATE" ELSE c.op

\* recordLog swallows the error of the insert.
RecordLog(m) ==
    /\ \E op \in RowOps : At(m, op, "audit")
    /\ LET c == call[m] IN
       \/ trail' = [trail EXCEPT ![c.id] = @ \cup
             {[action |-> AuditAction(c), old |-> c.seen.version, own |-> c.own,
               new |-> c.after]}]
       \/ UNCHANGED trail
    /\ Ends(m)
    /\ UNCHANGED <<siteVars, media, row, moneyVars>>
----------------------------------------------------------------------------
(* payCommission: a READ COMMITTED transaction.                            *)

\* Mutant: the payments that failed are counted too.
FindEarningPayments_Any(ps) == ps

FindEarningPayments(ps) == {x \in ps : x.paid}
Total(ps) == MapThenSumSet(LAMBDA x : x.amount, ps)

FindCommission(m, amount, paid) ==
    /\ Begins(m, "payCommission", "earning", None, None,
              [by |-> edits + 1, amount |-> amount, paid |-> paid])
    /\ UNCHANGED <<siteVars, media, recordVars, moneyVars>>

\* The payment is inserted, and the sum is of the committed ones and this.
CountParts(m) ==
    /\ At(m, "payCommission", "write")
    /\ Goes(m, "commit", None, Total(FindEarningPayments(parts \cup {call[m].body})))
    /\ UNCHANGED <<siteVars, media, recordVars, moneyVars>>

CommitPart(m) ==
    /\ At(m, "payCommission", "commit")
    /\ parts' = parts \cup {call[m].body}
    /\ earning' = IF call[m].after >= Commission THEN "CHARGED" ELSE earning
    /\ Ends(m)
    /\ UNCHANGED <<siteVars, media, recordVars>>
====
