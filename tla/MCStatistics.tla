---- MODULE MCStatistics ----
(***************************************************************************)
(* One reservation that may be served, and paid, on either of two days.     *)
(***************************************************************************)
EXTENDS StatisticsInvariants, TLC

TwoDays == [day : 1..2, staff : {"ali"}, station : {"ps5"}]
FirstDay == CHOOSE s \in TwoDays : s.day = 1
Absent == [status |-> None, slot |-> FirstDay, paidOn |-> None]
PaidAhead == [status |-> "CONFIRMED", slot |-> FirstDay, paidOn |-> 2]
Played == [status |-> "COMPLETED", slot |-> FirstDay, paidOn |-> None]
ManyOpenings == {Absent, PaidAhead, Played}
====
