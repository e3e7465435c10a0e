---- MODULE MCSchedule ----
(***************************************************************************)
(* A week of two days of 24 units, two units to a minute; a slot every two *)
(* minutes and a station that is played for three.                         *)
(***************************************************************************)
EXTENDS Schedule, TLC

DayHours == {[from |-> 4, to |-> 20, active |-> TRUE],
             [from |-> 6, to |-> 16, active |-> FALSE]}
NightHours == DayHours \cup {[from |-> 18, to |-> 6, active |-> TRUE]}

\* In the first day's shift, past it and across midnight, in the second day's;
\* on or off the grid as the zone has it.
MixedStarts == {7, 22, 34}
TwoLengths == {6, 11}

\* A center in the server's zone, one ahead of it and one behind.
ThreeZones == {-6, 0, 6}

OneDay == [from |-> 0, to |-> 24]
TwoPages == {OneDay, [from |-> 0, to |-> 47], [from |-> 12, to |-> 40]}

BookingSymmetry == Permutations(Bookings)
====
