---- MODULE MCBackOffice ----
(***************************************************************************)
(* Two managers, two pages that compete for three slugs.                   *)
(***************************************************************************)
EXTENDS BackOffice, TLC

OfficeSymmetry == Permutations(Managers) \cup Permutations(PageIds) \cup Permutations(Slugs)
====
