---- MODULE MCAccounts ----
(***************************************************************************)
(* One person, whose phone is always typed in its normal spelling, and two *)
(* calls about them at the same time.                                      *)
(***************************************************************************)
EXTENDS Accounts, TLC

CONSTANT international
OneSpelling == [p \in {international} |-> p]

CallSymmetry == Permutations(Calls) \cup Permutations(ProfileIds)
====
