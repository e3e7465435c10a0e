---- MODULE MCIdempotentRequests ----
(***************************************************************************)
(* Two calls at a time under one key of either route.                       *)
(***************************************************************************)
EXTENDS IdempotentRequests, TLC

CallSymmetry == Permutations(Calls)
====
