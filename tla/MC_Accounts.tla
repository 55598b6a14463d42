------------------------------ MODULE MC_Accounts ------------------------------
(***************************************************************************)
(* Two requests, codes that live two minutes, one lost background task.    *)
(***************************************************************************)
EXTENDS Accounts, TLC

CONSTANTS r1, r2

Requests == Permutations(Request)
==============================================================================
