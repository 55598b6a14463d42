----------------------------- MODULE MC_ApprovalTx -----------------------------
(***************************************************************************)
(* A School Office row, three parallel departments and Accounts; levels    *)
(* 2 and 3 behave like level 1.                                            *)
(***************************************************************************)
EXTENDS ApprovalTx

MCStages == {"office", "library", "sports", "hostel", "accounts"}
MCLevelOf ==
  [office |-> 1, library |-> 4, sports |-> 4, hostel |-> 4, accounts |-> 5]
==============================================================================
