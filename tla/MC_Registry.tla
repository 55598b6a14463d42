------------------------------ MODULE MC_Registry ------------------------------
(***************************************************************************)
(* One school, an academic and an administrative department, two           *)
(* programmes and a specialization.                                        *)
(***************************************************************************)
EXTENDS Registry

MCSeeds ==
  [phase |-> [cse |-> 1, lib |-> 2], school |-> [cse |-> "ict", lib |-> "none"],
   programme |-> [btech |-> "cse", mtech |-> "cse"], specialization |-> [core |-> "btech"]]
==============================================================================
