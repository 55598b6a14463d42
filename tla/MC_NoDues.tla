------------------------------- MODULE MC_NoDues -------------------------------
(***************************************************************************)
(* The rows of an application on all five levels, two of them parallel on  *)
(* level 4, one of which is the hostel's.                                  *)
(***************************************************************************)
EXTENDS Pages

MCStages == {"office", "hod", "dean", "library", "hostel", "accounts"}
MCLevelOf ==
  [office |-> 1, hod |-> 2, dean |-> 3, library |-> 4, hostel |-> 4, accounts |-> 5]

(* The same without the rows of levels 2 and 3, which behave like level 1, *)
(* and with the laboratory a school may be exempt from.                    *)
SmallStages == {"office", "laboratory", "hostel", "accounts"}
SmallLevelOf == [office |-> 1, laboratory |-> 4, hostel |-> 4, accounts |-> 5]

HostelRow == {"hostel"}
LaboratoryRow == {"laboratory"}
==============================================================================
