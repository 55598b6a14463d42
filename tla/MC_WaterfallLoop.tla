--------------------------- MODULE MC_WaterfallLoop ---------------------------
(***************************************************************************)
(* Five rows on four of the five levels: single and parallel levels, a     *)
(* level nobody has a row on (3), and, through "absent", every smaller set *)
(* of rows.                                                                *)
(***************************************************************************)
EXTENDS WaterfallLoop

MCStages == {"office", "hod", "library", "hostel", "accounts"}
MCLevelOf == [office |-> 1, hod |-> 2, library |-> 4, hostel |-> 4, accounts |-> 5]
==============================================================================
