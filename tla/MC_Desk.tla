-------------------------------- MODULE MC_Desk --------------------------------
(***************************************************************************)
(* One row per level (Accounts is the library once more, a level higher);  *)
(* the student of one school and department, a second school to be         *)
(* mistaken for it or to move to.                                          *)
(***************************************************************************)
EXTENDS Desk, TLC

CONSTANTS ann, bob

MCStages == {"office", "hod", "dean", "library"}
MCLevelOf == [office |-> 1, hod |-> 2, dean |-> 3, library |-> 4]
MCRowRole ==
  [s \in MCStages |-> CASE s = "hod" -> "hod" [] s = "dean" -> "dean" [] OTHER -> "staff"]
MCRowSchool == [s \in MCStages |-> IF s \in {"office", "dean"} THEN "ict" ELSE "none"]
MCRowDepartment ==
  [s \in MCStages |-> CASE s = "hod" -> "cse" [] s = "library" -> "lib" [] OTHER -> "none"]
MCHome == [school |-> "ict", department |-> "cse"]

People == Permutations(Person)
==============================================================================
