SPECIFICATION Spec
CONSTANTS
  Request = {r1, r2}
  Number = {1, 2, 3}
  Others = {3}
  MaxDeaths = 2
  Habits = {"wait", "one_file", "whole_uploads"}
INVARIANTS HandedOutVerifies HandedOutIsFinal
PROPERTIES OnlyClashesUndoApproval CompletedGetsCertificate
