SPECIFICATION Spec
CONSTANTS
  r1 = r1
  r2 = r2
  Request = {r1, r2}
  Beside = {"change", "forgot", "delete"}
  CodeLife = 2
  MaxCodes = 2
  MaxNow = 5
  MaxLost = 2
SYMMETRY Requests
INVARIANT DecisionsStayTraceable
PROPERTIES CodesAreSingleUse FreshCodesSurvive
CHECK_DEADLOCK FALSE
