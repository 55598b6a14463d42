SPECIFICATION Spec
CONSTANTS
  Request = {r1, r2}
  Id = {1, 2, 3}
  MaxApps = 3
  MaxDeaths = 1
 
PROPERTY DecisionsOutliveCreation
