SPECIFICATION Spec
CONSTANTS
  r1 = r1
  r2 = r2
  Requests <- OneRequest
  MaxVerifications = 2
  MaxFaults = 0
  MaxSwitches = 0
PROPERTY AcceptedOnFreshCritique
