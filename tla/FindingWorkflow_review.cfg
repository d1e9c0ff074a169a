SPECIFICATION FairSpec
CONSTANTS
  r1 = r1
  r2 = r2
  Requests <- TwoRequests
  MaxVerifications = 2
  MaxFaults = 1
  MaxSwitches = 1
INVARIANTS SubmittedWasValidated ValidatedWasReviewed VerifiedIsReviewable
PROPERTIES VerifiedGetsCritique ClosedReopensLate GateSpec
