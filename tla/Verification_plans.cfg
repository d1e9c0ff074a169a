SPECIFICATION Spec
CONSTANTS
  shop = shop
  admin = admin
  public = public
  internal = internal
  tester = tester
  NoRole = NoRole
  Targets = {shop, admin}
  Addresses = {public, internal}
  Global = {public}
  Roles = {tester}
  Manifests <- ManifestTable
  Steps <- StepTable
  MaxSteps = 2
  MaxAttempts = 2
  MaxChanges = 2
INVARIANTS PlanIsPermitted AttemptWithinBudget NoCookieWithoutLeave RecordedIsWhole
PROPERTY LifecycleSpec
CHECK_DEADLOCK FALSE
