SPECIFICATION FairSpec
CONSTANTS
  scanner = scanner
  codex2 = codex2
  codex = codex
  NoOwner = NoOwner
  NoJob = NoJob
  Workers = {scanner, codex, codex2}
  Owners = {scanner, codex, codex2}
  Requests = {r1}
  NumJobs = 3
  Cancellable = {3}
  MaxFaults = 1
  Online = {scanner}
  OwnerOf <- ComposeOwner
  Serves <- OneEach
  QueueOf <- QueueTable
  Priority <- PriorityTable
  MaxAttempts <- AttemptTable
  NotifyJobs <- AlertJobs
INVARIANTS LeaseCoherent FailedIsExhausted StartsArePaidFor OneRunPerAttempt
PROPERTY CancelUndoneOnlyByFailure
PROPERTY JobsSettle LifecycleSpec
