SPECIFICATION FairSpec
CONSTANTS
  scheduler = scheduler
  api = api
  codex = codex
  job = job
  cli = cli
  m1 = m1
  m2 = m2
  m3 = m3
  NoHash = NoHash
  NoRevision = NoRevision
  Ticks = {scheduler, api}
  OnDemand = {api}
  Workers = {codex}
  Syncers = {job, cli}
  Manual = {cli}
  Contents = {m1, m3}
  Revisions = {1, 2}
  SourceOf <- BoundTo
  MaxChanges = 2
INVARIANTS ServedWasReviewed FailureIsAlerted
PROPERTIES StartsOnKnownScope PausesHold ProgramRecovers
