SPECIFICATION Spec
CONSTANTS
  scheduler = scheduler
  api = api
  codex = codex
  job = job
  cli = cli
  m1 = m1
  m2 = m2
  m3 = m3
  NoHash = NoHash
  NoRevision = NoRevision
  Ticks = {scheduler}
  OnDemand = {}
  Workers = {codex}
  Syncers = {job}
  Manual = {}
  Contents = {m1}
  Revisions = {1, 2}
  SourceOf <- BoundTo
  MaxChanges = 3
PROPERTY RejectedStartsNothing
