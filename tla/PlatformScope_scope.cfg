SPECIFICATION Spec
CONSTANTS
  Labels = {"com", "org", "ex", "a", "b"}
  Words = {"app", "App"}
  Names = {"acme", "r1", "r2", "bucket"}
  LowerCase <- LowerTable
  Global <- GlobalTable
  Resolve <- ResolveTable
  FirstGroup <- FirstGroupTable
  Snapshots <- SnapshotTable
  Drafts <- DraftTable
  LocalExcludes <- LocalExcludeTable
  Switches <- SwitchTable
  DefaultPolicy <- DefaultTable
  NoRule = NoRule
  NoManifest = NoManifest
  Probes <- ProbeTable
  MaxChanges = 2
INVARIANTS ExclusionsSurvive OnlyWildcardUrlsWiden ReachInScope NestedExclusionsHold SchedulesHaveSeeds
