SPECIFICATION FairSpec
CONSTANTS
  e1 = e1
  e2 = e2
  scanner = scanner
  api = api
  p1 = p1
  p2 = p2
  NoWriter = NoWriter
  NoEvidence = NoEvidence
  Evidence = {e1, e2}
  Writers = {scanner, api}
  Purgers = {p1, p2}
  Requests = {r1}
  MaxFaults = 2
INVARIANT LiveEvidenceHasFile
PROPERTIES UnheldIsDeleted ArtifactSpec
