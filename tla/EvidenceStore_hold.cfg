SPECIFICATION Spec
CONSTANTS
  e1 = e1
  e2 = e2
  scanner = scanner
  api = api
  p1 = p1
  p2 = p2
  NoWriter = NoWriter
  NoEvidence = NoEvidence
  Evidence = {e1}
  Writers = {scanner}
  Purgers = {p1}
  Requests = {r1}
  MaxFaults = 0
INVARIANT HeldIsKept
