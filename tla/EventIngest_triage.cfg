SPECIFICATION FairSpec
CONSTANTS
  a1 = a1
  a2 = a2
  b = b
  A = A
  B = B
  scanner = scanner
  scanner2 = scanner2
  NoPayload = NoPayload
  Scanners = {scanner}
  Raw = {a1, a2, b}
  Payloads = {A, B}
  Redacted <- RedactTable
  Values <- ValueTable
  TriggerScore = 65
  Enabled = TRUE
  Scannable = {A}
  PacketOf <- PacketTable
  IdBytes = 1
  MaxContextBytes = 10
  MaxScans = 3
  MaxFaults = 2
INVARIANTS OneFindingPerPayload WaitingIsHonest PacketsKeepTheObservation
PROPERTIES UnchangedQueuesNothing ChangeIsAsked ValuableIsAnswered
