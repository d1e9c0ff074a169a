SPECIFICATION Spec
CONSTANTS
  hourly = hourly
  daily = daily
  NoCron = NoCron
  Crons = {hourly, daily}
  Occurs <- OccursTable
  Spreads <- SpreadTable
  Horizon = 24
  JitterSeconds = 3
  Poll = 2
  Day = 12
  PlatformSync = 8
  MaxEdits = 2
INVARIANT NoSlotSkipped
PROPERTIES CatchUpIsSingle ResumeWaits
CHECK_DEADLOCK FALSE
