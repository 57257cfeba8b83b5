SPECIFICATION FairSpec
CONSTANTS
  None = None
  Events = {e1, e2}
  Spawned = {e2}
  Capacity = 1
  Attempts = 2
  MaxFaults = 2
INVARIANT ChainIntact
INVARIANT NoSilentLoss
INVARIANT CleanStop
INVARIANT AlarmOnlyAhead
PROPERTY ImplementsLog
PROPERTY EventsSettle
