SPECIFICATION FairSpec
CONSTANTS
  c1 = c1
  c2 = c2
  Source = {c1, c2}
  LenOf <- MCLenOf
  MaxBuffer = 2
  Quota <- MCQuota
  MaxRecordings = 2
  MaxFailures = 1
  MaxWakeups = 1
  MaxCrashes = 1
INVARIANTS WrittenOnce BufferBounded
PROPERTIES EventuallyWritten StopReturns OnDisk
CHECK_DEADLOCK FALSE
