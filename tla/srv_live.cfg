SPECIFICATION FairSpec
CONSTANTS
  r1 = r1
  r2 = r2
  s1 = s1
  s2 = s2
  K1 = K1
  K2 = K2
  Req = {r1, r2}
  Server = {s1, s2}
  Kind = {K1, K2}
  KindOf <- MCOtherKind
  Sync = {r1}
  OneWay = {r2}
  MaxFaults = 1
  MaxStops = 0
  MaxWakeups = 1
PROPERTIES RequestsServed WakeupNotLost
CHECK_DEADLOCK FALSE
