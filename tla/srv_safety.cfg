SPECIFICATION Spec
CONSTANTS
  r1 = r1
  r2 = r2
  s1 = s1
  s2 = s2
  K1 = K1
  K2 = K2
  Req = {r1, r2}
  Server = {s1, s2}
  Kind = {K1, K2}
  KindOf <- MCSameKind
  Sync = {r1}
  OneWay = {}
  MaxFaults = 1
  MaxStops = 1
  MaxWakeups = 1
PROPERTIES ImplementsCalls
CHECK_DEADLOCK FALSE
