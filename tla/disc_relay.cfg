SPECIFICATION FairSpec
CONSTANTS
  a = a
  b = b
  c = c
  h1 = h1
  h2 = h2
  NoEntry = NoEntry
  Proc = {a, c}
  Node = {n1}
  Topic = {t}
  Host = {h1, h2}
  HostOf <- MCApart
  Group <- MCSplit
  UnicastTo <- MCUnicastTo
  Relays <- MCRelays
  ScopeSet = {"ALL"}
  Callers = {a, c}
  Silence = 1
  InitCycles = 0
  Timely = TRUE
  MaxFaults = 1
  MaxEnds = 0
  MaxOps = 1
PROPERTY RelayConvergence
INVARIANT RelayedOnce
