SPECIFICATION FairSpec
CONSTANTS
  a = a
  b = b
  c = c
  h1 = h1
  h2 = h2
  NoEntry = NoEntry
  Proc = {a, b}
  Node = {n1}
  Topic = {t}
  Host = {h1}
  HostOf <- MCHostOf
  Group <- MCOthers
  UnicastTo <- MCUnicastTo
  Relays <- MCNoRelays
  ScopeSet = {"HOST"}
  Callers = {a, b}
  Silence = 1
  InitCycles = 1
  Timely = TRUE
  MaxFaults = 1
  MaxEnds = 1
  MaxOps = 2
PROPERTY GoneIsForgotten
PROPERTY Convergence
INVARIANT LiveNotExpired
