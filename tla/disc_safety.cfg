SPECIFICATION Spec
CONSTANTS
  a = a
  b = b
  c = c
  h1 = h1
  h2 = h2
  NoEntry = NoEntry
  Proc = {a, c}
  Node = {n1}
  Topic = {t}
  Host = {h1, h2}
  HostOf <- MCHostOf
  Group <- MCOthers
  UnicastTo <- MCUnicastTo
  Relays <- MCNoRelays
  ScopeSet = {"HOST", "ALL"}
  Callers = {a, c}
  Silence = 0
  InitCycles = 1
  Timely = FALSE
  MaxFaults = 1
  MaxEnds = 2
  MaxOps = 2
INVARIANTS EveryKnownIsTimed EveryKnownIsAnnounced ScopeRespected
PROPERTY OwnOnlyByUser
