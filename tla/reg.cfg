SPECIFICATION FairSpec
CONSTANTS
  Generic = Generic
  Proc = {a, b}
  User = {u, v}
  PubNodes = {n}
  SubNodes = {k}
  Topic = {t}
  Type = {A}
  SubTypes = {A, Generic}
  Pubs = {a, b}
  Subs = {b}
  MaxFaults = 1
  MaxEnds = 1
  MaxOps = 4
  MaxFilter = 4
INVARIANTS KnownIsConnected
PROPERTIES RemovedByItsNode Established
CHECK_DEADLOCK FALSE
