SPECIFICATION Spec
CONSTANTS
  Generic = Generic
  Proc = {a, b}
  User = {u}
  PubNodes = {n}
  SubNodes = {n}
  Topic = {t}
  Type = {A}
  SubTypes = {A}
  Pubs = {a, b}
  Subs = {a, b}
  MaxFaults = 0
  MaxEnds = 0
  MaxOps = 4
  MaxFilter = 4
PROPERTIES RemovedByItsNode
CHECK_DEADLOCK FALSE
