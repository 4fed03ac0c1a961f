SPECIFICATION FairSpec
CONSTANTS
  x = x
  y = y
  t1 = t1
  t2 = t2
  n1 = n1
  Handler = {x, y}
  Thread = {t1, t2}
  NodeId = {n1}
  NodeOf <- MCNodeOf
  PubNode <- MCPubNode
  Suits <- MCSuits
  Raw = {x}
  Ignoring = {y}
  SameName = {x}
  Remapped = {}
  RawCalls = {t1}
  Remote = {t2}
  Quota <- MCQuota
PROPERTIES ImplementsDelivery EventuallyDelivered
