CONSTANTS
  Process = {p1, p2}
  Serial = {1, 2}
  MaxDepth = 2
  MaxCrashes = 1
  NoToken = NoToken
  p1 = p1
  p2 = p2
  p3 = p3
  h1 = h1
  h2 = h2
  Host = {h1, h2}
  HostOf <- TwoHosts
  Containerized <- OnlyP1
SPECIFICATION FairSpec
PROPERTIES OnlyClearingRobs ImplementsSingleWriter LockComesFree
