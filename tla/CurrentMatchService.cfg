CONSTANTS
  Request = {r1, r2}
  Ttl = 1
  MaxNow = 1
  MaxMatch = 2
  None = None
  Failure = Failure
SPECIFICATION FairSpec
INVARIANTS FlightSound CacheAgrees
PROPERTIES NeverOlder RequestEnds
