SPECIFICATION HSSpec
CONSTANTS
  a = a
  b = b
  c = c
  ua = ua
  ub = ub
  uc = uc
  dead = dead
  NoUrl = NoUrl
  Nobody = Nobody
  NoSession = NoSession
  NoCall = NoCall
  Nodes <- Three
  Urls <- UrlsOfThree
  Serves <- ServesThree
  Advertisable <- GuestsMayHide
  Dials <- Chain
  MaxCalls = 2
  MaxEpoch = 1
INVARIANTS
  MutualProof
  DistinctDirections
PROPERTY
  SessionPinned
CHECK_DEADLOCK FALSE
