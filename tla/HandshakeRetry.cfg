SPECIFICATION HSSpec
CONSTANTS
  a = a
  b = b
  c = c
  ua = ua
  ub = ub
  uc = uc
  dead = dead
  NoUrl = NoUrl
  Nobody = Nobody
  NoSession = NoSession
  NoCall = NoCall
  Nodes <- Two
  Urls <- UrlsAndDead
  Serves <- ServesAndDead
  Advertisable <- MayAnnounceDead
  Dials <- AnyoneAnywhere
  MaxCalls = 2
  MaxEpoch = 1
INVARIANTS
  HSTypeOK
  MutualProof
  CounterpartExists
  RefusedForCause
PROPERTY
  SessionPinned
CHECK_DEADLOCK FALSE
