SPECIFICATION HSFairSpec
CONSTANTS
  a = a
  b = b
  c = c
  ua = ua
  ub = ub
  uc = uc
  dead = dead
  NoUrl = NoUrl
  Nobody = Nobody
  NoSession = NoSession
  NoCall = NoCall
  Nodes <- Two
  Urls <- UrlsOfTwo
  Serves <- ServesTwo
  Advertisable <- TwoAnnounce
  Dials <- EachOther
  MaxCalls = 1
  MaxEpoch = 0
PROPERTY
  ConnectReturns
CHECK_DEADLOCK FALSE
