SPECIFICATION Spec
CONSTANTS
  a = a
  b = b
  c = c
  ua = ua
  ub = ub
  uc = uc
  NoUrl = NoUrl
  Nobody = Nobody
  NoSession = NoSession
  NoCall = NoCall
  NoSend = NoSend
  NoPoll = NoPoll
  Nodes <- Two
  Urls <- UrlsOfTwo
  Serves <- ServesTwo
  Advertisable <- GuestMayHide
  Dials <- EachOther
  MaxCalls = 1
  MaxEpoch = 1
  OutboxCapacity = 1
  MaxTexts <- OneEach
  MaxFaults = 0
INVARIANT
  ShownToAddressee
CHECK_DEADLOCK FALSE
