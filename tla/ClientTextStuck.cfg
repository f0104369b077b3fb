SPECIFICATION ConversationFairSpec
CONSTANTS
  a = a
  b = b
  ua = ua
  ub = ub
  dead = dead
  NoUrl = NoUrl
  Nobody = Nobody
  NoSession = NoSession
  NoSend = NoSend
  NoPoll = NoPoll
  Nodes <- Two
  Urls <- UrlsOfTwo
  Serves <- ServesTwo
  Advertisable <- BehindNat
  Client = a
  HostUrl = ub
  OutboxCapacity = 1
  MaxTexts <- ClientOnly
  MaxFaults = 0
PROPERTY
  ClientTextArrives
CHECK_DEADLOCK FALSE
