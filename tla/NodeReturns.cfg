SPECIFICATION FairSpec
CONSTANTS
  a = a
  b = b
  c = c
  ua = ua
  ub = ub
  uc = uc
  NoUrl = NoUrl
  Nobody = Nobody
  NoSession = NoSession
  NoCall = NoCall
  NoSend = NoSend
  NoPoll = NoPoll
  Nodes <- Two
  Urls <- UrlsOfTwo
  Serves <- ServesTwo
  Advertisable <- GuestMayHide
  Dials <- GuestDialsHost
  MaxCalls = 2
  MaxEpoch = 0
  OutboxCapacity = 1
  MaxTexts <- OneEach
  MaxFaults = 0
PROPERTIES
  ConnectReturns
  SendReturns
  MailboxDrains
CHECK_DEADLOCK FALSE
