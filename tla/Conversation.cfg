SPECIFICATION ConversationSpec
CONSTANTS
  a = a
  b = b
  ua = ua
  ub = ub
  dead = dead
  NoUrl = NoUrl
  Nobody = Nobody
  NoSession = NoSession
  NoSend = NoSend
  NoPoll = NoPoll
  Nodes <- Two
  Urls <- UrlsAndDead
  Serves <- ServesAndDead
  Advertisable <- AnyAnnouncement
  Client = a
  HostUrl = ub
  OutboxCapacity = 2
  MaxTexts <- OneAndThree
  MaxFaults = 1
INVARIANTS
  MailboxTypeOK
  NoTextVanishes
  OneCopyUnlessAbandoned
  RefusedIsNotSent
  OrderUnlessAbandoned
  RepliesFollow
PROPERTY
  ImplementsLossyQueue
CHECK_DEADLOCK FALSE
