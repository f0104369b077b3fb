SPECIFICATION DiscoveryFairSpec
CONSTANTS
  MaxChunks = 3
  Names <- AllNames
  Numbers <- PortNumbers
  Worlds <- AnswersAndTexts
  Routes <- OneRouteOrNone
  Dotted <- DottedTwo
INVARIANTS
  DiscoveryTypeOK
  ReadsInside
  FindsFirstAddress
  SuggestionIsShared
  SharedAsTyped
  AnnouncedIsShared
PROPERTY
  DetectReturns
