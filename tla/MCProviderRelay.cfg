CONSTANTS
  Requests = {r1}
  Catalogs <- MCCatalogs
  SettingsSpace <- MCSettings
  Replies <- MCReplies
SPECIFICATION FairSpec
INVARIANTS
  TypeOK
  TriesInOrder
  NonRetryableStops
  LastUpstreamErrorKept
  LogMatchesTraffic
PROPERTIES
  StopsOnceWritten
  AnswersOnce
  EveryRequestAnswered
