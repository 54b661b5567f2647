CONSTANTS
  Requests = {r1}
  Catalogs <- MCCatalogs
  SettingsSpace <- MCSettings
  Replies <- MCReplies
SPECIFICATION Spec
INVARIANT
  FinalErrorUnmixed
