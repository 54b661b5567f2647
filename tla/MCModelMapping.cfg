CONSTANTS
  Chars = {"a", "b", "*"}
  Names <- AllNames
  Models <- MCModels
  Providers <- MCProviders
SPECIFICATION RelaySpec
INVARIANTS
  ServedModelListed
  StarCarried
CHECK_DEADLOCK FALSE
