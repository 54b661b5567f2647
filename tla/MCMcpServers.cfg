CONSTANTS
  Names = {"b", "x"}
  BuiltIn <- MCBuiltIn
  FormServers <- MCFormServers
  Imported = {"x"}
  MaxVisits = 1
  MaxEdits = 2
  MaxEvents = 2
SPECIFICATION Spec
INVARIANTS
  TypeOK
  FilesAgree
  SavedIsListed
CHECK_DEADLOCK FALSE
