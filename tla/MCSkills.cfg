CONSTANTS
  Dirs = {"a", "b"}
  Files = {"SKILL.md", "x", "y", "z"}
  Archive <- MCArchive
  Defaults <- MCDefaults
  Addable <- MCAddable
  Local = {"b"}
  MaxSlots = 3
  MaxCalls = 3
  MaxEvents = 2
SPECIFICATION Spec
INVARIANTS
  TypeOK
  NothingLost
  InstalledWhole
  PageTellsDisk
CHECK_DEADLOCK FALSE
