CONSTANTS
  Agents = {"claude", "codex"}
  Data <- MCData
  Servers = {s0, s1}
  NoServers = s0
  Ports = {1, 2}
  DefaultPort = 1
  Limits <- MCLimits
SPECIFICATION Spec
INVARIANTS
  TypeOK
  OriginalSurvivesEnable
PROPERTY
  RestoresOriginal
CHECK_DEADLOCK FALSE
