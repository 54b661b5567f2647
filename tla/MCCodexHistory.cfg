CONSTANTS
  a = a
  b = b
  Requests = {r1, r2, r3}
  CallIds = {a, b}
  Completions <- MCCompletions
  Clients <- MCClients
  Inputs <- MCInputs
  Manners = {TRUE, FALSE}
  None = None
  Client = Client
SPECIFICATION Spec
INVARIANTS
  TypeOK
  CallsBelong
PROPERTIES
  CallsRestored
  ChatValid
  TurnsKept
SYMMETRY Symmetry
CHECK_DEADLOCK FALSE
