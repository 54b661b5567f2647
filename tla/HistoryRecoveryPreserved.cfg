CONSTANTS
  a = a
  b = b
  Requests = {r1, r2, r3}
  CallIds = {a, b}
  Completions <- MCCompletions
  Clients <- ReferringClients
  Inputs <- MCInputs
  Manners = {TRUE}
  None = None
  Client = Client
SPECIFICATION Spec
INVARIANTS
  RecoveryPreserved
SYMMETRY Symmetry
CHECK_DEADLOCK FALSE
