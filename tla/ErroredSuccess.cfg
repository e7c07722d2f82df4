\* A form that is posted twice.
SPECIFICATION Spec
CONSTANTS
  None = None
  d1 = d1
  d2 = d2
  f1 = f1
  f2 = f2
  Deployment = {d1}
  Form = {f1, f2, f3}
  Module = {"app", "web"}
  Identifier = {"key", "token"}
  ServiceList <- SoundServices
  Declared <- MCDeclared
  Faults = {"overlap"}
  MaxRestarts = 0
INVARIANT
  ErroredContainedAnError
