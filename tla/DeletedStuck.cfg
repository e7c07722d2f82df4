\* A deployment whose environment is deleted.
SPECIFICATION FairSpec
CONSTANTS
  None = None
  d1 = d1
  d2 = d2
  f1 = f1
  f2 = f2
  Deployment = {d1}
  Form = {f1}
  Module = {"app", "web"}
  Identifier = {"key", "token"}
  ServiceList <- OneQuestion
  Declared <- MCDeclared
  Faults = {"delete"}
  MaxRestarts = 0
PROPERTY
  PageUpdates
