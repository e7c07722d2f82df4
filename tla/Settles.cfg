\* Two create requests and a form, overlapping, with a deletion and a crash.
SPECIFICATION FairSpec
CONSTANTS
  None = None
  d1 = d1
  d2 = d2
  f1 = f1
  f2 = f2
  Deployment = {d1, d2}
  Form = {f1}
  Module = {"app", "web"}
  Identifier = {"key", "token"}
  ServiceList <- OneQuestion
  Declared <- MCDeclared
  Faults = {"overlap", "delete"}
  MaxRestarts = 1
PROPERTY
  Settles
