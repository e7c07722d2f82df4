\* Two create requests, nothing that fails.
SPECIFICATION FairSpec
CONSTANTS
  None = None
  d1 = d1
  d2 = d2
  f1 = f1
  f2 = f2
  Deployment = {d1, d2}
  Form = {}
  Module = {"app", "web"}
  Identifier = {"key", "token"}
  ServiceList <- NoQuestions
  Declared <- MCDeclared
  Faults = {}
  MaxRestarts = 0
PROPERTY
  PageUpdates
