\* An image that is a dynamic config.
SPECIFICATION FairSpec
CONSTANTS
  None = None
  d1 = d1
  d2 = d2
  f1 = f1
  f2 = f2
  Deployment = {d1}
  Form = {f1, f2}
  Module = {"app", "web"}
  Identifier = {"key", "token"}
  ServiceList <- DynamicImage
  Declared <- MCDeclared
  Faults = {}
  MaxRestarts = 0
PROPERTY
  PageUpdates
