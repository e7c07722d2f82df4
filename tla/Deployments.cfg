\* Two create requests, two forms, everything that may go wrong.
SPECIFICATION Spec
CONSTANTS
  None = None
  d1 = d1
  d2 = d2
  f1 = f1
  f2 = f2
  Deployment = {d1, d2}
  Form = {f1, f2}
  Module = {"app", "web"}
  Identifier = {"key", "token"}
  ServiceList <- SoundServices
  Declared <- MCDeclared
  Faults = {"invalid", "failure", "overlap", "delete"}
  MaxRestarts = 1
INVARIANTS
  TypeOK
  ProgressIsReal
  SuccessIsComplete
  AppliedInOrder
  WaitingIsJustified
  PreviousIsComplete
  AnswersKeepUp
PROPERTIES
  NothingIsLost
  ImplementsRollout
SYMMETRY Symmetry
