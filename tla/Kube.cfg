\* Deployers of the same service at the same time.
SPECIFICATION FairSpec
CONSTANTS
  None = None
  w1 = w1
  w2 = w2
  w3 = w3
  Deployer = {w1, w2, w3}
  Last = 3
  Content = {"role", "old", "new", "service"}
  Command = {"serve"}
  Wants <- MCWants
  Instant = {1, 3}
  Faults = {"failure", "falter", "overlap"}
INVARIANTS
  TypeOK
  ReadyInOrder
  SuccessIsReal
PROPERTY
  Ends
