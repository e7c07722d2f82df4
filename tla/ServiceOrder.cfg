\* Every list of three declarations with at most two requirements each.
SPECIFICATION Spec
CONSTANTS
  Path = {"a", "b", "c", "x"}
  Input <- MCInput
INVARIANTS
  TypeOK
  RequirementsFirst
  DeployedOnce
  DroppedForAReason
