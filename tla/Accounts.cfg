\* Two tabs that are served by two replicas.
SPECIFICATION Spec
CONSTANTS
  None = None
  r1 = r1
  r2 = r2
  t1 = t1
  t2 = t2
  Replica = {r1, r2}
  Migration = {"000-initial"}
  MaxCrashes = 1
  Browser = {b1, b2}
  Tab = {t1, t2}
  Serves <- MCServes
  Name = {n1, n2}
  Slug = {"prod"}
  Visits <- MCVisits
  MaxSessions = 2
  MaxOwned = 1
INVARIANTS
  TypeOK
  SecretAgreement
  RecordedHasRun
  SetupIsProven
  SessionsAreOwn
  DuplicatesOverlap
  HandlersHaveTheirUser
  SomeoneInserts
  RedirectsEnd
PROPERTIES
  OnlyOwnersDelete
SYMMETRY Symmetry
