\* Two wingmen in any order, ten attempts each.
SPECIFICATION FairSpec
CONSTANTS
  None = None
  Service <- MCService
  Own <- Database
  Points <- MCPoints
  Answers <- MCAnswers
  Additions <- MCAdditions
  Phrase <- MCPhrase
INVARIANTS
  TypeOK
  OnlyTheFunctionChanges
  TheFirstAnswers
  AgreesWithEvaluation
  KindsSurvive
  CommandIsMeant
PROPERTY
  Ends
CHECK_DEADLOCK FALSE
