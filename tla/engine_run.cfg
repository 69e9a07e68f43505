SPECIFICATION RunSpec
CONSTANTS
  InputOrder <- MCInputs
  OutputOrder <- MCOutputs
  Dynamic = {"tokens"}
  MaxElems = 2
  Arguments <- MCArguments
  MaxCalls = 3
INVARIANTS
  OutputsOfThisCall
  StagingLives
  WildWritesHaveCause
PROPERTIES
  EnqueueSeesThisCall
  CallsReturn
CHECK_DEADLOCK FALSE
