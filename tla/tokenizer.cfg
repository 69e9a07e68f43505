SPECIFICATION Spec
CONSTANTS
  Letter <- MCLetter
  Digit <- MCDigit
  Space <- MCSpace
  Lower <- MCLower
  Bytes <- MCBytes
  Specials <- MCSpecials
  Texts <- MCTexts
  Vocabularies <- MCVocabularies
  Sot = 90
  Eot = 91
  CtxLen = 5
  MaxCalls = 2
  MaxLoads = 2
INVARIANTS
  SplitFollowsPattern
  CacheHoldsMerges
  ResultAsDefined
  ResultFormat
PROPERTIES
  CallsReturn
CHECK_DEADLOCK FALSE
