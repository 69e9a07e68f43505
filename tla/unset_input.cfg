SPECIFICATION Spec
CONSTANTS
  CtxLen = 4
  Tokens <- MCTokens
  Exemplars <- MCExemplars
  NQ = 3
  TextLayers = 2
  FusionLayers = 2
  DecoderLayers = 3
  MaxCalls = 2
INVARIANT
  EveryInputIsSet
CHECK_DEADLOCK FALSE
