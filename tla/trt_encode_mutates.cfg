SPECIFICATION Spec
CONSTANTS
  Images = {i1, i2}
  Preprocessed = {b1}
  NoImage = none
  Square = square
  Deployments <- MCTrtOnlyWeights
  Calls = {"encode", "pcs"}
  Failures = {"trt_encode"}
PROPERTIES
  FailedTrtEncodeMutatesNothing
SYMMETRY ImageSymmetry
CHECK_DEADLOCK FALSE
