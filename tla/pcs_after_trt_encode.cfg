SPECIFICATION Spec
CONSTANTS
  Images = {i1, i2}
  Preprocessed = {b1}
  NoImage = none
  Square = square
  Deployments <- MCTrtEncoderOnly
  Calls = {"encode", "pcs"}
  Failures = {}
INVARIANTS
  PcsFallsBack
SYMMETRY ImageSymmetry
CHECK_DEADLOCK FALSE
