SPECIFICATION Spec
CONSTANTS
  Images = {i1, i2}
  Preprocessed = {b1}
  NoImage = none
  Square = square
  Deployments <- MCGgml
  Calls = {"encode", "encode_prep", "encode_vit", "pcs", "pvs", "exemplar", "fp8", "free"}
  Failures = {"graph"}
INVARIANTS
  NoFault
  PeValidMeansReadable
PROPERTIES
  KeepsPromise
SYMMETRY ImageSymmetry
CHECK_DEADLOCK FALSE
