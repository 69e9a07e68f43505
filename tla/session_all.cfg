SPECIFICATION Spec
CONSTANTS
  Images = {i1, i2}
  Preprocessed = {b1}
  NoImage = none
  Square = square
  Deployments <- MCAll
  Calls = {"encode", "encode_prep", "encode_vit", "pcs", "pvs", "exemplar", "fp8", "free"}
  Failures = {"trt_encode", "trt_prompt", "graph", "pe"}
INVARIANTS
  TypeOK
  Ownership
  FreedMeansEmpty
  EncodedFeaturesCurrent
  AnswerMatchesEncode
PROPERTIES
  FailedEncodeKeepsFeatures
  EncodedPromptIsSafe
SYMMETRY ImageSymmetry
CHECK_DEADLOCK FALSE
