SPECIFICATION Spec
CONSTANTS
  Names <- AllNames
  Checkpoints <- MCCheckpoints
  Registered <- RegisteredNames
  WeightTyped <- WeightTypedNames
  Detector <- DetectorNames
  RuntimeHelpers <- RuntimeHelperNames
  Matrix <- MatrixNames
  Aligned <- AlignedNames
  Stripped <- StrippedNames
  ConvertedAsF32 <- ConvertedAsF32Names
  NeverQuantized <- NeverQuantizedNames
  SidecarHelpers <- SidecarHelperNames
  MaxTools = 3
  MaxCrashes = 1
INVARIANTS
  LoadedHoldsOwnBytes
  CompleteFilesLoad
  IncompleteFilesRefused
  SidecarHasItsRecords
CHECK_DEADLOCK FALSE
