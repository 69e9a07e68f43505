SPECIFICATION Spec
CONSTANTS
  Models = {m1, m2, m3}
  None = none
  Names <- MCNames
  PcsNames <- MCPcsNames
  Files <- MCFiles
  Precisions <- MCPrecisions
  Env <- MCEnv
  Params <- MCParams
INVARIANTS
  TypeOK
  RegistrationLive
  RegistrationKept
  UniformConfigServed
PROPERTIES
  DeploymentFixed
SYMMETRY Symmetric
CHECK_DEADLOCK FALSE
