\* Every program of up to three lines of twelve kinds, and every configuration of up to
\* three lines of seven kinds.
CONSTANTS
  MAX_LINES = 3
  MAX_SIZE = 4
  Inputs <- SmallInputs
  Words <- Vocabulary
SPECIFICATION Spec
INVARIANTS
  TypeOK
  TableFollowsConfig
  
  TextFollowsProgram
  ShortProgramRepeats
  ExitHasCause
  LoadedAsListed
