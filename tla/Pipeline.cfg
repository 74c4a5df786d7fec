SPECIFICATION Spec
CONSTANTS
  Scripts <- MCScripts
  Calldatas <- MCCalldatas
  SolverValues <- MCSolverValues
  Requests <- MCRequests
  LastReg = 24
INVARIANTS
  VerdictIsTheConstraint
  EncodingIsExact
  DecoderAnswers
CHECK_DEADLOCK FALSE
