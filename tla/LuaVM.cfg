SPECIFICATION Spec
CONSTANTS
  MAXREGS = 40
  MAXINDEXRK = 3
  MAXK = 5
  MAXARG_C = 1
  MAXARG_sBx = 200
  LFIELDS_PER_FLUSH = 2
  MAXVARS = 30
  MAXUPVAL = 10
  MAXTAGLOOP = 4
  MAXINTEGER = 1000
  Programs <- MCPrograms
  Compiled <- MCCompiled
  Promise <- MCMeaning
  Arguments <- MCArguments
  Collation <- MCCollation
INVARIANTS TraceIsSource RejectedIsIllegal AssertionsHold CodeIsSound UpvaluesInScope
CHECK_DEADLOCK FALSE
