CONSTANTS
  m = m
  a = a
  b = b
  Main = m
  Coroutines = {a}
  Ops = {"call", "pcall", "error", "resume"}
  FinalizerErrors = FALSE
  AtNativeError = FALSE
  MaxCCalls = 4
  ExtraCCalls = 1
  MaxFrames = 4
  MaxHost = 8
SPECIFICATION Spec
INVARIANTS HooksRestored
