CONSTANTS
  m = m
  a = a
  b = b
  Main = m
  Coroutines = {a, b}
  Ops = {"pcall", "native", "resume", "yield"}
  FinalizerErrors = FALSE
  AtNativeError = TRUE
  MaxCCalls = 4
  ExtraCCalls = 1
  MaxFrames = 3
  MaxHost = 6
SPECIFICATION Spec
INVARIANTS ThreadsNest ThrowsReachTheirBlock
PROPERTY RefinesCoroutines
