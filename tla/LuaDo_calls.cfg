CONSTANTS
  m = m
  a = a
  b = b
  Main = m
  Coroutines = {a}
  Ops = {"call", "meta", "pcall", "load", "error", "resume", "yield", "hook", "gc"}
  FinalizerErrors = FALSE
  AtNativeError = FALSE
  MaxCCalls = 4
  ExtraCCalls = 1
  MaxFrames = 4
  MaxHost = 8
SPECIFICATION Spec
INVARIANTS TypeOK ErrorJmpChain NnyIsCount NCcallsIsDepth HostDepthBounded CurrentFrame
  AssertionsHold SuspendedIsResumable HandlerIsLive NoHookInHook NormalIsOnHost
