SPECIFICATION Spec
CHECK_DEADLOCK FALSE
CONSTANTS
  BITS = 6
  MAX_INT64 = 31
  MAX_SAFE = 7
  SMALL = 2
  BYTE = 2
  LUA_MAXCAPTURES = 8
  MAXCCALLS = 50
  NB = 2
  SZINT = 8
  MAXINTSIZE = 16
  MAXALIGN = 8
  MAXSIZE = 1000
  BYTES = 32
  IntSize = 2
  IntegerSize = 3
  LUAC_INT = 5678
  LUAC_NUM = 370
  RANLIMIT = 4
  IMBALANCE = 1
  AnyOrder = {2, 3, 4, 5, 6, 7}
  Randoms = {1, 2, 3}
  Integers64 <- MCIntegers64
  Floats <- MCFloats
  LoopCalls <- MCLoopCalls
  Classes <- MCClasses
  Complements <- MCComplements
  Code <- MCCode
  FindCalls <- MCFindCalls
  GsubCalls <- MCGsubCalls
  FloatBytes <- MCFloatBytes
  FloatValues = {901, 902}
  PackCalls <- MCPackCalls
  UnpackCalls <- MCUnpackCalls
  Signature <- MCSignature
  Version <- MCVersion
  LoadCalls <- MCLoadCalls
  SortCalls <- MCSortCalls
  HALFMAX = 5
  Tables <- MCTables
  SizeEstimates = {0, 2, 3, 7}
  ListItems = {0, 1, 2, 3, 4, 7, 8, 9}
  MoveCalls <- MCMoveCalls
  RefValues = {0, 5, 6}
  MaxRefs = 7
  LUAI_MAXSTACK = 20
  LUA_MINSTACK = 4
  EXTRA_STACK = 3
  ERRORSTACKSIZE = 25
  TMSLOTS = 2
  MaxSteps = 11
  MaxFrames = 3
  Counts = {1}
  FrameSizes = {14}
INVARIANTS
  IntegersAreExact
  MatchIsMeaning
  UnpackInvertsPack
  UndumpInvertsDump
  SortSorts
  ListsAreSequences
  StackHasRoom
  ReferencesAreExclusive
