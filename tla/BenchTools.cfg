SPECIFICATION ToolsSpec
CHECK_DEADLOCK FALSE
CONSTANTS
  Tools = {"placement", "gate", "native", "echo", "throughput", "isolated", "pacer", "slot", "vm"}
  Variants <- MCVariants
  Rounds = 2
  BenchCases = {"c1", "c2"}
  BenchTimes = {0, 1, 2}
  MaxFaults = 2
  None = None
  Repetitions = 2
  GateNames = {"b1"}
  GateFields = {"p50", "p95"}
  GateTimes = {0, 4, 5, 9}
  Threshold = 25
  Modes <- MCModes
  NativeRounds = 4
  Attempts = 3
  NativeTimes = {1, 2}
  Tokens <- MCTokens
  EchoSamples = 4
  MaxRepaints = 1
  Payloads <- MCPayloads
  Sizes = {"small", "large"}
  MaxResizes = 3
  Children = {"p1", "p2", "p3"}
  Interval = 2
  MaxTime = 8
  SlotTime = 4
  SlotFrames = 2
  MaxCommands = 4
  MaxInterrupts = 2
INVARIANTS
  PairedWithinRound
  PassBoundsEveryRun
  ToolsAgree
  OrderBalanced
  OwnEcho
  CasesSound
  SessionsReclaimed
  NoBurst
  WindowedTotals
  MachineKept
