SPECIFICATION SurfaceSpec

CONSTANTS
  Creates = {t1, t2}
  Connections = {A, B}
  MaxBindings = 2
  NoCreate = none
  MaxUpsets = 2
  LiveSenders = {s1, s2}
  QueueSize = 3
  MaxWire = 5
  TalkTasks = {A, B}
  MaxControllers = 2
  MaxCaptured = 2
  CaptureTries = 2
  MaxMishaps = 2
  Voiced = {v1}
  Typed = {w1}
  MaxRequests = 2
  MaxToolCalls = 2
  MaxInterrupts = 1
  MaxOdd = 1
  MaxAttempts = 2
  MaxChunks = 1
  MaxSpeech = 1
  MaxOutages = 1
  Asked = {d1, d2}
  MaxWords = 1
  MaxTyped = 2
  MaxNews = 2
  MaxProposals = 1
  MaxBreaks = 1
  Runners = {w1, w2}
  SteerActions = {a1}
  MaxRuns = 2
  MaxAsks = 1
  MaxCodexFaults = 1

INVARIANTS
  TransportSafe
  SurfaceSafe
  SayingSafe
  CodexSafe

PROPERTIES
  EndsHold

SYMMETRY SurfaceSymmetry

CHECK_DEADLOCK FALSE
