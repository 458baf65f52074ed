SPECIFICATION AdapterSpec

CONSTANTS
  CoreTokens = {k1, k2}
  CoreResponses = {r1, r2}
  CoreItems = {i1, i2}
  CoreCapacity = 2
  Closers = {c1, c2}
  MaxCloseTasks = 2
  SpokenItems = {i1, i2}
  MaxItems = 1
  ConnectsAlone = TRUE
  GemCalls = {d1, d2}
  GemSenders = {s1}
  MaxCancelled = 1
  MaxBatches = 1
  MaxGemMessages = 3
  Delegations = {d1, d2}
  LastWord = 1
  MaxSeatBreaks = 1
  Offsets = {1}
  Delegated = {d1, d2}
  Plain = {d2}
  MaxSpokenRows = 2
  RowBatch = 2
  MaxTroubles = 1
  Taps = {a1, a2}
  TapConns = {c1, c2}
  HistEvents = {e1, e2}
  StartConn <- Tabs
  Convs = {v1, v2}
  MaxRows = 1
  MaxGenerations = 5
  MaxFaults = 1
  Processes = {p1, p2}
  Sweepers = {w1, w2}
  Home <- Homes
  Author = p1
  MinTurns = 2
  MaxTurns = 2
  MaxClaims = 3
  MaxInodes = 3
  MaxKills = 1
  w1 = w1
  p1 = p1
  p2 = p2

INVARIANTS
  AdaptersSafe
  GeminiSafe
  SessionsSafe
  StorageSafe

PROPERTIES
  NothingTwice

SYMMETRY AdapterSymmetry

CHECK_DEADLOCK FALSE
