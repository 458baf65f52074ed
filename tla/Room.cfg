SPECIFICATION RoomSpec

CONSTANTS
  Rooms = {1}
  Encrypted = TRUE
  MaxStarts = 2
  MaxPackets = 2
  MaxInbound = 1
  MaxHostMoves = 1
  MaxPauses = 1
  Sessions = {1, 2}
  Modes = {"core", "native-task", "legacy"}
  HasCascade = {1}
  MaxLeaves = 2
  Items = {i1, i2}
  ChunkSizes = {1, 3}
  Block = 2
  MaxBlocks = 2
  MaxUnits = 5
  MaxOffered = 4
  Sets = {s1, s2, s3}
  MaxOpens = 4
  MaxElsewhere = 1
  Responses = {a1, a2}
  MaxPieces = 2
  MaxCancelledIds = 2
  MaxStreams = 3
  MaxStreamFaults = 1
  Overlaps = FALSE
  Operators = {op}
  Guests = {guest}
  Utterances = {u1}
  RoomResponses = {r1, r2, r3}
  RoomCalls = {k1, k2}
  EchoesMetadata = TRUE
  MaxTicks = 2
  KeptTicks = 2
  SeenResponses = 2
  MaxBindings = 3
  MaxStrange = 1

INVARIANTS
  TapSafe
  PermitsSafe
  RoomVoiceSafe
  DevicesSafe

PROPERTIES
  NothingForOthers

CHECK_DEADLOCK FALSE
