SPECIFICATION ServiceSpec

CONSTANTS
  AgentRuns = {r1, r2}
  RequestsPerRun = 2
  MaxPending = 1
  MaxGeneration = 2
  MaxFaults = 1
  ExactRouting = TRUE
  None = None
  Procs = {p1, p2}
  NoLine = NoLine
  Junk = Junk
  TornWrites = TRUE
  MaxIds = 3
  MaxVersions = 2
  MaxLines = 3
  Keep = 2
  TailLines = 2
  MaxCrashes = 1
  MaxHistFaults = 1
  Notes = {n1, n2}
  Agents = {a1, a2}
  IdOf <- OneId
  NoReceipt = NoReceipt
  FrameVisible = TRUE
  PromptCapture = TRUE
  MaxReceipts = 2
  MaxLife = 2
  MaxEdits = 1

SYMMETRY ServiceSymmetry

INVARIANTS
  ApprovalsSafe
  HistorySafe
  SteerSafe
  CredentialsSafe

PROPERTIES
  NoDenyOverAnswer
  HistoryNeverFalls
  LandsTogether

CHECK_DEADLOCK FALSE
