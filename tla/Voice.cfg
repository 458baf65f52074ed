SPECIFICATION Spec
CONSTANTS
  p1 = p1
  p2 = p2
  s1 = s1
  s2 = s2
  Procs = {p1}
  Callers = {c1}
  Sessions = {s1, s2}
  Claimants = {s1, s2}
  Home <- HomeOne
  Keys = {}
  TrustSettings = {FALSE}
  MaxRuns = 2
  MaxLive = 1
  MaxNotes = 0
  MaxFaults = 1
  PromptTees = TRUE
  ClaimantGone = TRUE
  ThreadStartMayFail = FALSE
  None = None
  MayBind <- BindEither
  Standalone = Standalone
  ProcessPerSession = FALSE
INVARIANTS
  VoiceSafe

PROPERTIES
  KeepsPromise

CHECK_DEADLOCK FALSE
