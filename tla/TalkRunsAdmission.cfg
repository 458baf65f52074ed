SPECIFICATION RegSpec

CONSTANTS
  p1 = p1
  p2 = p2
  s1 = s1
  s2 = s2
  Procs = {p1}
  Callers = {c1, c2}
  Sessions = {s1}
  Claimants = {}
  Home <- HomeOne
  Keys = {k1, k2}
  TrustSettings = {TRUE, FALSE}
  MaxRuns = 2
  MaxLive = 1
  MaxNotes = 0
  MaxFaults = 1
  PromptTees = TRUE
  ClaimantGone = TRUE
  ThreadStartMayFail = FALSE
  None = None

SYMMETRY AdmissionSymmetry

INVARIANTS
  TypeOK
  Fence
  ReservationsMatchCalls

PROPERTIES
  OverlapGrowsOnlyUnderTrust
