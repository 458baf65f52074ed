SPECIFICATION RegSpec

CONSTANTS
  p1 = p1
  p2 = p2
  s1 = s1
  s2 = s2
  Procs = {p1}
  Callers = {c1}
  Sessions = {s1}
  Claimants = {s1}
  Home <- HomeOne
  Keys = {}
  TrustSettings = {FALSE}
  MaxRuns = 2
  MaxLive = 1
  MaxNotes = 1
  MaxFaults = 0
  PromptTees = FALSE
  ClaimantGone = TRUE
  ThreadStartMayFail = FALSE
  None = None

PROPERTIES
  JournalNeverRegresses
