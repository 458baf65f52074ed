SPECIFICATION BoardSpec

CONSTANTS
  Job = j
  Control = k
  DashThreads = {t1, t2}
  MaxJoins = 2
  MaxDashFaults = 1
  First = r1
  Second = r2
  Reporters = {t1, t2}
  MaxRejoins = 2
  MaxTrouble = 1
  Operations = {o1, o2}
  Addressees = {A, B}
  Askers = {t1, t2}
  MaxAskFaults = 1
  NewsJobs = {j1}
  MaxPolls = 2
  Wishes = {"important", "completion"}
  LastUpdate = 3
  MaxClaims = 3
  MaxTabs = 2
  MaxUpsets = 1
  Epochs = {1, 2}
  Ring = 2
  MaxRows = 2
  LastSeq = 3
  MaxFetched = 2
  MaxOpened = 2
  Targets = {A, B}
  SwitchThreads = {t1, t2}
  MaxConns = 3
  MaxHangups = 2
  MaxRefusals = 1
  MaxStack = 2

INVARIANTS
  ActionsSafe
  ChoicesSafe
  NewsSafe

PROPERTIES
  StepsGoForward

CHECK_DEADLOCK FALSE
